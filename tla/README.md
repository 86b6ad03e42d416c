# Verification of p101-report

`p101-report` reads two logs that an observed program has left behind, the
records of what it did with descriptors and memory (`resources.log`) and the
records of its wrapper calls (`calls.log`), replays the first, and prints what
was leaked, released twice, or handed to a new image by an `exec`.  It is one
thread that never waits.  What is hard in it comes from elsewhere: the logs are
written by several processes at once, in an order nobody controls, and the
replay has to tell from records that *exist* what happened in calls that left
no record; and every allocation of the replay may fail in the middle of a step.

Files named below without a directory are in `src/src/` or `src/include/`.

## 1. The system

| component | source | state | operations |
| --- | --- | --- | --- |
| run control | `main.c`, `runner.c` | the `p101_error`, the exit status | arguments, read both logs, finish, finalize, print |
| command line | `cli.c` | `struct arguments` | parse, check, usage |
| readers | `reader.c`, `io.c` | counters, the open stream | one loop per log |
| record parser | `parse.c` | stream health, interned sites | line to status and event |
| ownership replay | `model.c` | `resources`, `fds`, `closed_fds`, `allocs`, `freed_allocs`, `findings` | ingest one record, finalize |
| lifecycle adapter | `model_generic.c` | the library's lifecycle model | ingest, finalize |
| model support | `model_support.c`, `memory.c` | sites, array capacities | grow, intern, add, copy, free |
| lifetimes | `lifetime*.c` | none | the end of a lifetime, three renderings |
| trace context | `output.c` | none | the calls around a finding |
| bundle | `bundle.c` | stdout's descriptor, four files | one redirection per artefact |
| names, JSON | `finding.c`, `json.c` | none | constant tables, escaping |
| external | `lib_tool_event` and the p101 wrappers | parser, stream health, lifecycle rules, run model; the traced processes | - |

How they meet: the runner calls the reader of the resources, then the reader of
the calls.  Each line goes to the parser, which shows it to the stream health
and to the run model and returns a status; a parsed resource record goes to
`p101_report_ingest_resource`, which stores it, gives a copy to the lifecycle
model, and updates the tables.  After both logs `p101_report_finalize_leaks`
takes exec attempts still open to have crossed and collects the lifecycle
findings; the printers read the model and change nothing.  All components share
one `p101_error`: whoever raises it stops the loops of all the others.

What makes each part correct, and what is hard about it:

- *Ownership replay.*  An `exec` wrapper writes one `EXEC` record per open
  descriptor before the call and an `EXECFAIL` after it if it returns.  If it
  does not return nothing is written, so success has to be inferred from the
  next record of the process.  A finding is made at the snapshot and taken back
  by a rollback that looks for the snapshots by walking the log backwards.
  Children may log before the `FORK` record that introduces them.  Right means:
  marks never outlive an attempt, findings are exactly the crossings, no live
  descriptor is lost, and what a child's own records opened and closed is not given
  back to it.
- *Readers and run control.*  A verdict, 0 or 1, may only be given on whole
  evidence; record numbers are ranks; every path ends.
- *Lifetimes, trace context.*  The end of a lifetime and the window of calls are
  searches over the stored records.  Each answers a question some other part has
  answered too (what is still held, which call made the record), and the two
  answers stand in one report.
- *Lifecycle adapter.*  A finding of the library names records by the producer's
  numbers; it has to be led back to the very records it is about, and none may
  be lost without an error.
- *Model support, memory.*  Arrays double in `size_t` arithmetic; every request may
  fail after others have been granted, and what was done by then stays: rooms
  are real, indices mean one site, texts have one owner.
- *JSON.*  Whatever bytes a text has, a JSON reader gets them back.
- *Bundle.*  Whatever fails, stdout is restored and no descriptor leaks.
- *Command line.*  A log that is named is the one that is read, and a command line means
  the same under either kind of getopt.

## 2. The modules

| module | models | kind |
| --- | --- | --- |
| `Replay` | `model.c` | the core: one action per record kind |
| `MCRecords`, `MCReplay` | - | constructors of records; the topics of the logs checked |
| `ObservedRun` | the traced processes, beside `Replay` | composition |
| `MCObservedRun` | - | its records and worlds |
| `ReplayArrays` | `model.c` on its arrays | implements `Replay` |
| `MCReplayArrays` | - | its records |
| `Lifetimes` | `lifetime.c`, `lifetime_common.c`, `lifetime_mermaid.c`, beside `Replay` | functions of the log |
| `LifecycleAdapter` | `model_generic.c`, with the library as environment | control and searches |
| `MCLifecycleAdapter` | - | symmetry |
| `TraceBounds` | the window of `output.c`, `p101_report_site_matches_call`, with the traced threads | function of the log |
| `MCTraceBounds` | - | source sites, symmetry |
| `Support` | `model_support.c` | arrays, every request failing |
| `MCSupport` | - | symmetry |
| `Texts` | `memory.c` and every copy, move and release of a text | ownership |
| `CommandLine` | `cli.c`, `p101_report_join_path` | function of `argv`, part of `Pipeline` |
| `JsonStrings` | `json.c` | function of a text |
| `Pipeline` | `main.c`, `runner.c`, `reader.c`, the statuses of `parse.c` | control |
| `Bundle` | `bundle.c`, `p101_report_join_path` of `io.c` | control |
| `MCBundle` | - | the lengths of the file names and directories |
| `ReplayProofs` | - | the theorems about `Replay`, `Lifetimes` and `ObservedRun` |
| `ArraysProofs` | - | the theorems about `ReplayArrays`: it implements `Replay` |
| `PipelineProofs` | - | the theorems about `Pipeline` and `CommandLine` |
| `BundleProofs` | - | the theorems about `Bundle` and `JsonStrings` |
| `AdapterProofs`, `TraceProofs`, `SupportProofs`, `TextsProofs` | - | the theorems about `LifecycleAdapter`, `TraceBounds`, `Support` and `Texts` |

### Replay

State: the variables have the names of the fields of `struct report_model`;
`resources` is a sequence, the tables are sets of entries.  `err` is the
`p101_error`, `finalized` says that `p101_report_finalize_leaks` has run.
`Ingest(ev)` is `p101_report_ingest_resource`: its first disjuncts are the cases
of the switch, one action per outcome (`FdClose` of an entry found,
`FdCloseStray` of none, and so on), each including what happens before the
switch: the settling of the process's open attempt (`Settling`, `SweptFds`,
`SweptClosed`: `p101_report_finish_exec`) and the storing of the record
(`Stored`).  `SettleFails` and `StoreFails` are the two ways to leave before the
switch.  `ExecFail` is `p101_report_rollback_failed_exec`; the backward walk and
the comparison with `first_sequence` become one predicate, `FindingMatches`: all
records from the finding's own to the end of the log match the attempt.

Every request for memory is a choice from `Outcomes`, named after what it is
for: `grows` for the table or the text of the action, `adopted` for the
lifecycle model.  `Outcomes = {TRUE}` is a replay in which memory never runs
out.  With `FALSE` in it, a loop that stops at its first error leaves any part
of its work done.

Abstractions.  The C tables are arrays and removal moves the last entry into the
gap; where the code takes the first match, the model takes any.  `ReplayArrays`
has the arrays and shows that what they do is among what the sets allow.  Fields nothing
in `model.c` reads back are left out (sizes, times, the site of a closed
descriptor, `generic_kind` and its texts: a `GENERIC` record only settles and is
handed on).  What the lifecycle library reports at the end is any set of at most
`MaxReported` findings about records it was given; each is taken to be found
again in the log by its producer's numbers.

### ObservedRun

What `Replay` accepts is any sequence of `Inputs`; many properties one would
like (that the report is *true*) need to know which logs real processes write.
`ObservedRun` adds the processes: what each has open, what it keeps across an
exec, where it is in an attempt, and `crossed`, the snapshots whose descriptors
really crossed.  Its actions log through the actions of `Replay`, in the same
step: the replay depends only on the order of the log, so ingesting a record
when it is written changes nothing.  The processes are external code, modelled
from what `model.c` relies on (its comment at lines 354-359, and lines 180-188 for
children that log early).  The constant `Worlds` lists the kinds of run there may be,
and `world` is the one at hand: whether processes log inside each other's attempts
(`interleave`), new images exec before they log anything (`reexec`), children log before
their parent's `FORK` record (`late_fork`) and fork in their turn before it (`nested`),
processes exit and their pids come back (`exiting`), and other threads of a process open
and close descriptors while one is inside an exec (`threads`).  The properties name the
worlds they hold in, so one run compares them.

An attempt is one call of a wrapper, so it has one target and one source site, and all its
records carry both: `call` holds them from `StartsExec` on.  All properties are of
`Quiescent` states, in which no attempt and no fork is half logged and no error is set.

`Orderly` are the worlds in which a table that follows the log can know all that is open.
Nobody exits, since an exit logs nothing.  And where children log early, two more things
are left out: that another thread of the parent closes a descriptor between the fork and
its record, and that the child forks before it is known.  In either case FORK copies the
parent's entries at the time of the *record* (`model.c:154-201`), and those are no longer,
or not yet, the ones the child was born with.

### ReplayArrays

The variables of `Replay`, with sequences where `Replay` has sets, and one action
per case of the switch.  The loops of the code are recursive functions of the number of
rounds: `Drop` is the removal that moves the last entry into the gap, `Sweep` the loop of
`p101_report_finish_exec` that has to look at a moved entry again (`SweepRound` is one
round of it, `EndRound` one of the loop around it in `p101_report_finalize_leaks`), `Inherit`
the loop of FORK that appends to the array it runs over (`Give`), `FirstSequence` the
backward walk of the rollback and `Compact` its loop over the findings (`Copy`).  Memory is a number of
requests that will be `Granted` before one fails, so a loop stops anywhere.
`Abstract == INSTANCE Replay WITH` each table replaced by the range of its array, and
`RefinesReplay == Abstract!Spec` is checked and proved: every theorem about `Replay` that
speaks of what the tables hold is thereby one about the arrays.

### Lifetimes

A lifetime is a function of the stored log, so the module adds no behaviour to
`Replay`, and compares, in every state, what the report would list with what the tables
hold.  The texts of a generic record, which `Replay` does without, are taken from its
source site (`Writes`): a site always writes the same, and there are as many sites as there
are things to say.  `FdEnd`, `AllocEnd` and
`GenericEnd` are the three searches, each the least later record that is an end; the three
renderings are loops over the log, and `JsonRows[n]`, `TextRows[n]` and `MermaidRows[n]`
what each has shown after n records.  As in the code, each rendering has its own test for
what begins a lifetime and its own choice of the search: `IsBirth` and `End` for JSON,
`TextDeath` and `MermaidDeath` for the others (`NoLifetime` where a record begins none).
Durations, and how a lifetime is written, are left out.

### LifecycleAdapter

Reading hands each record to the library, `Finish` lets the library return findings,
`AddNext` is a round of `p101_report_finalize_generic`.  The rules of the library are
not in this repository: it may report any record it was given, with an earlier one of
the same process and class, under any kind.  That is the contract the adapter is modelled
under: a finding is about a record the library has taken, and is filed under the process
that logged it.  A stored record then always fits, so the fallback of
`model_generic.c:318` is in the model but not reached.  The library may fail in
silence: where it cannot create its model, take a record or finish, the adapter returns
without a look at the error (`model_generic.c:32-35, 120-123`), and the model leaves open
whether it is set.  `lifecycle` says that the library's model exists, `Lost` are the
records it has not taken.  What is the adapter's own is all there:
the name of the diagnostic, the two searches (`SequenceOf`, with the fallback to the
producer's number; `EventOf`, without the class), the order of the steps and each
failure.  Producers number the records of a context upwards from 1; whether an exec
makes them start again is not decided in this repository, so it may, and `restarted`
remembers that it has.

### TraceBounds

The log of calls is written by threads whose wrapper calls nest, so the model knows
which call a record was made in; `Begin` and `End` are the window the code computes
from the log alone.  Assumed of the producers (external): one counter per process and
context numbers the records of both logs, and a resource is logged inside the wrapper call
that has its source site.  The comparison of the two numbers in `output.c:375` has
no meaning otherwise.  A call may be left without an `EXIT` record, by a jump or the end of
its thread; `unwound` remembers it: the window may then be too long, never too short.  (The fixtures of `test_cli.sh:22-30` number the two streams
independently; the findings there have one call each.)

### Support and Texts

`Support` has `size_t` of a narrow width, the blocks of two arrays with items of different
sizes, the interning of sites and the rounds of the finalization, which go on
with the index they got whether it is good or not.  `reported` remembers, beside the
findings, which sites the caller meant.

`Texts` has the heap: `live` are its blocks in use, and an address is handed out
again as soon as it is free (`Fresh(heap, k)` is the k-th free one), so that a pointer kept
too long meets its successor.  A text that could not be copied is 0, which is NULL; `Rows`
are all the pointers the program may still read or free, the event's and the model's.  Which entry a
record finds, or which findings a rollback drops, is `Replay`'s subject; here it may be
any.  Both logs and the finalization share one run.

### CommandLine and JsonStrings

What each does is a function of its input, which grows by a word or a byte, and the
properties are about what the code makes of each input.  `CommandLine` is part of
`Pipeline`: the command line is typed before the program starts, and `Loop(words,
permutes)[n]` is what the loop over getopt has read after n words.  Several options in one
word and options with their argument in the same word are left out; `JsonStrings` holds the written string against a
reader of JSON strings.

### Pipeline

`phase` is where `main`, `p101_report_run` and the two readers are; each
operation on stream `s` is an action of its own.  A line is one of a few
classes, by what the reader does with it; `Observed` stands for the stream
health of the library (external: it is nondeterministic where a receipt is
followed by something).  A parsed resource record is stored or sets the error and
may add a finding or take any number of them back (a rollback): what it does otherwise
is `Replay`.  Before that the command line is
typed (`Types`), and either getopt's reading of it decides between `Help`, `Refuse` and
the start of a run, which may fail before anything is read (`StartFails`: a path that
does not fit, no run model).

### Bundle

`step` is the next call of `write_one` or `write_run_model`, and each call is an
action; `artefact` is the file in hand.  `stdout` is what descriptor 1 refers to
and `buffer` what the stream of that name has not written yet: a report is two
pieces of text, any part of which may reach the file before the flush, and a
flush that fails may have written a part and may keep or drop the rest.  What is
in the buffer at the end is written by `exit`.  Paths are their lengths: the
names have those of the program, the directories are chosen around the points
where one name after the other stops fitting.  A wrapper called with the error
already set is taken to do its work, and `close` to release its descriptor even
when it fails.  The run model is written by the library into a stream (`WriteModel`)
and the stream is closed (`Fclose`); `pending` is what has been written and is not in
the file yet.  The result of the first call is dropped (`bundle.c:37`), so a library that
fails without setting the error leaves a short file and no error, which `unheard` records.
`Bundle` is the inside of `Pipeline`'s `PrintReport` under `-b`: with `BundleIsWhole`, a
verdict means that the three reports are complete, and the run model too unless the library
has failed in silence.

## 3. What is checked

| run | question | bounds |
| --- | --- | --- |
| `replay` | do marks, findings, rollback and tables agree with the log, and the listed lifetimes with the tables? | logs of one topic: execs of one process (one descriptor, two targets, 6 records); forks of two processes (5); blocks of two processes at two addresses (5); generic resources of two identities and two classes (4); all ten kinds with any request failing and one lifecycle finding (4) |
| `observed_run` | is the report true, and does the table hold what is open, in which kinds of run?  And what does it take for a report to be false? | two processes; two descriptors, or one and two targets; 6 records, and 5 with threads, late `FORK` records or two targets |
| `arrays` | do the loops implement `Replay`, also when memory runs out inside one? | two processes, two descriptors, 5 records; 0, 1 or 2 requests granted |
| `adapter` | does a finding name the records it is about, what is left of that when numbers start again, and is one a finished library has returned ever lost without an error? | two processes of two contexts, 4 records, one of them not taken, 2 findings, 5 of all these together; all calls may fail, those of the library with or without an error |
| `trace` | does the window of a finding fit its call, also when calls are left without an `EXIT`? | two threads, three wrappers at three sites, 5 call records |
| `support` | are arrays, sites and findings consistent at the end of `size_t`? | 4 bits, items of 3 and 5 bytes, two files, functions and lines |
| `texts` | has each text one owner, and is none forgotten? | 3 records, 1 finding, all requests may fail |
| `json_strings` | does a JSON reader get the text back? | 4 of 15 bytes |
| `pipeline` | does a command line that is accepted mean one thing, is a verdict given on whole evidence only, and does every run end? | 5 of 12 words, both kinds of getopt; two lines per log, 1 finding, all calls may fail |
| `bundle` | what do the four files, stdout and the descriptors look like, whatever fails? | six directory lengths, any subset of the files already there, the library failing with or without an error |
| `run_false_report` | violation: `NoFalseReport` with interleaved logs | one descriptor, one target, 6 records |
| `run_lost_report` | violation: `NoLostReport` when a new image re-execs at once | one descriptor, one target, 6 records |

The logs of `replay` and `arrays` stay within a topic, a set of records that bear on each
other: mixing all kinds at these lengths is out of reach, and records of different tables
meet in the topic of all kinds only.  Memory fails in one topic, for an error ends the
replay and only its last step sees it.

Why the bounds are enough to be of interest.  An attempt that leaves a finding
takes an open, a snapshot and one more record; two attempts in a row, or an
attempt with a fork before it, fit in six, and so does a late fork with an open
and a close of the child before it.  Two processes are what it takes to confuse
one with the other, two targets to tell attempts apart, two descriptors to have
an attempt with more than one snapshot.  Two lines are enough for a verdict with a
finding (a record and a receipt), for a record after a refused line, and for
anything after a receipt.  A sweep that goes wrong needs two marked entries, a
fork loop two entries to inherit, a window that closes wrongly a call nested in one of
its own name.  Four bits of `size_t` with these item sizes reach the end of the growth in
both arrays, where the product no longer fits.  It is the second test, of the product, that
decides there; the first one decides only for items of one byte, which the run has none of
and `RoomIsAlwaysReal` covers.
The bundle is finite as it is.  Each property has a mutant of the model, a slip the
code could have had, that violates it under these very bounds.  The bounds are
`MaxRecords`, `MaxReported`, `MaxLines`, `MaxFindings`, `MaxCalls`, `MaxWords` and
`MaxText`, `MaxLost` and `MaxTotal` in `adapter`, the lengths of the topics and `records` of a world;
`SizeMax` bounds `support`.

Deadlock is not checked: the replay stops at the end of the log or at an error,
the program exits, and the length of the logs is bounded.

The properties, by what they are about:

- *Attempts.*  `PendingIsOpenAttempt`: a mark is an attempt its process has not
  left.  `InheritFindingsAreBacked`: a finding stands for a snapshot of a
  descriptor its process had; and if the call of that snapshot has failed, the finding is
  there only because the records of the attempt were not left together: another process, or
  the process itself, logged something between the snapshot and the `EXECFAIL`.  Which
  `EXECFAIL` is the call's is judged from the records of the one process (`FailsAt`,
  `OneCall`), not by the walk of the rollback.  `InheritanceIsReported`: conversely, a snapshot of
  an open descriptor in an attempt not seen to fail has its finding.
  `FinalOnceProcessMovesOn`, an action property: once the process has logged
  anything else, no rollback removes the finding.
- *Descriptors.*  `FdsComeFromLog`: entries are born from opens and forks, and a
  second entry for a descriptor is an open whose close was missed.
  `ForkNeverRevives`: no fork gives a child back what the child's own records
  opened and closed.  (One it inherited and closed before the `FORK` record it does get
  back, see below.)
  `OpenDescriptorsAreHeld`: what the log shows open is in the table.
- *Memory.*  `AllocsMatchLog`: per process and address, the table holds what a
  count of gains and losses on the log gives.
- *Truth.*  `NoFalseReport`, `NoLostReport`: the report against `crossed`.  Neither holds
  in every world; `NoFalseReportUntorn` holds where nobody logs inside an attempt, and
  `NoLostReportAnnounced` where new images log before they exec and children are known
  from their `FORK` on.  `FalseReportsAreBrokenUp` holds in every world and says what a false
  report takes: a failed exec with something logged by another process or thread between
  its snapshot and its `EXECFAIL`, or a thread that closed the descriptor before the exec.
  `TableTracksOpen`, `TableCoversOpen`: the table against what is really open, or, with
  several threads, against what survives execs; the one says exactly, where children
  announce themselves and images log before they exec, the other at least, in every
  `Orderly` world.
- *The arrays.*  `RefinesReplay`: the loops are steps of the sets.  `FindingsAreAStack`
  says what sets cannot show: a rollback only ever takes the latest findings.
- *Lifetimes.*  `DescriptorsAgree`, `BlocksAgree`: a lifetime without an
  end is an entry of the table (or, for a descriptor, one an exec swept away), and the
  other way round as long as nothing was opened twice without a close.
  Of generic resources no table here says what is held (the library has one, out of
  sight), so their search has nothing to be set against.
  `RenderingsAgree`: the three tests and choices agree, so text, JSON and diagram
  show the same lifetimes up to the limit; the text counts what it leaves out, and the
  diagram stops at the same place without saying so.
- *Lifecycle findings.*  `FindingNamesItsRecords`, `FindingStaysInItsClass` (what still
  holds when numbers repeat), `AllFindingsOrError`: what a library that has finished
  returned is all there or the error is set.  Of one that fails in silence nothing is said.
- *Trace.*  `WindowStartsInCall`, `WindowEndsWithCall`, and `StoryIsFinal`, an action property: what
  is printed depends on nothing logged after the call has returned.
- *Arrays and texts.*  `RoomIsReal`, `SitesAreDistinct`, `FindingsKeepTheirSite`;
  `OneOwner`, `NothingIsForgotten`.
- *Inputs and outputs.*  `PermutingOnlyAdmitsMore`, `NamedLogIsRead`; `StringsReadBack`.
- *Bundle.*  `BundleIsWhole` (except for the run model where `unheard`), `EachReportToItsFile`,
  `DescriptorsAreReturned`, and `NoStrayPath`: `write_run_model` opens its path without looking at the error of
  the join, which is harmless only because the three names before it are longer.
- *Runs of the program.*  `VerdictOnWholeEvidence`, `SequenceIsRank`, `Terminates`.

Fairness.  Only `Pipeline` has a liveness property, under `WF_vars(Proceed)`: once it
has started the program is one thread, every library call returns and the logs are finite
(`MaxLines`).  Nobody has to start it.  No choice is required to be made in any particular way.  The other
modules claim safety only: the observed processes may stop anywhere, and the
searches and loops of the rest run inside a step.

### What the checks found

1. *A failed exec may stay in the report* (`run_false_report`).  The rollback
   walks back from the `EXECFAIL` and stops at the first record that is not of
   the attempt (`model.c:360-372`).  If another process logged in between, the
   snapshots before that record keep their findings, although the README
   (lines 19-20) promises that only descriptors that crossed are reported.  With
   attempts logged in one piece, `observed_run` finds nothing false in the report; and
   `FalseReportsAreBrokenUp`, checked and proved, says that such an interruption, or
   another thread's close before the exec, is the only way for one to be.
2. *A true report may be removed* (`run_lost_report`).  If a new image, before
   logging anything else, execs the same target from the same site and fails,
   the walk continues into the records of the exec that started it, and removes
   its finding too; the comment at lines 354-359 says it would remain.
   `FinalOnceProcessMovesOn` states what does hold, and is proved.

Smaller things the models brought up:

- A grandchild may be unknown for good.  When a child forks before its own `FORK` record is
  logged, its record finds no entries to hand down, and the one of its parent that follows
  gives them to the child alone (`model.c:156`).  What the grandchild inherited is then
  missing from the table, and so are its leaks (`Orderly` excludes it).
- A descriptor closed by an exec is listed as live.  The end of its lifetime is searched
  among `FD_CLOSE` records (`lifetime_common.c:77-96`), while the replay sweeps
  close-on-exec descriptors away (`model.c:302-315`).  `DescriptorsAgree` says that
  of the descriptors listed as live only these are not in the table.  Where the number is
  opened again and closed, that later close is shown as the end of both lifetimes; of this nothing is
  checked, `DescriptorsAgree` exempts what an exec has swept away (`SweptAway`).
- A child that closes an inherited descriptor before its parent's `FORK` record is logged
  gets it back.  Its `FD_CLOSE` finds no entry and so leaves nothing in `closed_fds`
  (`model.c:58-79`), and the `FORK` then hands the descriptor down (`model.c:180-190`).
- The library may fail unheard.  What `p101_tool_model_write_json` returns is dropped
  (`bundle.c:37`), and `model_generic.c:32-35, 120-123` returns without a look at the error;
  `test_more.c:795-824` injects such failures.  If the library does not set the error, the run
  model is short, or the lifecycle findings are missing, in what looks like a clean run.
- The diagram stops at the limit without a word (`lifetime_mermaid.c:43`).
- An allocation that yielded no address is listed as a live lifetime of `-`
  (`lifetime.c:161`); the table takes no entry for it.
- The event a lifecycle finding takes its address from is searched without the class
  that the search for its number looks at (`model_generic.c:328`); where a producer's
  numbers start again the line may show another record's address.
- The five texts of a call event are forgotten when `calls[]` cannot grow
  (`reader.c:148-149`); `NothingIsForgotten` names it as its only exception, and the run is
  over then.
- A name that could not be copied stays in the table of sites as NULL and is compared
  by the next interning of the same round (`model_support.c:24`).
- `-d` given twice takes the last one; with an operand beside it the command line is refused.
- Bytes of the upper half are escaped one at a time, so a name in UTF-8 reads back as one
  code point per byte.  `StringsReadBack` holds for readers that take them for bytes.

## 4. What is proved

Each theorem is of the module's own `Spec` (`RunSpec` for `ObservedRun`), for every value of
the constants its named assumption admits; nothing else is assumed.  Of the bounds the
assumptions say only that they are numbers, so a run may be as long as it likes.

### Replay

`ReplayProofs`, for all sets of processes, descriptors, addresses, targets, sites and
inputs, all outcomes and all bounds, from `ReplayAssumption` alone (the inputs are records;
opens, closes and execs carry a descriptor and forks a child; success is a possible outcome):

| theorem | statement |
| --- | --- |
| `TypeCorrect` | `Spec => []TypeOK` |
| `PendingMarks` | `Spec => []PendingIsOpenAttempt` |
| `RollbackIsLocal` | `Spec => FinalOnceProcessMovesOn` |
| `FindingsBacked` | `Spec => []InheritFindingsAreBacked` |
| `FdsFromLog` | `Spec => []FdsComeFromLog` |
| `ForksReviveNothing` | `Spec => []ForkNeverRevives` |
| `OpensStayHeld` | `Spec => []OpenDescriptorsAreHeld` |
| `InheritancesAreReported` | `Spec => []InheritanceIsReported` |
| `AllocationsMatchLog` | `Spec => []AllocsMatchLog` |

The argument.  A step either appends one record or leaves the log alone
(`Appends`), so what is said of a record stays true; most of each proof is about
what the step does to the tables.  `TableStep` says this once: each entry after a
step is an old one, an old one with its marks set or cleared, or a new one born
of the record in hand.

- `TypeOK` is inductive as it stands; it includes that nothing points past the
  log, without which no other invariant could speak of `resources[e.sequence]`.
- `PendingIsOpenAttempt` is inductive together with `TypeOK`.  The step that
  matters is a record of the marked process that is neither a snapshot nor a
  failure: `Settling` contains all its marked entries, and a settled entry has
  no mark.
- `FinalOnceProcessMovesOn` needs no invariant beyond the types: a finding whose
  process moved on has, from its own record on, one that is not an `EXEC` of that
  process, so `FindingMatches` is false of it.
- `InheritFindingsAreBacked` is inductive together with the types and the fact
  that entries are born of the log (`Born`), which gives a new finding its
  earlier birth.  For an old one the last conjunct of `Backed` is at stake when an
  `EXECFAIL` arrives: if it is the call's own (`FailsAt`, `OneCall`) and nothing is logged
  in between (not `BrokenUp`), then all records from the finding on match the attempt,
  and the rollback removes it.
- `FdsComeFromLog` is inductive together with `TypeOK`: new entries get the
  number of the record in hand, which is greater than all others, and a fork
  enters a descriptor only for a child that has no entry for it.
- `ForkNeverRevives` is not inductive: it speaks of the log, and FORK looks only
  at the tables.  `ForkInv` adds that they remember enough.  While no error is
  set, every descriptor some `FD_OPEN` named has an entry or is in `closed_fds`
  (`OpensAreHeld`), and one that a later `FD_CLOSE` named is in `closed_fds`
  (`ClosesAreRecorded`): a close that finds no entry records nothing, but by the
  first part its descriptor is recorded already.  Memory failures may break
  both parts (a swept entry dropped unrecorded), but then `err` is set and no
  record is read any more (`StepsFromGoodStates`).
- `OpenDescriptorsAreHeld` needs to know why a sweep may take an entry.  `HeldInv` joins
  the types, `PendingIsOpenAttempt` and the property itself: an entry marked close-on-exec stands for a snapshot after the open, in an attempt which the
  record in hand shows to have crossed.  So the log closes the descriptor too, and what it
  still shows open is never taken.
- `InheritanceIsReported` follows with `HeldInv` beside it (`ReportedInv`): the snapshot of
  a descriptor the log shows open finds an entry and makes the finding, and a rollback that
  takes it matches all the records since, so the attempt it undoes is the snapshot's own.
- `AllocsMatchLog` compares two counts, and the one on the log (`Balances`) is a recursive
  function.  A definition by recursion names *some* function with its equations, if there is
  one, so first there has to be one: `FunctionExists` builds it from its finite beginnings,
  which agree with each other and of which no first one can be missing (`WFMin`, the
  well-foundedness of the naturals in first-order form).  `BalanceStep` then says what one
  more record adds to a count that reads only the beginning of the log, `AllocEffect` what
  the same record does to the table, and `BlocksCounted` that the cardinality follows.

### Lifetimes

Also in `ReplayProofs`, from `ReplayAssumption` and `LifetimesAssumption` (a site writes
generic details exactly where the records of that site are generic; the limit is a number):

| theorem | statement |
| --- | --- |
| `BlockLifetimesAgree` | `Spec => []BlocksAgree` |
| `DescriptorLifetimesAgree` | `Spec => []DescriptorsAgree` |
| `RenderingsShowTheSame` | `Spec => []RenderingsAgree` |

A search finds the least end or none (`EndMeaning`), so `End(i) = 0` is "no later record ends
i", which one more record can only make false.

- `BlockInv` has the two directions: a block not ended is in the table
  (`UnendedAreHeld`), and a block in the table whose address was always given back before it
  was given out again is not ended (`HeldInTurnAreUnended`).  The second needs that of two
  blocks of one process at one address one has ended (`InTurnIsAlone`): then the entry a FREE
  takes, any of those that match, is the one whose lifetime it ends.
- `FdLifeInv` is the same for descriptors, with one more way to leave the table.
  `SweptEntry` says that what a sweep loses, an exec that crossed has closed (`SweptAway`),
  from the same fact about marks that `HeldInv` rests on; `ExactStep` accounts for every
  entry before and after a record.
- `RenderingsAgree` speaks of the log alone.  `DeathsAgree` says of any one record that the
  three tests and choices come to the same, so a round of the text or of the diagram adds
  what a round of the JSON list adds (`RoundsAdd`); and the loops stay in step
  (`InStep`: the text counts what the JSON list has, shows its beginning up to the limit,
  and the diagram shows what the text does).  The induction over the rounds is `ByInduction`: a
  counterexample has a first one.

### ReplayArrays

`ArraysProofs`, from `ArraysAssumption` (memory may run out, requests granted are a number,
and the assumption of `Replay`):

| theorem | statement |
| --- | --- |
| `ArraysImplementSets` | `Spec => RefinesReplay` |
| `FindingsComeAndGoAtTheEnd` | `Spec => FindingsAreAStack` |

Under the mapping a table is the set of what its array holds, so what has to be shown of
every array is that no entry is in it twice: only then does `Drop` take it out of the set.
`ArrayInv` says so: while no error is set and the log has not ended, the arrays
are `Intact`.  The entries of `fds` and the blocks are told apart by the record that
entered them, or by the descriptor for those of one FORK (`Table`, `BlockTable`), and the
findings stand in the order of the log (`Stack`).  After an error nothing is
said of the arrays, and nothing needs to be: no record is read any more.

Each loop has an invariant of its own, carried from round to round: `Swept` (of the entries
to sweep, those handled so far are gone or cleared, in whichever order the gaps were
filled, and an error says at which one memory ran out), with `Behind` (what is left of the
index needs no sweep) and a measure, `Left`, by which there are no more rounds than
entries; `Endings` for the loop at the end of the input; `Giving` (what a child was given is
what it lacked, also while the array it is read from grows); `CompactLoop` (what has been copied down is
the findings that stay).  A round after which its loop's
invariant fails would have a first one.  Each of them ends in the expression `Replay` uses: a
sweep that runs out of memory, for example, in the choice of a part of its work that
`SettleFails` leaves open.  `StackStep` is why a rollback takes a suffix: the walk to
`FirstSequence` is over the last records, and findings are in their order.

### ObservedRun

Also in `ReplayProofs`, from `ReplayAssumption` and `RunAssumption` (the first process is one of the
processes, the worlds are worlds, `Null` is not a call):

| theorem | statement |
| --- | --- |
| `NothingFalseIsReported` | `RunSpec => []NoFalseReportUntorn` |
| `FalseReportsNeedABreak` | `RunSpec => []FalseReportsAreBrokenUp` |
| `WhatCrossedIsReported` | `RunSpec => []NoLostReportAnnounced` |
| `TheTableCovers` | `RunSpec => []TableCoversOpen` |
| `TheTableTracks` | `RunSpec => []TableTracksOpen` |

The argument.  A step of a run is a step of the replay or leaves it alone (`RunIsReplay`),
so everything proved of `Replay` holds here, and one lemma per record kind says what
it does to the tables when no error follows.  `RunInv` is what processes can be in the
middle of: among others, without `interleave` one attempt at a time.  The properties are of
quiet moments only; the work is to say what holds in between.

- Nothing false.  While a process is inside an attempt, the findings that are not true (yet)
  are those of its own snapshots, and all records since the first of them are of this
  attempt (`Attempted`): exactly what the walk of the rollback will match.  If the call
  does not return they have become true, and if it does, they are gone.
- What a false report takes.  In every world a finding is of a snapshot that crossed
  (`crossed`), or of one whose attempt is still open, and every exec
  record of its process since is of that call (`Undecided`), or it is `Excused`: broken
  up before its `EXECFAIL`, or closed by a thread (`Judged`).  When an `EXECFAIL` ends the
  attempt and nothing has come in between, the walk of the rollback reaches the finding and
  takes it; a quiet state has no open attempt.
- Nothing lost.  Every snapshot of the open attempt that survives execs has its finding
  (`SnapshotsFound`), every crossed one has (`CrossedFound`).  For the first, the entry must
  be in the table, which is `Covered`; for the second, a rollback must not reach back into
  an older image.  It does not, because a new image has logged something first, and the walk
  stops there.
- The table covers.  Of each open descriptor there is an entry no sweep of this process will
  take before it is closed (`Known`, `Secure`), or an outstanding FORK record whose parent
  has one, while the child has not logged its close (`ToCome`).  `OneParent` makes that
  record unique.
- The table tracks.  `Single`: no slot has two entries.  `Fits` is the converse of
  `Covered`: an entry is of an open descriptor, or a crossed exec has closed it and the new
  image has logged nothing yet; and inside an attempt what will be closed if it succeeds is
  marked as soon as its snapshot is logged.

### Pipeline

`PipelineProofs`, from `PipelineAssumption` (outcomes are truth values and success is one of
them, the bounds are numbers):

| theorem | statement |
| --- | --- |
| `SequencesAreRanks` | `Spec => []SequenceIsRank` |
| `VerdictsRestOnWholeEvidence` | `Spec => []VerdictOnWholeEvidence` |

The program decides on counters and on the health of two streams, the property speaks of the
lines read.  `Accounts` is what joins them: a counter that is still zero says that there was
no such line, a health that is not broken that there was no failed receipt.  `Control` says
which phases are out of reach after an error: the program only gets past a loop without one
if the log has ended.  `SequenceIsRank` is inductive with the types.

### CommandLine

Also in `PipelineProofs`, for command lines of any words and any length, from
`PipelineAssumption` and `CommandLineAssumption` (words are strings, and what stands for an
argument not given is neither one nor the name of a field):

| theorem | statement |
| --- | --- |
| `PermutingIsHarmless` | `Spec => []PermutingOnlyAdmitsMore` |
| `NamedLogsAreRead` | `Spec => []NamedLogIsRead` |

The invariant of the program is that `argv` is a sequence of words; the rest is about the
loop over them, round by round.  For the first, `Alike` relates the two readings of the same
words: they are the same, except that behind an operand only one has stopped looking for
options, and then either another word behind that operand was an operand for both, or the one
that stops has more operands than it can use and is refused in the end.  For the second,
naming a log in front commutes with every round (`Named`): a later `-r` puts both at the same
word, and nothing else looks at the field before the check.

### Bundle

`BundleProofs`, from `BundleAssumption` (the directories and the names have lengths, and the
name of the run model is not the longest of the four):

| theorem | statement |
| --- | --- |
| `BundlesAreWhole` | `Spec => []BundleIsWhole` |
| `DescriptorsComeBack` | `Spec => []DescriptorsAreReturned` |
| `ReportsKeepApart` | `Spec => []EachReportToItsFile` |
| `NoPathStrays` | `Spec => []NoStrayPath` |

One conjunct of `BundleInv` for each reason: which steps an error keeps the run out of
(`Staged`), which paths are known to fit (`PathsFit`), which descriptors are open and where
stdout goes (`FdsAccounted`), whose text its buffer and the run model's stream may hold (`BufferIsOwn`, `StreamIsOwn`),
what the files hold while no error is set (`WholeSoFar`, where the run model may be short if
the library has not said so).  `NoPathStrays` is where the lengths of the
names matter: without the fourth part of the assumption it is false.

### JsonStrings

Also in `BundleProofs`, from `JsonAssumption` (bytes are 1 to 255, and what is written as it
is is not below 32, which JSON forbids):

| theorem | statement |
| --- | --- |
| `StringsSurvive` | `StringsSpec => []StringsReadBack` |

`ReadEscaped` is the heart: a reader inside a string that meets what one round of the writer
wrote, anywhere in a document, is inside the string again with that one byte more.  It has
a case for each arm of the writer; in that of `%04x` the four digits add up to the
byte.  `ReadString` runs it along the rounds, for a string with anything before and
behind it, and `TwoReadBack` along two strings and the comma between them.

### LifecycleAdapter

`AdapterProofs`, from `AdapterAssumption` (the diagnostics are among those of the code,
classes of generic records are not `fd` or `allocation`, success is possible):

| theorem | statement |
| --- | --- |
| `FindingsNameTheirRecords` | `Spec => []FindingNamesItsRecords` |
| `FindingsStayInTheirClass` | `Spec => []FindingStaysInItsClass` |
| `NoFindingIsDropped` | `Spec => []AllFindingsOrError` |

The contract of section 2 is what `Reportable` says of the library; the theorems hold for
any library that keeps it, whether or not it sets the error when it fails.  `Ending` joins
`generic_finalized` with the library's model, the error and the count of findings.
`Numbering` says that a context's numbers rise along the log until one starts again, so a
search by number has one answer; `Translations` that what was added so far is what the
search makes of what the library reported so far.  The search takes the least place of
the log that matches.  That there is a least one is the well-foundedness of the naturals,
cited in its first-order form (`WFMin`), which is not induction over an operator.

### TraceBounds

`TraceProofs`, from `TraceAssumption` (a site has a file, a line and a function, the wrappers
have sites and names, the bounds are numbers):

| theorem | statement |
| --- | --- |
| `WindowsStartInTheirCalls` | `Spec => []WindowStartsInCall` |
| `WindowsEndWithTheirCalls` | `Spec => []WindowEndsWithCall` |
| `StoriesAreFinal` | `Spec => StoryIsFinal` |

The code finds a window by comparing numbers and then counting calls of one name up and
down; the truth is a stack per thread.  `StartInv` (`Numbering`, `Nesting`, `Subjects`) is
enough for where the window begins: of the calls at the finding's site, the last one with a
smaller number is the one it was made in, since a later one would have a greater number.
For the end, `OpenCounts` says of each open call what the count since it amounts to: always
positive, and at the end of the log the number of open calls of its name from it inwards, or
more if calls were left without an `EXIT`.  `EndedCounts` says of a call that has ended that
the count was positive up to its `EXIT` and, as long as no call was left without one, zero
there; `NoneLost` that a call without an `EXIT` is then on a stack.  `StoryIsFinal` follows, for the window of an ended call and what is
shown of it lie in a part of the log that later records leave alone.

### Support

`SupportProofs`, for every `SIZE_MAX`, first capacity and size of
items, all texts and lines and any requests failing, from `SupportAssumption` (sizes
are not zero, the first capacity is representable, the text that could not be copied is none
of the texts):

| theorem | statement |
| --- | --- |
| `RoomIsAlwaysReal` | `Spec => []RoomIsReal` |
| `SitesStayDistinct` | `Spec => []SitesAreDistinct` |
| `FindingsPointHome` | `Spec => []FindingsKeepTheirSite` |
| `SupportTypes` | `Spec => []TypeOK` |

The argument.  `GrowthIsReal` is its core: if both tests of the code pass, the new
capacity is truly larger and its bytes are the product, not the product modulo
`SIZE_MAX + 1`.  A doubled capacity that wrapped around is smaller than the old
one, because the old one is at most `SIZE_MAX` and not zero; the test of the division
then bounds the product (`ProductFits`).  `GrownIsSound` carries this to a block,
`InternedIsSound` to the table of sites: however interning ends, the table is an
extension of what it was, so an index means the same site for ever after
(`Extends`, `PointsExtend`).  `SupportInv` joins these with the shape of the arrays and
is inductive; the properties above are its parts.  A finding with a wrong index is
possible inside a round, and never counted: the last test looks at the one error
that every step of the round shares (`Counted`).

### Texts

`TextsProofs`, for any kinds of records, any number of them and any copies and growths
failing, from `TextsAssumption`:

| theorem | statement |
| --- | --- |
| `TextsHaveOneOwner` | `Spec => []OneOwner` |
| `NoTextIsForgotten` | `Spec => []NothingIsForgotten` |

`Holdings` gives each holder, the event and the six arrays, the set of its blocks.  The
invariant says that each array holds no block twice (`Clean`), that the holdings are apart
from each other (`Apart`), and, unless a call was refused, that together they are the heap
(`Complete`).  A step then does one of three things: a holder takes blocks that were free,
everything of one holder goes to another, or a holder gives back some of what it has; each is
one lemma about sets.  What an action does to its own array (growth by copies some of which
failed, removal with the last entry moved into the gap, the rollback's selection) is a
lemma about sequences.  That the addresses handed out for one record are
different is a fact about `Fresh`, by counting the free ones.

### What the proofs corrected

Some attempts failed because the model was wrong or said less than it meant:

- `TableCoversOpen` was once claimed of every world without exits.  With a child that forks
  before it is known it is false, which the bounds of the run had hidden: it takes three
  processes.  `nested` and `Orderly` are the result, and the limit of the program is listed
  above.
- An attempt could change its source site from one snapshot to the next.  No wrapper does,
  and a rollback compares the sites.
- `Quiescent` did not exclude an error in all properties.
- Two `CASE`s, over the class of a line in `Pipeline` and over a word in `CommandLine`, had
  overlapping guards: TLC takes the first, the prover may not.
- Another such `CASE` was in `JsonStrings`, over a byte: the arms of the writer's `if`s exclude
  one another only in order.
- `StringsReadBack` needs `JSON_CONTROL_LIMIT` to be 32 at least; that was a fact about the
  instance too.
- `NoStrayPath` holds only because the name of the run model is not the longest; that was a
  fact about the instance, and is an assumption now, which TLC evaluates on the real lengths.

### Only model-checked

- `Terminates` is liveness, which is out of the reach of these provers; so is everything about
  which steps are enabled.
- `NoFalseReport` and `NoLostReport` are false (the two runs that expect a violation).

A recursive *function* can be reasoned about, as the sections above do, at the price of
showing that it exists; a `RECURSIVE` operator cannot, and no module has one.  The theorems
are about the models: that a model says what the code does rests on reading, on
the map from definitions to lines, and on the mutants.

## 5. What is not modelled, and what is left

Left out for good: formatted output (the rest of `output.c`, the layout of the
lifetimes, durations), the constant tables of `finding.c`, the usage texts, build
scripts, tests and the fuzzing driver.  The copying of numbers from a parsed record into an event
(`parse.c`) decides nothing.  The rules of the lifecycle library, the grammar of the log
and the stream health are not part of this repository: only their interface is
modelled.

Every safety property the passing runs check is now a theorem.  What could still be said:

1. That `Bundle` is the inside of `Pipeline`'s `PrintReport` is said in words only.
   A refinement would need the two to share the error and the exit status.
2. `NothingIsForgotten` and `RoomIsReal` are about texts and about the arrays' own blocks
   separately; one heap for both would also show that no array is forgotten.
3. The hazards without a property (`PROJECT.json`, each with a note) are limits of the program
   or of what this repository decides; each would need a decision on what the program should
   do, or on what the library or the producers promise, before there is something to state.
