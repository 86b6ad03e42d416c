---------------------------- MODULE CommandLine ----------------------------
(***************************************************************************)
(* From the command line to the arguments of a run (src/src/cli.c and the  *)
(* first half of main.c).                                                  *)
(*                                                                         *)
(* p101_getopt walks over argv, one option at a time; what it leaves is    *)
(* taken for the report directory, and p101_report_check_arguments decides *)
(* whether and on which files the program runs.  Parsing is a function of  *)
(* argv, which is all the state there is here: a command line grows by a   *)
(* word at a time until the program starts (Pipeline).  getopt is          *)
(* external: whether it looks for options behind the first operand differs *)
(* between systems, and both are modelled.  Several options in one word,   *)
(* and an option's argument in the same word, are left out.                *)
(***************************************************************************)
EXTENDS Integers, Sequences

CONSTANTS
    Words,          \* the words a command line may hold
    Null,           \* an argument that was not given
    MaxWords        \* bound on their number

\* The members of struct arguments that keep a word (include/arguments.h).
Fields == {"report_dir", "resource_log", "call_log", "bundle_output_dir"}

ASSUME CommandLineAssumption ==
    Words \subseteq STRING /\ Null \notin STRING \cup Fields /\ MaxWords \in Nat

VARIABLE argv       \* argv[1] .. argv[argc - 1]

Type(word) == Len(argv) < MaxWords /\ argv' = Append(argv, word)

-----------------------------------------------------------------------------
(* p101_report_parse_arguments                                             *)

\* The options that take an argument, and where struct arguments keeps it.
WithArgument == {"-b", "-d", "-r", "-c"}

FieldOf(word) ==
    CASE word = "-b" -> "bundle_output_dir" [] word = "-d" -> "report_dir"
      [] word = "-r" -> "resource_log"      [] word = "-c" -> "call_log"

Options == WithArgument \cup {"-h", "-v", "-j", "-m", "-x", "--help"}

\* p101_report_arguments_init, with the state of getopt: the field that awaits the
\* next word, whether the options are over, and the operands seen.
Start ==
    [report_dir |-> Null, resource_log |-> Null, call_log |-> Null,
     bundle_output_dir |-> Null, format |-> "TEXT", verbose |-> FALSE,
     awaits |-> Null, over |-> FALSE, operands |-> <<>>, outcome |-> "run"]

\* One word; -h leaves the program and an error ends the loop.
Step(a, word, permutes) ==
    IF a.outcome # "run" THEN a
    ELSE IF a.awaits # Null THEN [a EXCEPT ![a.awaits] = word, !.awaits = Null]
    ELSE IF a.over \/ word \notin Options \cup {"--"} THEN
           [a EXCEPT !.operands = Append(@, word), !.over = @ \/ ~permutes]
    ELSE CASE word = "--"             -> [a EXCEPT !.over = TRUE]
           [] word \in WithArgument   -> [a EXCEPT !.awaits = FieldOf(word)]
           [] word = "-h"             -> [a EXCEPT !.outcome = "help"]
           [] word = "-v"             -> [a EXCEPT !.verbose = TRUE]
           [] word = "-j"             -> [a EXCEPT !.format = "JSON"]
           [] word = "-m"             -> [a EXCEPT !.format = "MERMAID"]
           [] word \in {"-x", "--help"} -> [a EXCEPT !.outcome = "usage"]

\* Mutant: more operands are ignored.
FirstOperand(a) ==
    IF a.outcome # "run" THEN a
    ELSE IF a.awaits # Null THEN [a EXCEPT !.outcome = "usage"]
    ELSE IF a.operands = <<>> THEN a
    ELSE IF a.report_dir # Null THEN [a EXCEPT !.outcome = "usage"]
    ELSE [a EXCEPT !.report_dir = a.operands[1]]

\* The end of argv: a missing argument, then the operands.
TakeOperands(a) ==
    IF a.outcome # "run" THEN a
    ELSE IF a.awaits # Null \/ Len(a.operands) > 1 THEN [a EXCEPT !.outcome = "usage"]
    ELSE IF a.operands = <<>> THEN a
    ELSE IF a.report_dir # Null THEN [a EXCEPT !.outcome = "usage"]
    ELSE [a EXCEPT !.report_dir = a.operands[1]]

-----------------------------------------------------------------------------
(* p101_report_check_arguments                                             *)

LogsAreNamed(a) ==
    ~(a.report_dir = Null /\ (a.resource_log = Null \/ a.call_log = Null))

IsRefused(a) ==
    \/ ~LogsAreNamed(a)
    \/ a.report_dir = "" \/ a.bundle_output_dir = ""
    \/ a.bundle_output_dir # Null /\ a.format # "TEXT"
    \/ a.resource_log = "" \/ a.call_log = ""

\* p101_report_join_path; a path that is too long is not modelled.
JoinPath(dir, name) == <<dir, name>>

DirectoryFirst(a) ==                                             \* mutant
    IF a.report_dir = Null THEN a
    ELSE [a EXCEPT !.resource_log = JoinPath(a.report_dir, "resources.log"),
                   !.call_log = JoinPath(a.report_dir, "calls.log")]

\* A log that was not named is looked for in the directory.
Located(a) ==
    [a EXCEPT !.resource_log = IF @ = Null THEN JoinPath(a.report_dir, "resources.log") ELSE @,
              !.call_log = IF @ = Null THEN JoinPath(a.report_dir, "calls.log") ELSE @]

Checked(a) ==
    IF a.outcome # "run" THEN a
    ELSE IF IsRefused(a) THEN [a EXCEPT !.outcome = "usage"]
    ELSE Located(a)

\* The loop of p101_report_parse_arguments: what it has read after n words.
Loop(words, permutes) ==
    LET read[n \in 0 .. Len(words)] ==
          IF n = 0 THEN Start ELSE Step(read[n - 1], words[n], permutes)
    IN  read

WordsRead(words, permutes) == Loop(words, permutes)[Len(words)]

\* What main makes of a command line, with or without permutation.
Arguments(words, permutes) ==
    IF words = <<"--help">> THEN [Start EXCEPT !.outcome = "help"]
    ELSE Checked(TakeOperands(WordsRead(words, permutes)))

-----------------------------------------------------------------------------
(* Properties.                                                             *)

Runs(words, permutes) == Arguments(words, permutes).outcome = "run"

\* The system's getopt does not change what a command line means: one that runs
\* without permutation runs with it, on the same arguments (cli.c:37-145).
PermutingOnlyAdmitsMore ==
    Runs(argv, FALSE) =>
      /\ Runs(argv, TRUE)
      /\ LET stops == Arguments(argv, FALSE)
             goes  == Arguments(argv, TRUE)
         IN  /\ goes.resource_log = stops.resource_log /\ goes.call_log = stops.call_log
             /\ goes.bundle_output_dir = stops.bundle_output_dir /\ goes.format = stops.format

\* A log named on the command line is read instead of the directory's, wherever
\* the directory stands, and nothing else changes; a later -r wins (cli.c:74-88,
\* 177-187).
NamedLogIsRead ==
    \A permutes \in BOOLEAN, word \in Words \ {""} : Runs(argv, permutes) =>
      LET plain == Arguments(argv, permutes)
          named == Arguments(<<"-r", word>> \o argv, permutes)
          log   == WordsRead(argv, permutes).resource_log
      IN  named = [plain EXCEPT !.resource_log = IF log = Null THEN word ELSE log]
=============================================================================
