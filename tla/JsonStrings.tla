---------------------------- MODULE JsonStrings ----------------------------
(***************************************************************************)
(* The strings of the JSON report (src/src/json.c).                        *)
(*                                                                         *)
(* Names, paths, arguments and results come out of the logs as bytes of    *)
(* any value and leave between quotes.  The writer keeps no state but its  *)
(* place in the text, so the states are the texts, which grow by a byte at *)
(* a time; the reader is that of the JSON standard, for strings (external). *)
(* An output that fails is left out: it ends the text early, with an error. *)
(***************************************************************************)
EXTENDS Integers, Sequences

CONSTANTS
    Byte,           \* the values the bytes of a text may have
    ControlLimit,   \* JSON_CONTROL_LIMIT
    NonAsciiLimit,  \* JSON_NON_ASCII_LIMIT
    MaxText         \* bound on the length of a text

\* JSON takes no byte below 32 in a string as it is.
ASSUME JsonAssumption ==
    /\ Byte \subseteq 1 .. 255 /\ MaxText \in Nat
    /\ ControlLimit \in 32 .. NonAsciiLimit /\ NonAsciiLimit \in Nat

VARIABLE text

StringsInit == text = <<>>

Grow(byte) == Len(text) < MaxText /\ text' = Append(text, byte)

StringsNext == \E byte \in Byte : Grow(byte)

StringsSpec == StringsInit /\ [][StringsNext]_text

Quote == 34
Backslash == 92

\* The characters of the C escapes n, r and t, by the byte each one stands for.
Short == [byte \in {10, 13, 9} |-> CASE byte = 10 -> 110 [] byte = 13 -> 114 [] byte = 9 -> 116]

Digit(n) == IF n < 10 THEN 48 + n ELSE 87 + n

HexUnpadded(byte) ==                                  \* mutant: "\\u%x"
    IF byte < 16 THEN <<Digit(byte)>> ELSE <<Digit(byte \div 16), Digit(byte % 16)>>

\* "%04x"
Hex(byte) == <<48, 48, Digit(byte \div 16), Digit(byte % 16)>>

\* One round of the loop.
Escaped(byte) ==
    CASE byte \in {Quote, Backslash} -> <<Backslash, byte>>
      [] byte \in DOMAIN Short       -> <<Backslash, Short[byte]>>
      [] byte \notin {Quote, Backslash} \cup DOMAIN Short \cup ControlLimit .. NonAsciiLimit - 1 ->
           <<Backslash, 117>> \o Hex(byte)
      [] OTHER                       -> <<byte>>

\* p101_report_json_string
JsonString(t) ==
    LET written[n \in 0 .. Len(t)] ==
          IF n = 0 THEN <<Quote>> ELSE written[n - 1] \o Escaped(t[n])
    IN  Append(written[Len(t)], Quote)

-----------------------------------------------------------------------------
(* The reader (external): outside of a string it skips commas, inside it   *)
(* collects code points; anything the standard forbids spoils the document. *)

ValueOf(digit) ==
    CASE digit \in 48 .. 57 -> digit - 48 [] digit \in 97 .. 102 -> digit - 87 [] OTHER -> -1

Closed == [at |-> "outside", strings |-> <<>>, digits |-> <<>>]

Collected(r, code) ==
    [r EXCEPT !.at = "inside", !.digits = <<>>, !.strings[Len(r.strings)] = Append(@, code)]

Read(r, byte) ==
    CASE r.at = "outside" /\ byte = Quote ->
           [r EXCEPT !.at = "inside", !.strings = Append(@, <<>>)]
      [] r.at = "outside" /\ byte = 44 -> r
      [] r.at = "inside" /\ byte = Quote -> [r EXCEPT !.at = "outside"]
      [] r.at = "inside" /\ byte = Backslash -> [r EXCEPT !.at = "escape"]
      [] r.at = "inside" /\ byte >= 32 /\ byte \notin {Quote, Backslash} -> Collected(r, byte)
      [] r.at = "escape" /\ byte \in {Quote, Backslash} -> Collected(r, byte)
      [] r.at = "escape" /\ \E c \in DOMAIN Short : Short[c] = byte ->
           Collected(r, CHOOSE c \in DOMAIN Short : Short[c] = byte)
      [] r.at = "escape" /\ byte = 117 -> [r EXCEPT !.at = "hex"]
      [] r.at = "hex" /\ ValueOf(byte) >= 0 ->
           LET all == Append(r.digits, ValueOf(byte))
           IN  IF Len(all) < 4 THEN [r EXCEPT !.digits = all]
               ELSE Collected(r, 16 * (16 * (16 * all[1] + all[2]) + all[3]) + all[4])
      [] OTHER -> [r EXCEPT !.at = "spoilt"]

ReadAll(document) ==
    LET after[n \in 0 .. Len(document)] ==
          IF n = 0 THEN Closed ELSE Read(after[n - 1], document[n])
    IN  after[Len(document)]

-----------------------------------------------------------------------------
(* Properties.                                                             *)

\* Two texts written one after the other, wherever they are divided, are read back
\* as those two texts: no byte of a log can end its string early, run on
\* into the next one or read as another byte (json.c:16-56).
StringsReadBack ==
    \A k \in 0 .. Len(text) :
      LET one  == SubSeq(text, 1, k)
          two  == SubSeq(text, k + 1, Len(text))
      IN  ReadAll(JsonString(one) \o <<44>> \o JsonString(two))
            = [Closed EXCEPT !.strings = <<one, two>>]
=============================================================================
