----------------------------- MODULE RespCodec -----------------------------
(***************************************************************************)
(* RespCodec (resp_codec.cpp): the decoder Feed, over bytes, and the       *)
(* encoding of a command that clients and AppendToAof use.  A byte is a    *)
(* string of one character, a word a sequence of bytes, a command the      *)
(* sequence of its words.                                                  *)
(***************************************************************************)
EXTENDS Integers, Sequences, FiniteSets, SequencesExt

CONSTANT MaxArray   \* words in a command at most: 256

ASSUME MaxArrayAssumption == MaxArray \in Nat \ {0}

Digits == <<"0", "1", "2", "3", "4", "5", "6", "7", "8", "9">>

CRLF == <<"\r", "\n">>

\* The bytes to which the protocol gives a meaning are strings, which no prover
\* knows of a literal.
ASSUME MarksAssumption == ToSet(Digits) \cup {"*", "$", "\r", "\n"} \subseteq STRING

\* std::to_string of a natural number.
Decimal[n \in Nat] ==
    IF n < 10 THEN <<Digits[n + 1]>> ELSE Decimal[n \div 10] \o <<Digits[(n % 10) + 1]>>

BulkString(w) == <<"$">> \o Decimal[Len(w)] \o CRLF \o w \o CRLF

\* A command as an array of bulk strings.
Encode(cmd) ==
    <<"*">> \o Decimal[Len(cmd)] \o CRLF \o FlattenSeq([i \in 1 .. Len(cmd) |-> BulkString(cmd[i])])

IsDigit(b) == b \in ToSet(Digits)

\* How many bytes at the front of a line are among these.
Leading(line, bytes) ==
    CHOOSE n \in 0 .. Len(line) :
        /\ \A i \in 1 .. n : line[i] \in bytes
        /\ n < Len(line) => line[n + 1] \notin bytes

DigitsAhead(line) == Leading(line, ToSet(Digits))

DigitAt(line, i) == (CHOOSE d \in 1 .. 10 : Digits[d] = line[i]) - 1

\* What the first n of these digits stand for.
Values(line) ==
    LET value[n \in 0 .. DigitsAhead(line)] ==
            IF n = 0 THEN 0 ELSE 10 * value[n - 1] + DigitAt(line, n)
    IN  value

\* The digits at the front, and 0 without any.
Natural(line) == Values(line)[DigitsAhead(line)]

Signed(line) ==
    CASE line # << >> /\ line[1] = "-" -> - Natural(Tail(line))
      [] line # << >> /\ line[1] = "+" -> Natural(Tail(line))
      [] OTHER                         -> Natural(line)

\* The white space that strtoll skips, but for the vertical tab, of which TLA+ has no
\* string.
Spaces == {" ", "\t", "\n", "\f", "\r"}

\* strtoll.  That it stops at 2^63 - 1 shows nowhere: so long an array is too long,
\* and so long a word is not all there.
Strtoll(line) == Signed(SubSeq(line, Leading(line, Spaces) + 1, Len(line)))

-----------------------------------------------------------------------------
(* Feed.  Positions in the buffer count from 1.                            *)

\* The ends of lines at or behind pos.
LineEnds(buf, pos) ==
    {e \in pos .. Len(buf) - 1 : buf[e] = "\r" /\ buf[e + 1] = "\n"}

\* ReadLine: where the first of them is.
LineEnd(buf, pos) == CHOOSE e \in LineEnds(buf, pos) : \A f \in LineEnds(buf, pos) : e <= f

LineNumber(buf, pos) == Strtoll(SubSeq(buf, pos, LineEnd(buf, pos) - 1))

\* A mutant: the end of line behind a word is not waited for.
WordUnended(buf, from, n) ==
    IF from + n > Len(buf) + 1 THEN [pos |-> 0, word |-> << >>]
    ELSE [pos  |-> from + n + IF from + n \in LineEnds(buf, from + n) THEN 2 ELSE 0,
          word |-> SubSeq(buf, from, from + n - 1)]

\* A word of n bytes that begins at from, and the position behind it; 0 if it is
\* not all there.  The two bytes behind the word are waited for, and passed if they
\* are an end of line.
Word(buf, from, n) ==
    IF from + n + 1 > Len(buf) THEN [pos |-> 0, word |-> << >>]
    ELSE [pos  |-> from + n + IF from + n \in LineEnds(buf, from + n) THEN 2 ELSE 0,
          word |-> SubSeq(buf, from, from + n - 1)]

\* The element of an array at pos.  One that does not begin with '$' is never there.
Element(buf, pos) ==
    IF pos > Len(buf) \/ buf[pos] # "$" \/ LineEnds(buf, pos + 1) = {}
    THEN [pos |-> 0, word |-> << >>]
    ELSE Word(buf, LineEnd(buf, pos + 1) + 2, Max({0, LineNumber(buf, pos + 1)}))

\* One more element to those that have been read, unless one was not there.
NextElement(buf, before) ==
    LET e == Element(buf, before.pos)
    IN  IF before.pos = 0 THEN before
        ELSE [pos |-> e.pos, words |-> Append(before.words, e.word)]

\* The n elements from pos on; likewise, with pos 0 if they are not all there.
ElementsRead(buf, pos, n) ==
    LET read[i \in 0 .. n] ==
            IF i = 0 THEN [pos |-> pos, words |-> << >>] ELSE NextElement(buf, read[i - 1])
    IN  read

Elements(buf, pos, n) == ElementsRead(buf, pos, n)[n]

\* What stands at pos, a command or nothing, and the position behind it: a byte
\* that is no '*' is skipped, an array that is empty or too long up to the end of
\* its first line.
Unit(buf, pos) ==
    IF buf[pos] # "*" THEN [pos |-> pos + 1, words |-> << >>]
    ELSE IF LineEnds(buf, pos + 1) = {} THEN [pos |-> 0, words |-> << >>]
    ELSE IF LineNumber(buf, pos + 1) \notin 1 .. MaxArray
    THEN [pos |-> LineEnd(buf, pos + 1) + 2, words |-> << >>]
    ELSE Elements(buf, LineEnd(buf, pos + 1) + 2, LineNumber(buf, pos + 1))

\* One more unit to those that the decoder has passed, until one is not all there.
NextUnit(buf, before) ==
    LET u == Unit(buf, before.pos)
    IN  IF before.stopped \/ before.pos > Len(buf) THEN before
        ELSE IF u.pos = 0 THEN [before EXCEPT !.stopped = TRUE]
        ELSE [pos |-> u.pos, stopped |-> FALSE,
              cmds |-> IF u.words = << >> THEN before.cmds ELSE Append(before.cmds, u.words)]

\* The decoder on its way through the buffer.
UnitsPassed(buf) ==
    LET after[i \in 0 .. Len(buf)] ==
            IF i = 0 THEN [pos |-> 1, stopped |-> FALSE, cmds |-> << >>]
            ELSE NextUnit(buf, after[i - 1])
    IN  after

\* The commands in the buffer and the position behind them: each unit takes a
\* byte at least.
Parse(buf) == UnitsPassed(buf)[Len(buf)]

\* A mutant: what is incomplete is not kept.
FedForgetting(buf, parsed) == [cmds |-> parsed.cmds, rest |-> << >>]

\* read_buf_ once the decoder is through with it.
Fed(buf, parsed) == [cmds |-> parsed.cmds, rest |-> SubSeq(buf, parsed.pos, Len(buf))]

\* Feed: read_buf_ with the new bytes yields commands and what is kept of it.
Feed(read_buf, data) == Fed(read_buf \o data, Parse(read_buf \o data))
=============================================================================
