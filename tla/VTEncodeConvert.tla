--------------------------- MODULE VTEncodeConvert ---------------------------
(***************************************************************************)
(* iconv_wrap of src/VTEncodeConvertLin.cpp: a conversion whose buffer     *)
(* grows while it goes on.  A character is [in, out], its bytes before and *)
(* after.  iconv() converts what fits; it stops at a sequence that is      *)
(* invalid, or that the end of the input cuts off.                         *)
(***************************************************************************)
EXTENDS Naturals, Sequences, SequencesExt, FiniteSetsExt

CONSTANTS Uses,        \* [hint, chars]: how it is constructed, and what it meets
          Enough,      \* those among them whose hint is enough
          MaxChars     \* bound on the characters of the input

\* The constructor: the hint is put between 1 and 4.
Modifier(u) == IF u.hint < 1 THEN 1 ELSE IF u.hint > 4 THEN 4 ELSE u.hint

\* A character takes a byte at least, and none takes more than seven; a hint is enough
\* for characters that grow no more than it says.
ConvertAssumption ==
    /\ Enough \subseteq Uses /\ MaxChars \in Nat
    /\ \A u \in Uses : u.hint \in Nat /\ u.chars \subseteq [in : Nat \ {0}, out : 0..7]
    /\ \A u \in Enough : \A c \in u.chars : c.out <= c.in * Modifier(u)

VARIABLES use,         \* the conversion
          input,       \* the characters of the input
          ending,      \* what ends it: "nothing", "truncated" or "invalid"
          pc,
          outlen,      \* bytes of the buffer, less the four for the terminator
          written,     \* converted: bytes of the buffer that are used
          taken,       \* characters converted
          calls        \* of iconv()

vars == << use, input, ending, pc, outlen, written, taken, calls >>

\* Bytes of the characters between two, before ("in") or after ("out").
Total(f, from, to) ==
    LET sum[k \in 0..Len(input)] == IF k = 0 THEN 0 ELSE sum[k - 1] + input[k][f]
    IN sum[to] - sum[from - 1]
InLeft == Total("in", taken + 1, Len(input)) + IF ending = "nothing" THEN 0 ELSE 1
InputSize == Total("in", 1, Len(input)) + IF ending = "nothing" THEN 0 ELSE 1

Init ==
    /\ use \in Uses
    /\ input \in BoundedSeq(use.chars, MaxChars)
    /\ ending \in {"nothing", "truncated", "invalid"}
    /\ pc = "allocate" /\ outlen = 0 /\ written = 0 /\ taken = 0 /\ calls = 0

-----------------------------------------------------------------------------
Shift ==
    LET more_left == (InputSize + 1) \div (InputSize - InLeft + 1)
    IN IF more_left >= 8 THEN 8 ELSE IF more_left >= 4 THEN 4 ELSE 2

\* Faults the runs must catch; no specification uses them.

\* A buffer that grows without the bytes that make up for the rounding.
GrowRounded ==
    /\ pc = "grow" /\ pc' = "convert"
    /\ LET more == outlen + InLeft IN outlen' = more - (more % 4)
    /\ UNCHANGED << use, input, ending, written, taken, calls >>

\* convert_helper(): malloc().
Allocate ==
    /\ pc = "allocate" /\ pc' = "convert"
    /\ outlen' = InputSize * Modifier(use)
    /\ UNCHANGED << use, input, ending, written, taken, calls >>

\* iconv() and what follows from its errno.
Convert ==
    /\ pc = "convert" /\ calls' = calls + 1
    /\ taken' = Max({n \in taken..Len(input) : written + Total("out", taken + 1, n) <= outlen})
    /\ written' = written + Total("out", taken + 1, taken')
    /\ pc' = IF taken' < Len(input) THEN "grow"
             ELSE IF ending = "invalid" THEN "thrown" ELSE "done"
    /\ UNCHANGED << use, input, ending, outlen >>

\* E2BIG: realloc().
Grow ==
    /\ pc = "grow" /\ pc' = "convert"
    /\ LET more == outlen + InLeft * Shift + 8 IN outlen' = more - (more % 4)
    /\ UNCHANGED << use, input, ending, written, taken, calls >>

Next == Allocate \/ Convert \/ Grow

Spec == Init /\ [][Next]_vars

-----------------------------------------------------------------------------
(* Properties *)

\* Nothing is written beyond the buffer, each time that it grows there is room
\* for at least one character more, so that the loop ends, and what it ends with
\* is all that can be converted; the two conversions of the library never need to
\* let it grow.  (convert_helper, UTF8ToWstring, WstringToUTF8.)
ConvertsAll ==
    /\ written <= outlen
    /\ calls <= Len(input) + 1
    /\ pc = "done" => taken = Len(input)
    /\ use \in Enough => calls <= 1
=============================================================================
