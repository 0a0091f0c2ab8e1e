----------------------------- MODULE VTSafeSprintf -----------------------------
(***************************************************************************)
(* safe_sprintf() of src/VTSafeSprintf.h, and the splitting and trimming   *)
(* of src/VTStringUtil.h, on every short string over a few characters.     *)
(* Positions count from 1, and 0 is npos.                                  *)
(***************************************************************************)
EXTENDS Integers, Sequences, SequencesExt, FiniteSetsExt

CONSTANTS Chars,       \* of strings
          Digits,      \* [character -> number] of those that are digits
          MaxLength,   \* bound on the length of strings
          MaxArgs      \* bound on the number of arguments

VARIABLES fmt,         \* the format
          args,        \* the number of arguments
          split,       \* [ok, chunks]: what split_format() returns, or throws
          index,       \* the next argument
          out,         \* the text it ends with, arguments as << number, whether in hex >>
          words,       \* tsplit() of the same string, at colons
          trimmed      \* trim() of it, of colons

vars == << fmt, args, split, index, out, words, trimmed >>

Text(s) == [type |-> "text", content |-> s]
Anchor(s) == [type |-> "anchor", content |-> s]

\* std::string's find functions: the first of s from pos on that is in cs, or is not.
First(positions) == IF positions = {} THEN 0 ELSE Min(positions)
FindIn(s, cs, pos) == First({k \in pos..Len(s) : s[k] \in cs})
FindNotIn(s, cs, pos) == First({k \in pos..Len(s) : s[k] \notin cs})

At(s, k) == IF k \in DOMAIN s THEN s[k] ELSE "end"

\* Faults the runs must catch; no specification uses them.

\* tsplit() that takes up after the delimiter that it has not looked for yet.
RECURSIVE TSplitSkips(_, _, _)
TSplitSkips(s, cs, next) ==
    LET first == FindNotIn(s, cs, next)
        after == FindIn(s, cs, first)
    IN IF first = 0 THEN << >>
       ELSE IF after = 0 THEN << SubSeq(s, first, Len(s)) >>
       ELSE << SubSeq(s, first, after - 1) >> \o TSplitSkips(s, cs, after + 2)

RECURSIVE TSplit(_, _, _)
TSplit(s, cs, next) ==
    LET first == FindNotIn(s, cs, next)
        after == FindIn(s, cs, first)
    IN IF first = 0 THEN << >>
       ELSE IF after = 0 THEN << SubSeq(s, first, Len(s)) >>
       ELSE << SubSeq(s, first, after - 1) >> \o TSplit(s, cs, after + 1)

Trim(s, cs) ==
    LET strBegin == FindNotIn(s, cs, 1)
    IN IF strBegin = 0 THEN << >>
       ELSE SubSeq(s, strBegin, Max({k \in DOMAIN s : s[k] \notin cs}))

-----------------------------------------------------------------------------
\* split_format() from pos on, outside of an anchor and, from its "{", in one.
RECURSIVE SplitText(_, _), SplitAnchor(_, _, _)
SplitText(pos, chunks) ==
    LET start == FindIn(fmt, {"{"}, pos) IN
    IF start = 0
    THEN [ok |-> TRUE, chunks |-> Append(chunks, Text(SubSeq(fmt, pos, Len(fmt))))]
    ELSE IF At(fmt, start + 1) = "{"
    THEN SplitText(start + 2, Append(chunks, Text(SubSeq(fmt, pos, start + 1))))
    ELSE SplitAnchor(start, start,
                     IF start = pos THEN chunks
                     ELSE Append(chunks, Text(SubSeq(fmt, pos, start - 1))))
SplitAnchor(start, pos, chunks) ==
    LET end == FindIn(fmt, {"}"}, pos + 1) IN
    IF end = 0 THEN [ok |-> FALSE, chunks |-> << >>]
    ELSE IF At(fmt, end + 1) = "}" THEN SplitAnchor(start, end + 2, chunks)
    ELSE SplitText(end + 1, Append(chunks, Anchor(SubSeq(fmt, start + 1, end - 1))))

\* has_index(): stoi() throws where there is no digit to begin with.
Number(s) == FoldLeft(LAMBDA n, c : 10 * n + Digits[c], 0, s)
Leading(s) ==
    LET k == FindNotIn(s, DOMAIN Digits, 1) IN IF k = 0 THEN s ELSE SubSeq(s, 1, k - 1)
HasNumber(s) == At(s, 1) \in DOMAIN Digits
HasIndex(s, n) == Number(Leading(s)) = n

\* format_argument(): without a colon all of the anchor is its format.
FormatArgument(s, n) ==
    Text(<< << n, "x" \in ToSet(SubSeq(s, FindIn(s, {":"}, 1) + 1, Len(s))) >> >>)

\* join(), to which an anchor that no argument took is text again.
Join(chunks) ==
    FlattenSeq([k \in DOMAIN chunks |->
        IF chunks[k].type = "text" THEN chunks[k].content
                                   ELSE << "{" >> \o chunks[k].content \o << "}" >>])

Init ==
    /\ fmt \in BoundedSeq(Chars, MaxLength) /\ args \in 0..MaxArgs
    /\ split = [ok |-> TRUE, chunks |-> << >>] /\ index = -1 /\ out = << "none" >>
    /\ words = << >> /\ trimmed = << >>

Split ==
    /\ index = -1 /\ split' = SplitText(1, << >>)
    /\ index' = IF split'.ok THEN 0 ELSE MaxArgs + 1
    /\ out' = IF split'.ok THEN out ELSE << "throws" >>
    /\ words' = TSplit(fmt, {":"}, 1) /\ trimmed' = Trim(fmt, {":"})
    /\ UNCHANGED << fmt, args >>

\* safe_sprintf_worker(): an argument takes the anchors that have its number.
Worker ==
    /\ index \in 0..(args - 1)
    /\ IF \E k \in DOMAIN split.chunks :
             split.chunks[k].type = "anchor" /\ ~HasNumber(split.chunks[k].content)
       THEN index' = MaxArgs + 1 /\ out' = << "throws" >> /\ UNCHANGED split
       ELSE /\ index' = index + 1 /\ UNCHANGED out
            /\ split' = [split EXCEPT !.chunks = [k \in DOMAIN @ |->
                 IF @[k].type = "anchor" /\ HasIndex(@[k].content, index)
                 THEN FormatArgument(@[k].content, index) ELSE @[k]]]
    /\ UNCHANGED << fmt, args, words, trimmed >>

Return ==
    /\ index = args /\ out = << "none" >>
    /\ index' = MaxArgs + 1 /\ out' = Join(split.chunks)
    /\ UNCHANGED << fmt, args, split, words, trimmed >>

Next == Split \/ Worker \/ Return

Spec == Init /\ [][Next]_vars

-----------------------------------------------------------------------------
(* Properties *)

Doubled == \E k \in 2..Len(fmt) : fmt[k - 1] = fmt[k] /\ fmt[k] \in {"{", "}"}
Finished == index = MaxArgs + 1

\* What the documentation makes of a format without doubled braces, character by
\* character: anchor is what has been read of an anchor, text what is done.
Read(state, c) ==
    CASE ~state.open /\ c = "{" -> [state EXCEPT !.open = TRUE]
      [] ~state.open /\ c # "{" -> [state EXCEPT !.text = Append(@, c)]
      [] state.open /\ c # "}" -> [state EXCEPT !.anchor = Append(@, c)]
      [] state.open /\ c = "}" ->
            LET s == state.anchor
                n == Number(Leading(s))
                colon == FindIn(s, {":"}, 1)
            IN [open |-> FALSE, anchor |-> << >>,
                bad |-> state.bad \/ (args > 0 /\ ~HasNumber(s)),
                text |-> state.text \o
                    IF HasNumber(s) /\ n < args
                    THEN << << n, "x" \in ToSet(SubSeq(s, colon + 1, Len(s))) >> >>
                    ELSE << "{" >> \o s \o << "}" >>]

Documented ==
    LET end == FoldLeft(Read, [open |-> FALSE, anchor |-> << >>, text |-> << >>, bad |-> FALSE], fmt)
    IN IF end.open \/ end.bad THEN << "throws" >> ELSE end.text

\* A format without doubled braces is taken as documented: each anchor that has an
\* argument gives way to it, no argument is read for anchors itself, and nothing
\* else changes.  (split_format, safe_sprintf_worker, join.)
ReplacesAnchors == Finished /\ ~Doubled => out = Documented

\* Words are the longest runs without a delimiter, in order; what is trimmed begins
\* with the first of them and ends with the last.  (tsplit, trim.)
SplitsWords ==
    Finished =>
        LET Run(i, j) == /\ \A k \in i..j : fmt[k] # ":"
                         /\ At(fmt, i - 1) \in {":", "end"} /\ At(fmt, j + 1) \in {":", "end"}
            runs == SetToSortSeq({ij \in (1..Len(fmt)) \X (1..Len(fmt)) :
                                     ij[1] <= ij[2] /\ Run(ij[1], ij[2])}, LAMBDA x, y : x[1] < y[1])
        IN /\ words = [k \in DOMAIN runs |-> SubSeq(fmt, runs[k][1], runs[k][2])]
           /\ trimmed = IF runs = << >> THEN << >> ELSE SubSeq(fmt, runs[1][1], Last(runs)[2])

\* "Doubled occurences of curly braces will be replaced by single occurence, e. g.
\* {{ will become {".  (split_format, join.)
HalvesBraces == Finished /\ fmt = << "{", "{" >> => out = << "{" >>
=============================================================================
