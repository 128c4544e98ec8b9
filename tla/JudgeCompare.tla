---------------------------- MODULE JudgeCompare ----------------------------
(***************************************************************************)
(* The comparators of judge/lib/compare.sh and the staging of the expected *)
(* output by judge.sh.  A text is a sequence of characters; sed, tr and    *)
(* awk are functions on texts.  The state is one test case: the bytes the  *)
(* program writes to stdout and the expected_output in task.json, both     *)
(* written one character at a time.                                        *)
(*                                                                         *)
(* The byte order mark, which staging removes from the first line, is not  *)
(* in the alphabet; 1 stands for the digits of float_eps.                  *)
(***************************************************************************)
EXTENDS Integers, SequencesExt

CONSTANTS
  MaxOut, MaxExpected,   \* bounds: length of the two texts
  EpsNum, EpsDen         \* float_epsilon = EpsNum / EpsDen

ASSUME CompareAssumption ==
  MaxOut \in Nat /\ MaxExpected \in Nat /\ EpsNum \in Nat /\ EpsDen \in Nat \ {0}

Blanks == {" ", "\t"}
Chars == {"a", "A", "1", "\r", "\n"} \cup Blanks

VARIABLES out, expected_output
compareVars == <<out, expected_output>>

CompareInit == out = << >> /\ expected_output = << >>

Write(c) ==
  /\ Len(out) < MaxOut
  /\ out' = Append(out, c)
  /\ UNCHANGED expected_output

Expect(c) ==
  /\ Len(expected_output) < MaxExpected
  /\ expected_output' = Append(expected_output, c)
  /\ UNCHANGED out

CompareNext == \E c \in Chars : Write(c) \/ Expect(c)

-----------------------------------------------------------------------------
(* Text tools *)

\* The lines of a text, each with its newline; the last may lack one.
Lines(s) ==
  FoldLeft(LAMBDA ls, c :
             IF ls = << >> \/ Last(Last(ls)) = "\n"
               THEN Append(ls, <<c>>)
               ELSE [ls EXCEPT ![Len(ls)] = Append(@, c)],
           << >>, s)

Body(l) == IF Last(l) = "\n" THEN Front(l) ELSE l

StripCrlf(s) == SelectSeq(s, LAMBDA c : c # "\r")

\* sed -E 's/[ \t]+$//'
RStrip(s) ==
  FoldRight(LAMBDA c, t : IF c \in Blanks /\ (t = << >> \/ Head(t) = "\n")
                            THEN t ELSE <<c>> \o t,
            s, << >>)

\* sed -E 's/[ \t]+/ /g'
FoldBlanks(s) ==
  FoldLeft(LAMBDA t, c : IF c \notin Blanks THEN Append(t, c)
                         ELSE IF t # << >> /\ Last(t) = " " THEN t ELSE Append(t, " "),
           << >>, s)

\* sed '/^[[:space:]]*$/d'
DropBlankLines(s) ==
  FlattenSeq(SelectSeq(Lines(s), LAMBDA l :
                         \E k \in 1..Len(l) : l[k] \notin Blanks \cup {"\r", "\n"}))

\* tr '[:upper:][:lower:]' '[:lower:][:upper:]'
SwapCase(s) ==
  [k \in 1..Len(s) |-> CASE s[k] = "a" -> "A" [] s[k] = "A" -> "a" [] OTHER -> s[k]]

\* awk's split(line, t, /[ \t]+/): a blank at either end makes an empty token.
Split(l) ==
  IF l = << >> THEN << >>
  ELSE FoldLeft(LAMBDA ts, c : IF c = " " THEN Append(ts, << >>)
                               ELSE [ts EXCEPT ![Len(ts)] = Append(@, c)],
                << << >> >>, FoldBlanks(l))

-----------------------------------------------------------------------------
(* judge.sh, staging: jq -r adds a newline, CRs go, and sed '$ {/^$/d}'    *)
(* deletes the last line if it is empty.                                   *)

Staged(v) ==
  LET file == Lines(StripCrlf(v \o <<"\n">>))
  IN  FlattenSeq(IF Last(file) = <<"\n">> THEN Front(file) ELSE file)

expected == Staged(expected_output)

-----------------------------------------------------------------------------
(* The comparators *)

compare_exact(a, b) == a = b

\* Mutant: trailing white space of the whole file instead of each line.
compare_ignore_trailing_file(a, b) ==
  LET Trim(s) == FoldRight(LAMBDA c, t : IF c \in Blanks \cup {"\n"} /\ t = << >>
                                           THEN t ELSE <<c>> \o t, s, << >>)
  IN  Trim(a) = Trim(b)

compare_ignore_trailing(a, b) == RStrip(a) = RStrip(b)

compare_ignore_case(a, b) == SwapCase(a) = SwapCase(b)

compare_ignore_all_whitespace(a, b) ==
  DropBlankLines(FoldBlanks(a)) = DropBlankLines(FoldBlanks(b))

isnum(t) == t # << >> /\ \A k \in 1..Len(t) : t[k] = "1"
Value(t) == FoldLeft(LAMBDA v, c : 10 * v + 1, 0, t)
Dist(x, y) == IF x < y THEN y - x ELSE x - y

feq(x, y) ==
  LET big == IF x < y THEN y ELSE x IN
  \/ x = y
  \/ Dist(x, y) * EpsDen <= EpsNum
  \/ big > 0 /\ Dist(x, y) * EpsDen <= EpsNum * big

SameTokens(la, lb) ==
  LET ta == Split(Body(la))
      tb == Split(Body(lb))
  IN  /\ Len(ta) = Len(tb)
      /\ \A k \in 1..Len(tb) :
           isnum(ta[k]) /\ isnum(tb[k]) /\ feq(Value(ta[k]), Value(tb[k]))

\* Mutant: lines of the output beyond those of the expected text are not seen.
compare_float_eps_prefix(a, b) ==
  LET A == Lines(a)
      B == Lines(b)
  IN  Len(B) <= Len(A) /\ \A k \in 1..Len(B) : SameTokens(A[k], B[k])

\* The awk program: the main block fails on a line A does not have, END on one
\* B does not have.
compare_float_eps(a, b) ==
  LET A == Lines(a)
      B == Lines(b)
  IN  /\ Len(B) <= Len(A)
      /\ \A k \in 1..Len(B) : SameTokens(A[k], B[k])
      /\ Len(B) = Len(A)

-----------------------------------------------------------------------------
(* Properties.  `Words`, `Outline`, `Close` and `Upper` are the reference.  *)

\* The words of each line that has any.
Words(s) ==
  SelectSeq([k \in 1..Len(Lines(s)) |->
               SelectSeq(Split(Body(Lines(s)[k])), LAMBDA t : t # << >>)],
            LAMBDA ws : ws # << >>)

\* Of each line that is not blank: its words, whether a blank stands before the
\* first or after the last of them, and whether the line is ended.
Outline(s) ==
  LET full == SelectSeq(Lines(s), LAMBDA l : \E k \in 1..Len(l) : l[k] \in {"a", "A", "1"})
  IN  [k \in 1..Len(full) |->
         LET text == Body(full[k])
         IN  [words |-> SelectSeq(Split(text), LAMBDA t : t # << >>),
              blank_first |-> Head(text) \in Blanks,
              blank_last |-> Last(text) \in Blanks,
              ended |-> Last(full[k]) = "\n"]]

Upper(s) == [k \in 1..Len(s) |-> IF s[k] = "a" THEN "A" ELSE s[k]]

\* There is something to compare.
Written == out # << >> \/ expected_output # << >>

\* The lenient comparators forgive white space only, and take what compare_exact
\* takes.  Texts that compare_ignore_trailing takes for equal have the same words
\* and as many lines.  compare_ignore_all_whitespace forgives exactly blank lines
\* and the width of a gap: a gap at either end of a line must be there in both.
LenientKeepsWords ==
  Written =>
    /\ compare_exact(out, expected) =>
         compare_ignore_trailing(out, expected) /\ compare_ignore_all_whitespace(out, expected)
    /\ compare_ignore_trailing(out, expected) =>
         /\ Len(Lines(RStrip(out))) = Len(Lines(RStrip(expected)))
         /\ Words(out) = Words(expected)
    /\ compare_ignore_all_whitespace(out, expected) <=> Outline(out) = Outline(expected)

Close(x, y) ==
  Dist(x, y) * EpsDen <= EpsNum * (IF x > y THEN IF x > 1 THEN x ELSE 1
                                            ELSE IF y > 1 THEN y ELSE 1)

\* compare_float_eps takes two texts for equal exactly when they have the same
\* lines and tokens, all numeric, without blanks at either end of a line, and
\* each pair of numbers is close; the order of its arguments does not matter.
FloatIsTokenwise ==
  Written =>
  LET A == Lines(out)
      B == Lines(expected)
      Numeric(l) == RStrip(Body(l)) = Body(l) /\ (Body(l) # << >> => Body(l)[1] \notin Blanks)
                    /\ \A k \in 1..Len(Body(l)) : Body(l)[k] \in Blanks \cup {"1"}
      Tokens(l) == SelectSeq(Split(Body(l)), LAMBDA t : t # << >>)
  IN  /\ compare_float_eps(out, expected) <=>
           /\ Len(A) = Len(B)
           /\ \A k \in 1..Len(A) :
                /\ Numeric(A[k]) /\ Numeric(B[k])
                /\ Len(Tokens(A[k])) = Len(Tokens(B[k]))
                /\ \A j \in 1..Len(Tokens(A[k])) :
                     Close(Value(Tokens(A[k])[j]), Value(Tokens(B[k])[j]))
      /\ compare_float_eps(out, expected) <=> compare_float_eps(expected, out)

-----------------------------------------------------------------------------
(* What the documentation says and the code does not do.                   *)

\* compare.sh:62 "用户写 "Hello" 与期望 "HELLO" / "hello" 均判 AC": texts that differ
\* in letter case only are equal.  tr swaps the case of both texts instead of
\* folding it, so the comparator accepts what compare_exact accepts.
CaseIsIgnored == Upper(out) = Upper(expected) => compare_ignore_case(out, expected)
=============================================================================
