------------------------------ MODULE Testlib -------------------------------
(***************************************************************************)
(* The library checkers are written with and the checkers that come with   *)
(* the server (stuff/testlib, stuff/testlib++, stuff/checkers).  A checker *)
(* ends with a verdict, its exit code, that the testing thread reads.  An  *)
(* open file is its text, the number of characters read and the flag       *)
(* feof() tests, which only reading past the end sets.                     *)
(***************************************************************************)
EXTENDS Texts

CONSTANTS MaxString, \* TESTLIB_MAX_STRLEN
          MaxLong    \* MAXLONGINT

EOF == "EOF"
CarriageReturn == "\r"

\* A file that cannot be opened, in place of its text.
Missing == <<EOF>>

Open(text) == [text |-> text, pos |-> 0, eof |-> FALSE]

fgetc(f) == IF f.pos < Len(f.text) THEN [f EXCEPT !.pos = @ + 1]
                                   ELSE [f EXCEPT !.eof = TRUE]

\* What the last fgetc returned.
Ch(f) == IF f.eof THEN EOF ELSE f.text[f.pos]

\* A file that was read past its end stays there.
goback(f) == IF f.eof \/ f.pos = 0 THEN f ELSE [f EXCEPT !.pos = @ - 1]

is_space(c) == c \in {Space, Newline, CarriageReturn, "\t"}

RECURSIVE SkipSpaces(_)
SkipSpaces(f) == IF is_space(Ch(f)) THEN SkipSpaces(fgetc(f)) ELSE f

Read(value, f) == [ok |-> TRUE, value |-> value, file |-> f]
\* Quit (_PE, ...): PE for the output file, CR for the other files.
QuitPE == [ok |-> FALSE]

AfterNumber(f) == is_space(Ch(f)) \/ Ch(f) = EOF

\* The sign, if there is one, and the file after it.
Sign(f) == IF Ch(f) = "-" THEN -1 ELSE 1
AfterSign(f) == IF Ch(f) \in {"-", "+"} THEN fgetc(f) ELSE f
-----------------------------------------------------------------------------
(* read_number and testlib_read_float                                      *)

\* Mutant of RangeError: the range is the same on both sides of 0.
RangeErrorEven(v) == v < -MaxLong \/ v > MaxLong

RangeError(v) == v < -MaxLong - 1 \/ v > MaxLong

\* The digits and what ends them.
RECURSIVE CollectNumber(_, _, _, _)
CollectNumber(f, sign, val, readed) ==
  LET v == val * 10 + atol(<<Ch(f)>>) IN
  IF Ch(f) \notin Range(Digits)
  THEN IF AfterNumber(f) /\ readed THEN Read(sign * val, goback(f)) ELSE QuitPE
  ELSE IF RangeError(sign * v) THEN QuitPE
  ELSE CollectNumber(fgetc(f), sign, v, TRUE)

testlib_read_longint(f) ==
  LET g == SkipSpaces(fgetc(f))
  IN IF Ch(g) = EOF THEN QuitPE ELSE CollectNumber(AfterSign(g), Sign(g), 0, FALSE)

\* The digits of a real number, and how often the double they make is divided
\* by ten, which is not exact.  A second point is refused unless the first one
\* came before all digits.
RECURSIVE CollectFloat(_, _, _, _, _, _)
CollectFloat(f, sign, val, decimal, total, readed) ==
  CASE Ch(f) \in {".", ","} ->
         IF decimal > 0 THEN QuitPE
         ELSE CollectFloat(fgetc(f), sign, val, total, total, FALSE)
    [] Ch(f) \in Range(Digits) ->
         CollectFloat(fgetc(f), sign, val * 10 + atol(<<Ch(f)>>), decimal, total + 1, TRUE)
    [] OTHER ->
         IF AfterNumber(f) /\ readed
         THEN Read([num |-> sign * val, divided |-> IF decimal < 0 THEN 0 ELSE total - decimal],
                   goback(f))
         ELSE QuitPE

testlib_read_float(f) ==
  LET g == SkipSpaces(fgetc(f)) IN CollectFloat(AfterSign(g), Sign(g), 0, -1, 0, FALSE)
-----------------------------------------------------------------------------
(* testlib_read_string and CTestlibFile::ReadString                        *)

EndsLine(c) == c \in {Newline, CarriageReturn, EOF}

RECURSIVE CollectString(_, _)
CollectString(f, buf) ==
  IF EndsLine(Ch(f)) \/ Len(buf) = MaxString THEN Read(buf, f)
  ELSE CollectString(fgetc(f), Append(buf, Ch(f)))

\* A line that does not fit loses the character after the part that does.
testlib_read_string(f) ==
  LET g == fgetc(f)
      r == CollectString(g, <<>>)
      h == fgetc(r.file)
  IN IF Ch(g) = EOF THEN QuitPE
     ELSE IF Ch(r.file) # CarriageReturn THEN r
     ELSE Read(r.value, IF Ch(h) = Newline THEN h ELSE goback(h))

\* testlib_eof, its result and the file after it.
Eof(f) == Ch(fgetc(f)) = EOF
AfterEof(f) == goback(fgetc(f))

\* testlib_eoln looks at the character before.
AfterEoln(f) == fgetc(goback(f))
Eoln(f) == EndsLine(Ch(AfterEoln(f)))

\* The parts of a line up to its end.
RECURSIVE ReadMore(_)
ReadMore(r) ==
  LET e == AfterEof(r.file)
      n == testlib_read_string(AfterEoln(e))
  IN IF Eof(r.file) THEN Read(r.value, e)
     ELSE IF Eoln(e) THEN Read(r.value, AfterEoln(e))
     ELSE ReadMore(Read(r.value \o n.value, n.file))

ReadString(f) ==
  LET r == testlib_read_string(f) IN IF r.ok THEN ReadMore(r) ELSE r
-----------------------------------------------------------------------------
testlib_seekeof(f) == f.eof \/ Ch(SkipSpaces(fgetc(f))) = EOF

\* testlib_quit: nothing may follow what made the checker say OK.
testlib_quit(verdict, out) ==
  IF verdict = "OK" /\ ~testlib_seekeof(out) THEN "PE" ELSE verdict

\* The verdicts when a read of the output or of the answer failed.  C++ leaves
\* open which file is read first.
Quits(o, a) == (IF o.ok THEN {} ELSE {"PE"}) \cup (IF a.ok THEN {} ELSE {"CR"})

\* Check () of c_long_cmp and c_string_cmp, given what they read.
CompareOne(o, a) ==
  IF Quits(o, a) # {} THEN Quits(o, a)
  ELSE IF o.value # a.value THEN {"WA"}
  ELSE {testlib_quit("OK", o.file)}

\* Testlib_Init: OpenStream quits with CR whichever file cannot be opened, so
\* that the test for the output file after it is never made.
Assigned(out, ans, verdicts) == IF Missing \in {out, ans} THEN {"CR"} ELSE verdicts

c_long_cmp(out, ans) ==
  Assigned(out, ans,
    CompareOne(testlib_read_longint(Open(out)), testlib_read_longint(Open(ans))))

c_string_cmp(out, ans) ==
  Assigned(out, ans, CompareOne(ReadString(Open(out)), ReadString(Open(ans))))

\* Check () of c_bystring_cmp.
RECURSIVE CompareLines(_, _)
CompareLines(ouf, ans) ==
  LET o == ReadString(ouf)
      a == ReadString(AfterEof(ans))
  IN IF Eof(ans)
     THEN {IF Eof(ouf) THEN testlib_quit("OK", AfterEof(ouf)) ELSE "WA"}
     ELSE IF Quits(o, a) # {} THEN Quits(o, a)
     ELSE IF o.value # a.value THEN {"WA"}
     ELSE CompareLines(o.file, a.file)

c_bystring_cmp(out, ans) == Assigned(out, ans, CompareLines(Open(out), Open(ans)))
=============================================================================
