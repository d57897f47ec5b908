---------------------------- MODULE Conversions -----------------------------
(***************************************************************************)
(* Texts, Hive and Testlib on all inputs of small sets: what is written in *)
(* a format, by the code or by a user who follows it, is read back, and    *)
(* checkers judge what a reader of the files would judge.  One conversion  *)
(* at a time.                                                              *)
(***************************************************************************)
EXTENDS Hive, Testlib

CONSTANTS Letters,    \* characters of arguments and of packed values
          Reals,      \* real numbers, in units of 10^-Places
          Names,      \* of configuration keys
          ConfValues, \* of configuration keys
          Gaps,       \* what may stand between two tokens of a configuration
          LineLetters, NumberLetters, \* characters of output and answer files
          MaxLength,  \* bound: length of an argument or a packed value
          MaxFile,    \* bound: length of an output file, answers are shorter
          MaxKeys,    \* bound: keys of a configuration
          MaxNumber   \* bound: absolute value of a number

VARIABLE text \* the conversion made last: its input and output

NoText == [kind |-> "none"]

Strings(n) == SeqOf(Letters, n)
Args == Strings(MaxLength) \ {<<>>}

\* A client puts a backslash before what cmd_parse_buf looks at, in quotes or
\* without them, and writes a newline as \n.
Escaped(arg, special) ==
  LET Char(c) == CASE c = Newline -> <<Slash, "n">> [] c \in special -> <<Slash, c>>
                   [] OTHER -> <<c>>
  IN FoldLeft(LAMBDA out, c : out \o Char(c), <<>>, arg)

Written(arg, quoted) ==
  IF quoted THEN <<Quote>> \o Escaped(arg, {Quote, Slash}) \o <<Quote>>
  ELSE Escaped(arg, {Quote, Slash, Space, Accent})

ReadArgs(a, b, quoted) ==
  text' = [kind |-> "args", in |-> <<a, b>>,
           out |-> cmd_parse_buf(Written(a, quoted) \o <<Space>> \o Written(b, quoted))]

\* An array goes to the web and back.
Repack(arr) ==
  text' = [kind |-> "pack", in |-> arr, out |-> assarr_unpack(assarr_pack(arr))]

\* A value is written to a client of the statistics, and read.
Reserialize(v, up) ==
  text' = [kind |-> "data", in |-> v, out |-> flexval_unserialize(flexval_serialize(v, up))]

\* A number is printed and read: as an integer, in hexadecimal, and as a real
\* number with Places decimals.
ReadNumber(n) ==
  text' = [kind |-> "number", in |-> <<n, n, n>>,
           out |-> <<flexval_atol(flexval_eval_from_int(n)),
                     flexval_atol(Minus(n) \o <<"0", "x">> \o Digitized(Absolute(n), 16, 1)),
                     flexval_atolf(flexval_eval_from_float(n))>>]

ReadRange(from, to) ==
  text' = [kind |-> "number", in |-> <<from, to>>,
           out |-> parse_range(Digitized(from, 10, 1) \o <<"-">> \o Digitized(to, 10, 1), 0)]

\* A checker compares an output with an answer.
Judge(checker, out, ans, verdicts) ==
  \E v \in verdicts :
    text' = [kind |-> "judge", checker |-> checker, in |-> out, ans |-> ans, out |-> v]

ReadReal(s) == text' = [kind |-> "real", in |-> s, out |-> testlib_read_float(Open(s))]
-----------------------------------------------------------------------------
(* Configurations.  A tree numbers its keys in the order of the file.      *)

\* Key n may follow key n - 1 in a file: below it, or below one of the keys it
\* is below.
RECURSIVE Above(_, _)
Above(parent, n) == IF n = 0 THEN {0} ELSE {n} \cup Above(parent, parent[n])

Shapes(n) ==
  {p \in [1..n -> 0..(n - 1)] : \A k \in 1..n : p[k] \in Above(p, k - 1)}

Trees(n) ==
  {[k \in 1..n |-> [name |-> <<names[k]>>, value |-> values[k], parent |-> p[k]]] :
     p \in Shapes(n), names \in [1..n -> Names], values \in [1..n -> ConfValues]}

\* How a user writes a tree: a key without value or with keys below it has a
\* block; the keys below `inc` are in a file of their own.
RECURSIVE Layout(_, _, _, _)
Layout(nodes, gap, inc, n) ==
  LET Key(k) ==
        LET below == Layout(nodes, gap, inc, k)
            block == Children(nodes, k) # {} \/ nodes[k].value = Zero
            value == IF nodes[k].value = Zero THEN <<>>
                     ELSE gap \o flexval_serialize(nodes[k].value, TRUE)
            inner == IF k = inc THEN Include \o gap \o <<"f">> ELSE below
        IN nodes[k].name \o value
             \o (IF block THEN gap \o <<"{">> \o gap \o inner \o gap \o <<"}">>
                          ELSE <<>>) \o gap
      Keys[m \in 0..Len(nodes)] ==
        IF m = 0 THEN <<>>
        ELSE Keys[m - 1] \o (IF nodes[m].parent = n THEN Key(m) ELSE <<>>)
  IN Keys[Len(nodes)]

ReadConf(nodes, gap, inc) ==
  LET files == [f \in {<<"f">>} |-> Layout(nodes, gap, 0, inc)]
  IN text' = [kind |-> "conf", in |-> nodes,
              out |-> hive_parse_buf(files, Layout(nodes, gap, inc, 0))]
-----------------------------------------------------------------------------
\* Arrays with one key or two, and the values with and without brackets.
Packed ==
  LET Entry(k, v) == [key |-> <<k>>, value |-> v] IN
  {<<Entry("a", v)>> : v \in Strings(MaxLength)}
    \cup {<<Entry("a", v), Entry("b", w)>> : v, w \in Strings(MaxLength)}

Values ==
  LET atoms == {[int |-> n] : n \in {7, -12}} \cup {[real |-> n] : n \in Reals}
                 \cup {[str |-> s] : s \in Strings(2)}
      lists == {[arr |-> s] : s \in SeqOf(atoms, 2)}
  IN atoms \cup lists
       \cup {[arr |-> <<[arr |-> s], a>>] : s \in SeqOf(atoms, 1), a \in atoms}

TextInit == text = NoText

Convert ==
  \/ \E a, b \in Args, quoted \in BOOLEAN : ReadArgs(a, b, quoted)
  \/ \E arr \in Packed : Repack(arr)
  \/ \E v \in Values, up \in BOOLEAN : Reserialize(v, up)
  \/ \E n \in -MaxNumber..MaxNumber : ReadNumber(n)
  \/ \E from, to \in 0..(MaxNumber \div 10) : ReadRange(from, to)
  \/ \E n \in 1..MaxKeys : \E nodes \in Trees(n), gap \in Gaps :
       \E inc \in {0} \cup {nodes[k].parent : k \in 1..n} : ReadConf(nodes, gap, inc)
  \/ \E out \in SeqOf(LineLetters, MaxFile) \cup {Missing},
        ans \in SeqOf(LineLetters, MaxFile - 1) \cup {Missing} :
       \/ Judge("string", out, ans, c_string_cmp(out, ans))
       \/ Judge("bystring", out, ans, c_bystring_cmp(out, ans))
  \/ \E out \in SeqOf(NumberLetters, MaxFile - 1) \cup {Missing},
        ans \in SeqOf(NumberLetters, MaxFile - 2) \cup {Missing} :
       Judge("long", out, ans, c_long_cmp(out, ans))
  \/ \E s \in SeqOf(NumberLetters, MaxFile) : ReadReal(s)

TextNext == \/ text = NoText /\ Convert
            \/ text # NoText /\ text' = NoText
-----------------------------------------------------------------------------
\* Whatever is in the arguments of a command, blanks, quotes, backslashes,
\* newlines and other characters than ASCII included, cmd_parse_buf reads them
\* as the client meant them, in quotes or not, when it puts backslashes before
\* those.  (An empty argument, which ends the parsing, is not among them.)
ArgsReadBack == text.kind = "args" => text.out = text.in

\* Every string of a value.
RECURSIVE StringsOf(_)
StringsOf(v) ==
  CASE DOMAIN v = {"str"} -> {v.str}
    [] DOMAIN v = {"arr"} -> UNION {StringsOf(v.arr[n]) : n \in DOMAIN v.arr}
    [] OTHER -> {}

Awkward == {Quote, Slash, "[", "]", Newline}

\* w is v with its real numbers rounded to the decimals of "%lf".
RECURSIVE IsRounded(_, _)
IsRounded(v, w) ==
  LET unit == 10^(Places - Kept) IN
  CASE DOMAIN v = {"real"} /\ DOMAIN w = {"real"} ->
         w.real % unit = 0 /\ 2 * Absolute(w.real - v.real) <= unit
    [] DOMAIN v = {"arr"} /\ DOMAIN w = {"arr"} ->
         Len(v.arr) = Len(w.arr) /\ \A n \in DOMAIN v.arr : IsRounded(v.arr[n], w.arr[n])
    [] OTHER -> v = w

BeginsWith(s, chars) == s # <<>> /\ Head(s) \in chars

\* What is packed is unpacked, semicolons in values included, unless a value
\* begins with one, and its keys are found whatever is unset.  What
\* flexval_serialize writes flexval_unserialize reads, real numbers rounded to
\* six decimals, unless a string has quotes or backslashes, which are not
\* escaped, or brackets.  What is printed of a number is read as that number.
DataReadsBack ==
  /\ text.kind = "pack" =>
       \/ /\ text.out = [arr |-> text.in]
          /\ \A e, gone \in Range(text.in) : e.key # gone.key =>
               assarr_get_value(assarr_unset_value(text.out.arr, gone.key), e.key) = e.value
       \/ \E n \in DOMAIN text.in : BeginsWith(text.in[n].value, {";"})
  /\ text.kind = "data" =>
       \/ IsRounded(text.in, text.out)
       \/ \E s \in StringsOf(text.in) : Range(s) \cap Awkward # {}
  /\ text.kind = "number" => text.out = text.in

\* The path of key n.
RECURSIVE Path(_, _)
Path(nodes, n) ==
  LET up == nodes[n].parent IN
  IF up = 0 THEN nodes[n].name ELSE Path(nodes, up) \o <<"/">> \o nodes[n].name

\* No key before n or one it is below has the same name and parent.
Reachable(nodes, n) ==
  \A k \in Above([m \in DOMAIN nodes |-> nodes[m].parent], n) \ {0} : \A l \in 1..(k - 1) :
    <<nodes[l].name, nodes[l].parent>> # <<nodes[k].name, nodes[k].parent>>

\* A configuration is read back as it was written, with comments between any
\* two tokens and parts of it in an included file, and every key that no
\* earlier one hides is found by its path, elements of arrays by their index;
\* unless there is a string that begins with a brace: the parser takes it for
\* the brace, in quotes or not.
ConfReadsBack ==
  text.kind = "conf" /\ (\A n \in DOMAIN text.in :
      DOMAIN text.in[n].value = {"str"} => ~BeginsWith(text.in[n].value.str, {"{", "}"})) =>
    /\ ~text.out.error /\ text.out.nodes = text.in
    /\ \A n \in DOMAIN text.in : Reachable(text.in, n) =>
         LET v == text.in[n].value
             path == Path(text.in, n)
         IN /\ hive_open_key(text.out.nodes, path) = v
            /\ DOMAIN v = {"arr"} => \A k \in DOMAIN v.arr :
                 hive_open_key(text.out.nodes, path \o <<"[", Digits[k], "]">>) = v.arr[k]
-----------------------------------------------------------------------------
(* What the files of a checker say to a reader.                            *)

\* Lines end with \n, \r or \r\n; the last one need not end.
LinesOf(s) ==
  LET kept == {n \in DOMAIN s : n > 1 /\ s[n] = Newline => s[n - 1] # CarriageReturn}
      order == SetToSortSeq(kept, <)
      ends == [n \in DOMAIN order |->
                 IF s[order[n]] = CarriageReturn THEN Newline ELSE s[order[n]]]
      parts == explode(ends, Newline)
  IN IF Last(parts) = <<>> THEN Front(parts) ELSE parts

\* The first word of a text, and whether anything but blanks follows it.
FirstWord(s) == LET b == AfterBlanks(s, 1) IN SubSeq(s, b, UpTo(s, b, {Space}) - 1)
MoreWords(s) == AfterBlanks(s, UpTo(s, AfterBlanks(s, 1), {Space})) <= Len(s)

Unsigned(w) == IF w # <<>> /\ Head(w) \in {"-", "+"} THEN Tail(w) ELSE w
Magnitude(w) == FoldLeft(LAMBDA n, c : n * 10 + atol(<<c>>), 0, w)
NumberOf(w) == (IF w # <<>> /\ Head(w) = "-" THEN -1 ELSE 1) * Magnitude(Unsigned(w))

IsLong(w) == /\ Unsigned(w) # <<>> /\ Range(Unsigned(w)) \subseteq Range(Digits)
             /\ NumberOf(w) \in (-MaxLong - 1)..MaxLong

RightLong(out, ans) ==
  LET o == FirstWord(out)
      a == FirstWord(ans)
  IN CASE ~IsLong(o) \/ ~IsLong(a) ->
            (IF IsLong(o) THEN {} ELSE {"PE"}) \cup (IF IsLong(a) THEN {} ELSE {"CR"})
       [] OTHER -> {IF NumberOf(o) # NumberOf(a) THEN "WA"
                    ELSE IF MoreWords(out) THEN "PE" ELSE "OK"}

\* o and a are sequences of lines.
RightString(o, a) ==
  CASE o = <<>> \/ a = <<>> ->
         (IF o = <<>> THEN {"PE"} ELSE {}) \cup (IF a = <<>> THEN {"CR"} ELSE {})
    [] OTHER -> {IF Head(o) # Head(a) THEN "WA"
                 ELSE IF \A n \in 2..Len(o) : Range(o[n]) \subseteq {Space} THEN "OK"
                 ELSE "PE"}

RightLines(o, a) ==
  {IF o = a THEN "OK" ELSE IF IsPrefix(o, a) THEN "PE" ELSE "WA"}

RightVerdict(checker, out, ans) ==
  LET o == LinesOf(out)
      a == LinesOf(ans)
      long == \E l \in Range(o) \cup Range(a) : Len(l) > MaxString
  IN CASE checker = "long" -> RightLong(out, ans)
       [] checker = "string" /\ ~long -> RightString(o, a)
       [] checker = "bystring" /\ ~long -> RightLines(o, a)
       [] OTHER -> {"OK", "WA", "PE", "CR"}

\* The checkers that come with the server judge what a reader of the two files
\* would: the values or the lines, whatever the lines end with, OK only when
\* nothing but blanks follows, PE when the output is too short or malformed,
\* CR only for a malformed answer or a file, the output too, that cannot be
\* opened; unless a line has more than MaxString characters.  The digits of a
\* real number are read as they are and divided by ten once for each decimal,
\* unless it has two points.
VerdictIsRight ==
  /\ text.kind = "judge" =>
       IF Missing \in {text.in, text.ans} THEN text.out = "CR"
       ELSE text.out \in RightVerdict(text.checker, text.in, text.ans)
  /\ text.kind = "real" =>
       LET parts == explode(Unsigned(FirstWord(text.in)), ".")
           valid == Last(parts) # <<>> /\ \A p \in Range(parts) : Range(p) \subseteq Range(Digits)
           num == NumberOf(SelectSeq(FirstWord(text.in), LAMBDA c : c # "."))
       IN \/ Len(parts) > 2
          \/ /\ text.out.ok = valid
             /\ valid => text.out.value =
                  [num |-> num, divided |-> IF Len(parts) = 2 THEN Len(parts[2]) ELSE 0]
=============================================================================
