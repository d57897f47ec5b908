-------------------------------- MODULE Texts --------------------------------
(***************************************************************************)
(* The text formats of libwebtester: command lines (cmd.c), packed         *)
(* associative arrays (assarr.c), serialized values (flexval.c), slashes   *)
(* (strlib.c).                                                             *)
(***************************************************************************)
EXTENDS Numbers

Quote == "\""
Slash == "\\"
Space == " "
Newline == "\n"
Accent == "e'" \* any character that is not ASCII

\* What the lexers skip between tokens, and what ends a token without quotes:
\* a char is signed, so that other characters than ASCII are among them.
Blanks == {Space, Newline, Accent}

Decoded(c) == IF c = "n" THEN Newline ELSE c

\* Mutant of Unescaped: the character after a backslash may end the token.
RECURSIVE UnescapedKeeping(_, _, _, _)
UnescapedKeeping(s, i, stop, token) ==
  IF i > Len(s) \/ s[i] \in stop THEN [token |-> token, next |-> i]
  ELSE IF s[i] = Slash THEN UnescapedKeeping(s, i + 1, stop, token)
  ELSE UnescapedKeeping(s, i + 1, stop, Append(token, s[i]))

\* The loop all lexers have: characters up to one in stop, escapes decoded.
\* A backslash at the end is dropped by stripslashes and refused by
\* unserialize_iterator; the others read on behind it, and nothing is read that
\* ends with one.
RECURSIVE Unescaped(_, _, _, _)
Unescaped(s, i, stop, token) ==
  IF i > Len(s) \/ s[i] \in stop THEN [token |-> token, next |-> i]
  ELSE IF s[i] = Slash
       THEN IF i = Len(s) THEN [token |-> token, next |-> i + 1]
            ELSE Unescaped(s, i + 2, stop, Append(token, Decoded(s[i + 1])))
  ELSE Unescaped(s, i + 1, stop, Append(token, s[i]))

\* First character from i on that is no blank.
RECURSIVE AfterBlanks(_, _)
AfterBlanks(s, i) ==
  IF i > Len(s) \/ s[i] \notin Blanks THEN i ELSE AfterBlanks(s, i + 1)
-----------------------------------------------------------------------------
(* strlib.c                                                                *)

stripslashes(s) == Unescaped(s, 1, {}, <<>>).token

RECURSIVE ExplodeFrom(_, _, _)
ExplodeFrom(s, i, c) ==
  LET e == UpTo(s, i, {c}) IN
  IF e > Len(s) THEN <<SubSeq(s, i, Len(s))>>
  ELSE <<SubSeq(s, i, e - 1)>> \o ExplodeFrom(s, e + 1, c)

\* With a separator of one character, the only kind there is in the code.
explode(s, c) == ExplodeFrom(s, 1, c)
-----------------------------------------------------------------------------
(* cmd.c                                                                   *)

\* cmd_parser_iterator: in quotes, or up to a blank.
cmd_parser_iterator(s, i) ==
  LET b == AfterBlanks(s, i)
      t == IF s[b] = Quote THEN Unescaped(s, b + 1, {Quote}, <<>>)
                           ELSE Unescaped(s, b, Blanks, <<>>)
  IN IF b > Len(s) THEN [token |-> <<>>, next |-> b]
     ELSE [t EXCEPT !.next = @ + IF s[b] = Quote THEN 1 ELSE 0]

\* cmd_parse_buf: an empty argument ends the parsing.
RECURSIVE ParseArgs(_, _)
ParseArgs(s, i) ==
  LET t == cmd_parser_iterator(s, i) IN
  IF t.token = <<>> THEN <<>> ELSE <<t.token>> \o ParseArgs(s, t.next)

cmd_parse_buf(s) == ParseArgs(s, 1)
-----------------------------------------------------------------------------
(* assarr.c.  An array is the sequence of its entries, bucket by bucket:   *)
(* a new key goes to the end of its bucket.                                *)

Indices(arr, key) == {n \in DOMAIN arr : arr[n].key = key}
assarr_isset(arr, key) == Indices(arr, key) # {}

assarr_get_value(arr, key) ==
  arr[CHOOSE n \in Indices(arr, key) : \A k \in Indices(arr, key) : n <= k].value

\* assarr_set_value and assarr_define.
assarr_set_value(arr, key, value) ==
  IF assarr_isset(arr, key)
  THEN [n \in DOMAIN arr |->
          IF n \in Indices(arr, key) THEN [arr[n] EXCEPT !.value = value] ELSE arr[n]]
  ELSE Append(arr, [key |-> key, value |-> value])

assarr_unset_value(arr, key) == SelectSeq(arr, LAMBDA e : e.key # key)

assarr_pack(arr) ==
  FoldLeft(LAMBDA out, e : out \o e.key \o <<";", Digits[Len(e.value) + 1], ";">>
                               \o e.value \o <<";">>, <<>>, arr)

atol(s) == IF Len(s) = 1 /\ \E n \in DOMAIN Digits : Digits[n] = s[1]
           THEN (CHOOSE n \in DOMAIN Digits : Digits[n] = s[1]) - 1 ELSE 0

\* Mutant of ValueEnd: the length is not looked at.
ValueEndAtSemicolon(s, i, len) == UpTo(s, i, {";"})

\* A value is read by its length, whatever it contains.
ValueEnd(s, i, len) == IF i + len > Len(s) THEN Len(s) + 1 ELSE i + len

\* assarr_unpack.  A length of 0 before anything but a semicolon makes it
\* read nothing for ever: Hang.
Hang == [hang |-> TRUE]

RECURSIVE UnpackFrom(_, _, _)
UnpackFrom(s, i, p) ==
  IF i > Len(s) THEN [arr |-> p.arr]
  ELSE IF s[i] = ";" THEN
    UnpackFrom(s, i + 1,
      CASE p.state = 0 -> [p EXCEPT !.state = 1, !.key = p.token, !.token = <<>>]
        [] p.state = 1 -> [p EXCEPT !.state = 2, !.len = atol(p.token), !.token = <<>>]
        [] p.state = 2 -> [p EXCEPT !.state = 0, !.token = <<>>,
                             !.arr = assarr_set_value(p.arr, p.key, p.token)])
  ELSE LET e == IF p.state = 2 THEN ValueEnd(s, i, p.len) ELSE UpTo(s, i, {";"}) IN
    IF e = i THEN Hang
    ELSE UnpackFrom(s, e, [p EXCEPT !.token = SubSeq(s, i, e - 1)])

assarr_unpack(s) ==
  UnpackFrom(s, 1, [state |-> 0, token |-> <<>>, key |-> <<>>, len |-> 0, arr |-> <<>>])
-----------------------------------------------------------------------------
(* flexval.c.  A value is [int |-> number], [real |-> number], [str |->    *)
(* text] or [arr |-> sequence of values].                                  *)

RECURSIVE flexval_serialize(_, _)
flexval_serialize(v, up) ==
  LET Joined[n \in Nat] ==
        IF n = 0 THEN <<>>
        ELSE IF n = 1 THEN flexval_serialize(v.arr[1], up)
        ELSE Joined[n - 1] \o <<Space>> \o flexval_serialize(v.arr[n], up)
  IN CASE DOMAIN v = {"int"} -> flexval_eval_from_int(v.int)
       [] DOMAIN v = {"real"} -> Printed(v.real, Kept, up)
       [] DOMAIN v = {"str"} -> <<Quote>> \o v.str \o <<Quote>>
       [] DOMAIN v = {"arr"} -> <<"[">> \o Joined[Len(v.arr)] \o <<"]">>

\* Characters from i on up to the bracket that closes the current one; quotes
\* are not looked at.  next is 0 when there is none.
RECURSIVE Bracketed(_, _, _, _)
Bracketed(s, i, interior, token) ==
  IF i > Len(s) THEN [token |-> token, next |-> 0]
  ELSE LET left == interior + CASE s[i] = "[" -> 1 [] s[i] = "]" -> -1 [] OTHER -> 0
       IN IF left = 0 THEN [token |-> token, next |-> i + 1]
          ELSE Bracketed(s, i + 1, left, Append(token, s[i]))

\* unserialize_iterator, from the first character after the blanks.  An
\* unfinished array or string gives next = 0.
unserialize_iterator(s, b) ==
  LET a == Bracketed(s, b + 1, 1, <<>>)
      q == Unescaped(s, b + 1, {Quote, Newline}, <<>>)
      e == UpTo(s, b, Blanks)
  IN CASE s[b] = "[" -> [flag |-> "array", token |-> a.token, next |-> a.next]
       [] s[b] = Quote -> [flag |-> "string", token |-> q.token,
                           next |-> IF q.next > Len(s) \/ s[q.next] = Newline
                                    THEN 0 ELSE q.next + 1]
       [] OTHER -> [flag |-> "word", token |-> SubSeq(s, b, e - 1), next |-> e]

\* The smart setting of a value that is no array.
Scalar(t) ==
  CASE t.flag = "word" /\ is_integer(t.token) -> [int |-> flexval_atol(t.token)]
    [] t.flag = "word" /\ ~is_integer(t.token) /\ is_number(t.token) ->
         [real |-> flexval_atolf(t.token)]
    [] OTHER -> [str |-> t.token]

Error == [error |-> TRUE]

RECURSIVE Elements(_, _)
Elements(s, i) ==
  LET b == AfterBlanks(s, i)
      t == unserialize_iterator(s, b)
      inner == Elements(t.token, 1)
      rest == Elements(s, t.next)
  IN IF b > Len(s) THEN [arr |-> <<>>]
     ELSE IF t.next = 0 \/ rest = Error \/ (t.flag = "array" /\ inner = Error) THEN Error
     ELSE [arr |-> <<IF t.flag = "array" THEN inner ELSE Scalar(t)>> \o rest.arr]

\* flexval_unserialize of one value; the loop at its top level, which goes on
\* after an array, gives the last of several.
RECURSIVE Unserialize(_, _, _)
Unserialize(s, i, ptr) ==
  LET b == AfterBlanks(s, i)
      t == unserialize_iterator(s, b)
  IN IF b > Len(s) THEN ptr
     ELSE IF t.next = 0 THEN Error
     ELSE IF t.flag = "array" THEN Unserialize(s, t.next, Elements(t.token, 1))
     ELSE IF AfterBlanks(s, t.next) <= Len(s) THEN Error
     ELSE Scalar(t)

flexval_unserialize(s) == Unserialize(s, 1, Error)
=============================================================================
