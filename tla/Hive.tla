-------------------------------- MODULE Hive --------------------------------
(***************************************************************************)
(* The configuration files (libwebtester/hive.c): the lexer, the parser,   *)
(* which builds the tree of keys, and the look-up of a key.                *)
(*                                                                         *)
(* A tree is the sequence of its nodes in the order they were made, each   *)
(* with its name, value and parent (0 for the root).  Files is what the    *)
(* file system holds, by name.                                             *)
(***************************************************************************)
EXTENDS Texts

\* A comment in line ends before the newline.  Nested comments are counted;
\* i is the character after the opening.  The end of the file gives 0.
LineComment(s, i) == UpTo(s, i, {Newline})

At(s, i, c, d) == i < Len(s) /\ s[i] = c /\ s[i + 1] = d

Interior(s, i, interior) ==
  interior + CASE At(s, i, "/", "*") -> 1 [] At(s, i, "*", "/") -> -1 [] OTHER -> 0

RECURSIVE AfterComment(_, _, _)
AfterComment(s, i, interior) ==
  IF i > Len(s) THEN 0
  ELSE IF Interior(s, i, interior) = 0 THEN i + 2
  ELSE AfterComment(s, i + 1, Interior(s, i, interior))

\* First character from i on that is neither blank nor comment; 0 at the end.
RECURSIVE TokenStart(_, _)
TokenStart(s, i) ==
  LET b == AfterBlanks(s, i)
      c == AfterComment(s, b + 2, 1)
  IN IF b > Len(s) THEN 0
     ELSE IF At(s, b, "/", "/") THEN TokenStart(s, LineComment(s, b))
     ELSE IF At(s, b, "/", "*") THEN IF c = 0 THEN 0 ELSE TokenStart(s, c)
     ELSE b

\* A word ends at a blank, a brace or a comment.
RECURSIVE WordEnd(_, _)
WordEnd(s, i) ==
  IF \/ i > Len(s) \/ s[i] \in Blanks \cup {"{", "}"}
     \/ At(s, i, "/", "*") \/ At(s, i, "/", "/")
  THEN i ELSE WordEnd(s, i + 1)

\* hive_parser_iteration from the start of a token.  An unfinished array
\* gives next = 0, an unfinished string is accepted.
hive_parser_iteration(s, b) ==
  LET a == Bracketed(s, b + 1, 1, <<>>)
      q == Unescaped(s, b + 1, {Quote}, <<>>)
      e == WordEnd(s, b)
  IN CASE s[b] = "[" -> [flag |-> "array", token |-> a.token, next |-> a.next]
       [] s[b] = Quote -> [flag |-> "string", token |-> q.token, next |-> q.next + 1]
       [] s[b] \in {"{", "}"} -> [flag |-> "word", token |-> <<s[b]>>, next |-> b + 1]
       [] OTHER -> [flag |-> "word", token |-> SubSeq(s, b, e - 1), next |-> e]
-----------------------------------------------------------------------------
(* The tree.                                                               *)

Children(nodes, n) == {k \in DOMAIN nodes : nodes[k].parent = n}
FirstOf(s) == CHOOSE k \in s : \A l \in s : k <= l
LastOf(s) == CHOOSE k \in s : \A l \in s : k >= l

\* The smart setting of a variable in hive_spawn_new_node.  The text of a
\* block is "", which counts as an integer.
Zero == [int |-> 0]
ValueOf(t) ==
  IF t.flag = "array" THEN flexval_unserialize(<<"[">> \o t.token \o <<"]">>)
                      ELSE Scalar(t)

\* hive_add_variable to the current node.
Added(p, t) ==
  [p EXCEPT !.nodes = Append(@, [name |-> p.name, value |-> ValueOf(t), parent |-> p.current])]

\* The newest child of the current node becomes the current one.
Opened(p) ==
  [p EXCEPT !.current = LastOf(Children(p.nodes, p.current)), !.braces = @ + 1,
            !.var_taked = FALSE, !.name_taked = FALSE]

Closed(p) == [p EXCEPT !.current = p.nodes[@].parent, !.braces = @ - 1]

Failed(p) == [p EXCEPT !.error = TRUE]

\* hive_copy_childs: the nodes of the included file go under the current node.
Included(p, nodes) ==
  LET base == Len(p.nodes)
      Moved(n) == [nodes[n] EXCEPT !.parent = IF @ = 0 THEN p.current ELSE base + @]
  IN [p EXCEPT !.nodes = @ \o [n \in DOMAIN nodes |-> Moved(n)]]

\* The character *token of a token that is no array.
First(t) == IF t.token = <<>> \/ t.flag = "array" THEN "" ELSE Head(t.token)

\* A token where a name is expected.
Name(p, t) ==
  CASE t.flag = "array" -> Failed(p)
    [] First(t) = "{" -> IF p.name_taked \/ p.var_taked THEN Opened(p) ELSE Failed(p)
    [] First(t) = "}" -> IF p.braces = 0 \/ (p.name_taked /\ ~p.var_taked)
                         THEN Failed(p) ELSE Closed(p)
    [] OTHER -> [p EXCEPT !.name = t.token, !.name_taked = TRUE,
                          !.var_taked = FALSE, !.state = 1]

\* A token where a value is expected.  A string that begins with a brace is
\* taken for the brace.
Value(p, t) ==
  LET q == CASE First(t) = "{" -> Opened(Added(p, [t EXCEPT !.token = <<>>]))
             [] First(t) = "}" -> IF p.braces = 0 \/ ~p.var_taked THEN Failed(p) ELSE Closed(p)
             [] OTHER -> [Added(p, t) EXCEPT !.name_taked = FALSE, !.var_taked = TRUE]
  IN [q EXCEPT !.state = 0]

Start == [nodes |-> <<>>, current |-> 0, name |-> <<>>, state |-> 0, braces |-> 0,
          name_taked |-> FALSE, var_taked |-> FALSE, error |-> FALSE]

\* #include, as one word of the model's characters.
Include == <<"#", "i">>

\* hive_parse_buf.  Whether an included file exists and is correct is not
\* looked at.
RECURSIVE ParseFrom(_, _, _, _)
ParseFrom(files, s, i, p) ==
  LET b == TokenStart(s, i)
      t == hive_parser_iteration(s, b)
      c == TokenStart(s, t.next)
      f == hive_parser_iteration(s, c)
  IN IF p.error THEN p
     ELSE IF b = 0 THEN [p EXCEPT !.error = p.braces # 0 \/ p.name_taked]
     ELSE IF t.next = 0 THEN Failed(p)
     ELSE IF t.flag # "string" /\ t.token # <<>> /\ Head(t.token) = "#"
          THEN IF t.token # Include THEN Failed(p)
               ELSE IF c = 0 THEN ParseFrom(files, s, Len(s) + 1, p)
               ELSE IF f.token \notin DOMAIN files THEN ParseFrom(files, s, f.next, p)
               ELSE ParseFrom(files, s, f.next,
                      Included(p, ParseFrom(files, files[f.token], 1, Start).nodes))
     ELSE ParseFrom(files, s, t.next, IF p.state = 0 THEN Name(p, t) ELSE Value(p, t))

hive_parse_buf(files, s) == ParseFrom(files, s, 1, Start)
-----------------------------------------------------------------------------
(* Keys.                                                                   *)

\* Mutant of FindFrom: the last of several nodes with one name is taken.
RECURSIVE FindLastFrom(_, _, _)
FindLastFrom(nodes, n, key) ==
  LET e == UpTo(key, 1, {"/"})
      found == {k \in Children(nodes, n) : nodes[k].name = SubSeq(key, 1, e - 1)}
  IN IF found = {} THEN 0
     ELSE IF e >= Len(key) THEN LastOf(found)
     ELSE FindLastFrom(nodes, LastOf(found), SubSeq(key, e + 1, Len(key)))

\* hive_find_item: the first node with the name before the slash, and the rest
\* of the key below it.  0 for none.
RECURSIVE FindFrom(_, _, _)
FindFrom(nodes, n, key) ==
  LET e == UpTo(key, 1, {"/"})
      found == {k \in Children(nodes, n) : nodes[k].name = SubSeq(key, 1, e - 1)}
  IN IF found = {} THEN 0
     ELSE IF e >= Len(key) THEN FirstOf(found)
     ELSE FindFrom(nodes, FirstOf(found), SubSeq(key, e + 1, Len(key)))

\* get_array_index: the index in brackets at the end of a key, read backwards
\* from i; slash is where the last slash is.  [index |-> -1] for none.
RECURSIVE IndexFrom(_, _, _, _, _)
IndexFrom(key, slash, i, mult, index) ==
  IF i <= slash \/ (key[i] = "[" /\ (key[i - 1] = Slash \/ slash = i - 1))
  THEN [index |-> -1, key |-> key]
  ELSE IF key[i] = "[" THEN [index |-> index, key |-> SubSeq(key, 1, i - 1)]
  ELSE IF key[i] \notin Range(Digits) THEN [index |-> -1, key |-> key]
  ELSE IndexFrom(key, slash, i - 1, mult * 10, index + atol(<<key[i]>>) * mult)

get_array_index(key) ==
  LET n == Len(key)
      slash == LastOf({i \in 1..n : key[i] = "/"})
  IN IF key[n] # "]" \/ key[n - 1] = Slash THEN [index |-> -1, key |-> key]
     ELSE IndexFrom(key, slash, n - 1, 1, 0)

NoValue == [none |-> TRUE]

\* hive_open_key: the value of a key, or of one element of its array.  The
\* prefix "root/" is the slash.
hive_open_key(nodes, key) ==
  LET k == get_array_index(<<"/">> \o key)
      n == FindFrom(nodes, 0, stripslashes(Tail(k.key)))
      v == nodes[n].value
  IN IF n = 0 THEN NoValue
     ELSE IF k.index < 0 THEN v
     ELSE IF DOMAIN v = {"arr"} /\ k.index < Len(v.arr) THEN v.arr[k.index + 1]
     ELSE NoValue
=============================================================================
