------------------------------ MODULE DynaList ------------------------------
(***************************************************************************)
(* The doubly linked list of libwebtester/dynastruc.c, which queue, belts, *)
(* accumulator, scheduler, hooks, blacklist and librun's belts are made    *)
(* of, as its callers use it: one operation at a time, under the caller's  *)
(* lock.  Tags are 0 everywhere and left out.  An operation that walks     *)
(* takes one step per item.                                                *)
(*                                                                         *)
(* A freed item keeps its contents until malloc gives it away again: this  *)
(* is what unblacklist_ip relies on when it searches on from the item it   *)
(* has just deleted.                                                       *)
(***************************************************************************)
EXTENDS Integers, SequencesExt

CONSTANTS Data,    \* the items, compared as numbers by the sort
          MaxItems \* bound: the length of a list

ASSUME DynaAssumption == Data \subseteq Nat \ {0} /\ MaxItems \in Nat

VARIABLES
  head, tail, find_data, count,    \* dynastruc_t
  mem,                             \* of each item: data, next_ptr, prev_ptr
  op, key, cur, i, j,              \* the operation and its local variables
  result, got,                     \* the item and the data it gave last
  items                            \* history: the items, in the list's order

structVars == <<head, tail, find_data, count, mem, items>>
localVars == <<op, key, cur, i, j>>
vars == <<structVars, localVars, result, got>>

NULL == 0
None == 0
Nodes == 1..MaxItems
Idle == op = "calls"
Live == Range(items)

\* Where an item is in the list; 0 for none.
Position(n) == IF n \in Live THEN CHOOSE k \in DOMAIN items : items[k] = n ELSE 0

\* dyna_create.
Init ==
  /\ head = NULL /\ tail = NULL /\ find_data = NULL /\ count = 0
  /\ mem = [n \in Nodes |-> [data |-> None, next |-> NULL, prev |-> NULL]]
  /\ op = "calls" /\ key = None /\ cur = NULL /\ i = 0 /\ j = 0
  /\ result = NULL /\ got = None /\ items = <<>>
-----------------------------------------------------------------------------
(* Insertion and deletion.                                                 *)

\* malloc gives any item that is not in use.
dyna_push(d) ==
  /\ Idle /\ result' = NULL
  /\ \E n \in Nodes \ Live :
       /\ mem' = [k \in Nodes |->
                    IF k = n THEN [data |-> d, next |-> head, prev |-> NULL]
                    ELSE IF k = head THEN [mem[k] EXCEPT !.prev = n] ELSE mem[k]]
       /\ head' = n /\ tail' = IF tail = NULL THEN n ELSE tail
       /\ items' = <<n>> \o items
  /\ count' = count + 1 /\ UNCHANGED <<find_data, localVars, got>>

dyna_add_to_back(d) ==
  /\ Idle /\ result' = NULL
  /\ \E n \in Nodes \ Live :
       /\ mem' = [k \in Nodes |->
                    IF k = n THEN [data |-> d, next |-> NULL, prev |-> tail]
                    ELSE IF k = tail THEN [mem[k] EXCEPT !.next = n] ELSE mem[k]]
       /\ tail' = n /\ head' = IF tail = NULL THEN n ELSE head
       /\ items' = Append(items, n)
  /\ count' = count + 1 /\ UNCHANGED <<find_data, localVars, got>>

\* Mutant of Unlinked: the item after n keeps its old predecessor.
UnlinkedForward(n) ==
  [k \in Nodes |-> IF k = mem[n].prev THEN [mem[k] EXCEPT !.next = mem[n].next]
                   ELSE mem[k]]

\* The memory after n was unlinked from its neighbours.
Unlinked(n) ==
  [k \in Nodes |-> IF k = mem[n].next THEN [mem[k] EXCEPT !.prev = mem[n].prev]
                   ELSE IF k = mem[n].prev THEN [mem[k] EXCEPT !.next = mem[n].next]
                   ELSE mem[k]]

\* dyna_delete of an item, when head and tail are h and t: both may have
\* been moved by the caller.
dyna_delete(n, h, t) ==
  /\ mem' = Unlinked(n)
  /\ head' = IF n = h THEN mem[n].next ELSE h
  /\ tail' = IF n = t THEN mem[n].prev ELSE t
  /\ count' = count - 1
  /\ items' = RemoveAt(items, Position(n))

\* dyna_del_from_front too.  When nothing is left, dyna_delete has cleared
\* the other end.
dyna_pop ==
  /\ Idle /\ count # 0 /\ result' = NULL
  /\ got' = mem[head].data /\ dyna_delete(head, mem[head].next, tail)
  /\ UNCHANGED <<find_data, localVars>>

dyna_del_from_back ==
  /\ Idle /\ count # 0 /\ result' = NULL
  /\ got' = mem[tail].data /\ dyna_delete(tail, head, mem[tail].prev)
  /\ UNCHANGED <<find_data, localVars>>

DelFromEmpty ==
  /\ Idle /\ count = 0 /\ got' = None
  /\ UNCHANGED <<structVars, localVars, result>>

\* The caller deletes the item that a search has found.
DeleteFound ==
  /\ Idle /\ result # NULL /\ dyna_delete(result, head, tail)
  /\ result' = NULL /\ UNCHANGED <<find_data, localVars, got>>
-----------------------------------------------------------------------------
(* Walks.                                                                  *)

\* An operation begins, or ends.
Begins(o, k, c) == Idle /\ op' = o /\ key' = k /\ cur' = c /\ i' = 0 /\ j' = 0
Ends == op' = "calls" /\ key' = None /\ cur' = NULL /\ i' = 0 /\ j' = 0

\* dyna_search_reset and dyna_search.
SearchBegins(d) ==
  /\ Begins("find", d, NULL) /\ find_data' = head
  /\ UNCHANGED <<head, tail, count, mem, items, result, got>>

SearchPasses ==
  /\ op = "find" /\ find_data # NULL /\ mem[find_data].data # key
  /\ find_data' = mem[find_data].next
  /\ UNCHANGED <<head, tail, count, mem, items, localVars, result, got>>

SearchEnds ==
  /\ op = "find" /\ (find_data # NULL => mem[find_data].data = key)
  /\ result' = find_data /\ Ends /\ UNCHANGED <<structVars, got>>

\* dyna_get_item_by_index.
IndexBegins(k) ==
  /\ Begins("get", k, head) /\ UNCHANGED <<structVars, result, got>>

IndexPasses ==
  /\ op = "get" /\ cur # NULL /\ i < key /\ i' = i + 1 /\ cur' = mem[cur].next
  /\ UNCHANGED <<structVars, op, key, j, result, got>>

IndexEnds ==
  /\ op = "get" /\ (cur = NULL \/ i >= key)
  /\ result' = cur /\ Ends /\ UNCHANGED <<structVars, got>>

\* unblacklist_ip, the only caller that searches the blacklist, and without a
\* reset: each search begins after the item of the last, which is freed, and
\* the first one at the head because the last removal has ended with NULL.
RemoveBegins(d) ==
  /\ Begins("remove", d, NULL) /\ find_data = NULL /\ find_data' = head
  /\ result' = NULL /\ UNCHANGED <<head, tail, count, mem, items, got>>

RemovePasses ==
  /\ op = "remove" /\ find_data # NULL /\ mem[find_data].data # key
  /\ find_data' = mem[find_data].next
  /\ UNCHANGED <<head, tail, count, mem, items, localVars, result, got>>

RemoveDeletes ==
  /\ op = "remove" /\ find_data # NULL /\ mem[find_data].data = key
  /\ dyna_delete(find_data, head, tail) /\ find_data' = mem[find_data].next
  /\ UNCHANGED <<localVars, result, got>>

RemoveEnds ==
  /\ op = "remove" /\ find_data = NULL /\ Ends
  /\ UNCHANGED <<structVars, result, got>>

\* dyna_delete_all.
ClearBegins ==
  /\ Begins("clear", None, head) /\ result' = NULL
  /\ UNCHANGED <<structVars, got>>

ClearDeletes ==
  /\ op = "clear" /\ cur # NULL /\ cur' = mem[cur].next /\ dyna_delete(cur, head, tail)
  /\ UNCHANGED <<find_data, op, key, i, j, result, got>>

ClearEnds ==
  /\ op = "clear" /\ cur = NULL /\ Ends /\ UNCHANGED <<structVars, result, got>>
-----------------------------------------------------------------------------
(* dyna_sort.                                                              *)

SortBegins ==
  /\ Begins("sort", None, head) /\ result' = NULL /\ UNCHANGED <<structVars, got>>

\* Mutant of Compared: an item too few is compared.
ComparedShort == j < count - 2

Compared == j < count - 1

\* swap exchanges the data of two neighbours.
Swapped ==
  LET n == mem[cur].next IN
  IF mem[cur].data > mem[n].data
  THEN [mem EXCEPT ![cur].data = mem[n].data, ![n].data = mem[cur].data]
  ELSE mem

SortCompares ==
  /\ op = "sort" /\ i < count /\ Compared
  /\ mem' = Swapped /\ cur' = mem[cur].next /\ j' = j + 1
  /\ UNCHANGED <<head, tail, find_data, count, items, op, key, i, result, got>>

SortPassEnds ==
  /\ op = "sort" /\ i < count /\ ~Compared
  /\ i' = i + 1 /\ j' = 0 /\ cur' = head
  /\ UNCHANGED <<structVars, op, key, result, got>>

SortEnds ==
  /\ op = "sort" /\ i >= count /\ Ends /\ UNCHANGED <<structVars, result, got>>
-----------------------------------------------------------------------------
Next ==
  \/ \E d \in Data : \/ dyna_push(d) \/ dyna_add_to_back(d)
                     \/ SearchBegins(d) \/ RemoveBegins(d)
  \/ dyna_pop \/ dyna_del_from_back \/ DelFromEmpty \/ DeleteFound
  \/ SearchPasses \/ SearchEnds
  \/ \E k \in 0..MaxItems : IndexBegins(k)
  \/ IndexPasses \/ IndexEnds
  \/ RemovePasses \/ RemoveDeletes \/ RemoveEnds
  \/ ClearBegins \/ ClearDeletes \/ ClearEnds
  \/ SortBegins \/ SortCompares \/ SortPassEnds \/ SortEnds

Spec == Init /\ [][Next]_vars
-----------------------------------------------------------------------------
\* Every operation leaves a list that is the same from both ends and has the
\* right number of items, and what it walks over is not freed, except the
\* item unblacklist_ip searches on from.
Linked ==
  LET n == Len(items) IN
  /\ count = n /\ IsInjective(items) /\ Live \subseteq Nodes
  /\ head = IF n = 0 THEN NULL ELSE items[1]
  /\ tail = IF n = 0 THEN NULL ELSE items[n]
  /\ \A k \in 1..n :
       /\ mem[items[k]].next = IF k = n THEN NULL ELSE items[k + 1]
       /\ mem[items[k]].prev = IF k = 1 THEN NULL ELSE items[k - 1]
  /\ cur # NULL => cur \in Live
  /\ op \in {"find", "remove"} /\ find_data # NULL => find_data \in Live

Sequence == INSTANCE DynaSeq WITH
  Data <- Data, MaxItems <- MaxItems,
  list <- [k \in DOMAIN items |-> mem[items[k]].data],
  found <- Position(result),
  got <- got,
  mode <- IF op \in {"find", "get"} THEN "calls" ELSE op

\* The linked list behaves like a sequence: each operation gives and leaves
\* what it would give and leave there.
ImplementsSequence == Sequence!SeqSpec
=============================================================================
