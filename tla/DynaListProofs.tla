--------------------------- MODULE DynaListProofs ---------------------------
(***************************************************************************)
(* Proofs about DynaList, for every set of data and any number of items:   *)
(* the pointers always form one list, and it behaves like a sequence.      *)
(***************************************************************************)
EXTENDS DynaList, TLAPS, SequenceTheorems

Pointers == Nodes \cup {NULL}
Cell == [data : Data \cup {None}, next : Pointers, prev : Pointers]

Ops == {"calls", "find", "get", "remove", "clear", "sort"}

\* The item at a place of the list, NULL before the first and after the last.
ItemAt(s, k) == IF k \in 1..Len(s) THEN s[k] ELSE NULL

Types ==
  /\ items \in Seq(Nodes) /\ mem \in [Nodes -> Cell] /\ op \in Ops
  /\ find_data \in Pointers /\ cur \in Pointers /\ result \in Pointers
  /\ key \in Nat /\ i \in Nat /\ j \in Nat

\* The pointers of f link the items of s, which hold data.
Links(s, f) ==
  \A k \in 1..Len(s) : /\ f[s[k]].next = ItemAt(s, k + 1)
                       /\ f[s[k]].prev = ItemAt(s, k - 1)
                       /\ f[s[k]].data \in Data

Struct ==
  /\ count = Len(items) /\ IsInjective(items) /\ Links(items, mem)
  /\ head = ItemAt(items, 1) /\ tail = ItemAt(items, Len(items))

\* What a search has passed does not match; a search that is over has passed
\* everything.
FindInv ==
  op \in {"find", "remove"} =>
    /\ key \in Data
    /\ \E m \in 1..(Len(items) + 1) :
         /\ find_data = ItemAt(items, m)
         /\ \A k \in 1..(m - 1) : mem[items[k]].data # key

\* An access by index has gone i steps.
GetInv == op = "get" => key \in 0..MaxItems /\ i =< key /\ cur = ItemAt(items, i + 1)

ClearInv == op = "clear" => cur = head

\* i passes of the sort have brought the last i items to their places, and the
\* pass that goes on carries the greatest item it has met.
Settled(k) == k > Len(items) - i \/ (k = Len(items) - i /\ j >= Len(items) - i - 1)

SortInv ==
  op = "sort" =>
    /\ i =< Len(items) /\ cur = ItemAt(items, j + 1)
    /\ j < Len(items) \/ j = 0
    /\ \A k, l \in 1..Len(items) :
         l < k /\ (Settled(k) \/ k = j + 1) => mem[items[l]].data =< mem[items[k]].data

\* Only a caller that still holds the list has a result of a search.
CallInv ==
  /\ op \notin {"get", "clear", "sort"} => cur = NULL
  /\ result # NULL => result \in Live /\ op \in {"calls", "find", "get"}

IInv == Types /\ Struct /\ FindInv /\ GetInv /\ ClearInv /\ SortInv /\ CallInv
-----------------------------------------------------------------------------
(* Operators on sequences of items.                                        *)

\* NULL is no item.
LEMMA NoNull == NULL \notin Nodes
BY DynaAssumption DEF NULL, Nodes

\* What is at a place of the list.
LEMMA Places ==
  ASSUME NEW s \in Seq(Nodes), NEW k \in Int
  PROVE  /\ Len(s) \in Nat /\ ItemAt(s, k) \in Pointers
         /\ ItemAt(s, k) = NULL <=> k \notin 1..Len(s)
         /\ k \in 1..Len(s) => s[k] \in Nodes
BY NoNull DEF ItemAt, Pointers

\* The items of a list have one place each.
LEMMA Distinct ==
  ASSUME NEW s \in Seq(Nodes), IsInjective(s)
  PROVE  /\ \A a, b \in 1..Len(s) : s[a] = s[b] => a = b
         /\ \A a \in 1..Len(s), b \in Int : s[a] = ItemAt(s, b) => a = b
<1>1. DOMAIN s = 1..Len(s)
  OBVIOUS
<1>2. \A a, b \in 1..Len(s) : s[a] = s[b] => a = b
  BY <1>1 DEF IsInjective
<1>3. ASSUME NEW a \in 1..Len(s), NEW b \in Int, s[a] = ItemAt(s, b) PROVE a = b
  <2>1. s[a] \in Nodes
    BY Places
  <2>2. b \in 1..Len(s)
    BY <1>3, <2>1, NoNull DEF ItemAt
  <2> QED
    BY <1>2, <1>3, <2>2 DEF ItemAt
<1> QED
  BY <1>2, <1>3

\* ... and a list whose items have one place each is injective.
LEMMA InjectiveIntro ==
  ASSUME NEW s \in Seq(Nodes), \A a, b \in 1..Len(s) : s[a] = s[b] => a = b
  PROVE  IsInjective(s)
<1>1. DOMAIN s = 1..Len(s)
  OBVIOUS
<1> QED
  BY <1>1 DEF IsInjective

\* Removing the element at place m.
LEMMA Removed ==
  ASSUME NEW S, NEW s \in Seq(S), NEW m \in 1..Len(s)
  PROVE  LET t == RemoveAt(s, m) IN
         /\ t \in Seq(S) /\ Len(t) = Len(s) - 1
         /\ \A k \in 1..Len(t) : t[k] = IF k < m THEN s[k] ELSE s[k + 1]
<1> DEFINE a == SubSeq(s, 1, m - 1)
           b == SubSeq(s, m + 1, Len(s))
<1>0. Len(s) \in Nat /\ m \in Nat
  OBVIOUS
<1>1. a \in Seq(S) /\ Len(a) = m - 1 /\ \A k \in 1..(m - 1) : a[k] = s[k]
  <2>1. \A k \in 1..(m - 1) : k \in 1..Len(s)
    BY <1>0
  <2> QED
    BY <1>0, <2>1
<1>2. b \in Seq(S) /\ Len(b) = Len(s) - m /\ \A k \in 1..(Len(s) - m) : b[k] = s[m + k]
  <2>1. \A k \in (m + 1)..Len(s) : k \in 1..Len(s)
    BY <1>0
  <2> QED
    BY <1>0, <2>1
<1>3. RemoveAt(s, m) = a \o b
  BY DEF RemoveAt
<1> HIDE DEF a, b
<1>4. a \o b \in Seq(S) /\ Len(a \o b) = Len(s) - 1
  <2>1. a \o b \in Seq(S) /\ Len(a \o b) = Len(a) + Len(b)
    BY <1>1, <1>2, ConcatProperties
  <2> QED
    BY <1>0, <1>1, <1>2, <2>1
<1>5. ASSUME NEW k \in 1..Len(a \o b)
      PROVE  (a \o b)[k] = IF k < m THEN s[k] ELSE s[k + 1]
  <2>1. CASE k < m
    BY <1>0, <1>1, <1>2, <1>4, <2>1
  <2>2. CASE ~(k < m)
    <3>1. k - (m - 1) \in 1..(Len(s) - m) /\ m + (k - (m - 1)) = k + 1
      BY <1>0, <1>4, <2>2
    <3>2. (a \o b)[k] = b[k - Len(a)]
      BY <1>0, <1>1, <1>2, <1>4, <2>2
    <3> QED
      BY <1>1, <1>2, <2>2, <3>1, <3>2
  <2> QED
    BY <2>1, <2>2
<1> QED
  BY <1>3, <1>4, <1>5

\* Adding one in front.
LEMMA Prepended ==
  ASSUME NEW S, NEW s \in Seq(S), NEW n \in S
  PROVE  LET t == <<n>> \o s IN
         /\ t \in Seq(S) /\ Len(t) = Len(s) + 1 /\ t[1] = n
         /\ \A k \in 2..Len(t) : t[k] = s[k - 1]
BY ConcatProperties

-----------------------------------------------------------------------------
(* The pointers after an insertion or a deletion.                          *)

\* dyna_push.
InFront(n, s) == <<n>> \o s
PushedMem(f, n, d, h) ==
  [k \in Nodes |-> IF k = n THEN [data |-> d, next |-> h, prev |-> NULL]
                   ELSE IF k = h THEN [f[k] EXCEPT !.prev = n] ELSE f[k]]

\* A new item in front of a linked list gives a linked list.
LEMMA LinksPushed ==
  ASSUME NEW s \in Seq(Nodes), NEW f \in [Nodes -> Cell], IsInjective(s), Links(s, f),
         NEW n \in Nodes, n \notin Range(s), NEW d \in Data, NEW h, h = ItemAt(s, 1)
  PROVE  LET t == InFront(n, s)
             g == PushedMem(f, n, d, h) IN
         /\ t \in Seq(Nodes) /\ g \in [Nodes -> Cell] /\ IsInjective(t) /\ Links(t, g)
         /\ Len(t) = Len(s) + 1 /\ t[1] = n /\ g[n].data = d
         /\ \A k \in 1..Len(s) : t[k + 1] = s[k] /\ g[s[k]].data = f[s[k]].data
<1> DEFINE t == InFront(n, s)
           g == PushedMem(f, n, d, h)
<1> USE DEF InFront, PushedMem
<1>0. Len(s) \in Nat /\ h \in Pointers /\ n # NULL
  BY Places, NoNull
<1>1. t \in Seq(Nodes) /\ Len(t) = Len(s) + 1 /\ t[1] = n /\ \A k \in 2..Len(t) : t[k] = s[k - 1]
  BY Prepended
<1>2. g \in [Nodes -> Cell]
  BY <1>0 DEF Cell, Pointers
<1>3. g[n] = [data |-> d, next |-> h, prev |-> NULL]
  OBVIOUS
<1>4. \A k \in 1..Len(s) : s[k] \in Nodes /\ s[k] # n /\ f[s[k]] \in Cell
  BY Places DEF Range
<1>5. \A k \in 1..Len(s) : s[k] = h <=> k = 1
  BY <1>0, Distinct DEF ItemAt
<1>6. ASSUME NEW k \in 1..Len(s)
      PROVE  /\ g[s[k]].next = f[s[k]].next /\ g[s[k]].data = f[s[k]].data
             /\ g[s[k]].prev = IF k = 1 THEN n ELSE f[s[k]].prev
  BY <1>4, <1>5 DEF Cell
<1> HIDE DEF t, g, InFront, PushedMem
<1>7. \A k \in 1..Len(s) : k + 1 \in 2..Len(t) /\ t[k + 1] = s[k]
  BY <1>0, <1>1
<1>8. \A a, b \in 1..Len(t) : t[a] = t[b] => a = b
  <2>1. \A a \in 1..Len(t) : a = 1 \/ (a - 1 \in 1..Len(s) /\ a \in 2..Len(t))
    BY <1>0, <1>1
  <2>2. \A a \in 1..Len(t) : a = 1 \/ (a - 1 \in 1..Len(s) /\ t[a] = s[a - 1])
    BY <1>1, <2>1
  <2>3. \A a, b \in 1..Len(s) : s[a] = s[b] => a = b
    BY Distinct
  <2>4. ASSUME NEW a \in 1..Len(t), NEW b \in 1..Len(t), t[a] = t[b] PROVE a = b
    <3>1. CASE a = 1 \/ b = 1
      BY <1>1, <1>4, <2>2, <2>4, <3>1
    <3>2. CASE a # 1 /\ b # 1
      <4>1. a - 1 = b - 1
        BY <2>2, <2>3, <2>4, <3>2
      <4> QED
        BY <4>1
    <3> QED
      BY <3>1, <3>2
  <2> QED
    BY <2>4
<1>9. IsInjective(t)
  BY <1>1, <1>8, InjectiveIntro
<1>10. ASSUME NEW k \in Int PROVE ItemAt(t, k + 1) = IF k = 0 THEN n ELSE ItemAt(s, k)
  <2>1. CASE k = 0
    BY <1>0, <1>1, <2>1 DEF ItemAt
  <2>2. CASE k \in 1..Len(s)
    BY <1>0, <1>1, <1>7, <2>2 DEF ItemAt
  <2>3. CASE k # 0 /\ k \notin 1..Len(s)
    <3>1. k + 1 \notin 1..Len(t)
      BY <1>0, <1>1, <2>3
    <3> QED
      BY <2>3, <3>1 DEF ItemAt
  <2> QED
    BY <2>1, <2>2, <2>3
<1>11. ASSUME NEW k \in 1..Len(t)
       PROVE  /\ g[t[k]].next = ItemAt(t, k + 1) /\ g[t[k]].prev = ItemAt(t, k - 1)
              /\ g[t[k]].data \in Data
  <2>1. CASE k = 1
    <3>1. ItemAt(t, 1 + 1) = h /\ ItemAt(t, 1 - 1) = NULL
      BY <1>0, <1>1, <1>10 DEF ItemAt
    <3> QED
      BY <1>1, <1>3, <2>1, <3>1
  <2>2. CASE k # 1
    <3> DEFINE q == k - 1
    <3>1. q \in 1..Len(s) /\ k = q + 1 /\ t[k] = s[q] /\ q \in Int /\ q - 1 \in Int /\ q # 0
      BY <1>0, <1>1, <1>7, <2>2
    <3>2. /\ f[s[q]].next = ItemAt(s, q + 1) /\ f[s[q]].prev = ItemAt(s, q - 1)
          /\ f[s[q]].data \in Data
      BY <3>1 DEF Links
    <3>3. ItemAt(t, k + 1) = ItemAt(s, q + 1)
      <4>1. q + 1 \in Int /\ q + 1 # 0
        BY <3>1
      <4>2. ItemAt(t, (q + 1) + 1) = ItemAt(s, q + 1)
        BY <1>10, <4>1
      <4> QED
        BY <3>1, <4>2
    <3>4. ItemAt(t, k - 1) = IF q = 1 THEN n ELSE ItemAt(s, q - 1)
      <4>1. ItemAt(t, (q - 1) + 1) = IF q - 1 = 0 THEN n ELSE ItemAt(s, q - 1)
        BY <1>10, <3>1
      <4>2. (q - 1) + 1 = k - 1 /\ (q - 1 = 0 <=> q = 1)
        BY <3>1
      <4> QED
        BY <4>1, <4>2
    <3> HIDE DEF q
    <3>5. /\ g[s[q]].next = f[s[q]].next /\ g[s[q]].data = f[s[q]].data
          /\ g[s[q]].prev = IF q = 1 THEN n ELSE f[s[q]].prev
      BY <1>6, <3>1
    <3> QED
      BY ONLY <3>1, <3>2, <3>3, <3>4, <3>5
  <2> QED
    BY <2>1, <2>2
<1>12. Links(t, g)
  BY <1>11 DEF Links
<1> QED
  BY <1>1, <1>2, <1>3, <1>6, <1>7, <1>9, <1>12 DEF t, g

\* dyna_add_to_back.
AtBack(s, n) == Append(s, n)
AddedMem(f, n, d, l) ==
  [k \in Nodes |-> IF k = n THEN [data |-> d, next |-> NULL, prev |-> l]
                   ELSE IF k = l THEN [f[k] EXCEPT !.next = n] ELSE f[k]]

\* So does one at its end.
LEMMA LinksAdded ==
  ASSUME NEW s \in Seq(Nodes), NEW f \in [Nodes -> Cell], IsInjective(s), Links(s, f),
         NEW n \in Nodes, n \notin Range(s), NEW d \in Data, NEW l, l = ItemAt(s, Len(s))
  PROVE  LET t == AtBack(s, n)
             g == AddedMem(f, n, d, l) IN
         /\ t \in Seq(Nodes) /\ g \in [Nodes -> Cell] /\ IsInjective(t) /\ Links(t, g)
         /\ Len(t) = Len(s) + 1 /\ t[Len(s) + 1] = n /\ g[n].data = d
         /\ \A k \in 1..Len(s) : t[k] = s[k] /\ g[s[k]].data = f[s[k]].data
<1> DEFINE t == AtBack(s, n)
           g == AddedMem(f, n, d, l)
<1> USE DEF AtBack, AddedMem
<1>0. Len(s) \in Nat /\ l \in Pointers /\ n # NULL
  BY Places, NoNull
<1>1. t \in Seq(Nodes) /\ Len(t) = Len(s) + 1 /\ t[Len(s) + 1] = n
      /\ \A k \in 1..Len(s) : t[k] = s[k]
  OBVIOUS
<1>2. g \in [Nodes -> Cell]
  BY <1>0 DEF Cell, Pointers
<1>3. g[n] = [data |-> d, next |-> NULL, prev |-> l]
  OBVIOUS
<1>4. \A k \in 1..Len(s) : s[k] \in Nodes /\ s[k] # n /\ f[s[k]] \in Cell
  BY Places DEF Range
<1>5. \A k \in 1..Len(s) : s[k] = l <=> k = Len(s)
  BY <1>0, Distinct DEF ItemAt
<1>6. ASSUME NEW k \in 1..Len(s)
      PROVE  /\ g[s[k]].prev = f[s[k]].prev /\ g[s[k]].data = f[s[k]].data
             /\ g[s[k]].next = IF k = Len(s) THEN n ELSE f[s[k]].next
  BY <1>4, <1>5 DEF Cell
<1> HIDE DEF t, g, AtBack, AddedMem
<1>8. \A a, b \in 1..Len(t) : t[a] = t[b] => a = b
  <2>2. \A a \in 1..Len(t) : a = Len(s) + 1 \/ (a \in 1..Len(s) /\ t[a] = s[a])
    BY <1>0, <1>1
  <2>3. \A a, b \in 1..Len(s) : s[a] = s[b] => a = b
    BY Distinct
  <2> QED
    BY <1>1, <1>4, <2>2, <2>3
<1>9. IsInjective(t)
  BY <1>1, <1>8, InjectiveIntro
<1>10. ASSUME NEW k \in Int PROVE ItemAt(t, k) = IF k = Len(s) + 1 THEN n ELSE ItemAt(s, k)
  <2>1. CASE k = Len(s) + 1
    BY <1>0, <1>1, <2>1 DEF ItemAt
  <2>2. CASE k # Len(s) + 1
    <3>1. k \in 1..Len(t) <=> k \in 1..Len(s)
      BY <1>0, <1>1, <2>2
    <3> QED
      BY <1>1, <2>2, <3>1 DEF ItemAt
  <2> QED
    BY <2>1, <2>2
<1>11. ASSUME NEW k \in 1..Len(t)
       PROVE  /\ g[t[k]].next = ItemAt(t, k + 1) /\ g[t[k]].prev = ItemAt(t, k - 1)
              /\ g[t[k]].data \in Data
  <2>1. CASE k = Len(s) + 1
    <3>1. k + 1 \notin 1..Len(t) /\ k - 1 = Len(s) /\ k - 1 # Len(s) + 1 /\ k - 1 \in Int
      BY <1>0, <1>1, <2>1
    <3>2. ItemAt(t, k + 1) = NULL /\ ItemAt(t, k - 1) = l
      BY <1>10, <3>1 DEF ItemAt
    <3> QED
      BY <1>1, <1>3, <2>1, <3>2
  <2>2. CASE k # Len(s) + 1
    <3>1. /\ k \in 1..Len(s) /\ k + 1 \in Int /\ k - 1 \in Int /\ k - 1 # Len(s) + 1
          /\ k + 1 = Len(s) + 1 <=> k = Len(s)
      BY <1>0, <1>1, <2>2
    <3>2. /\ f[s[k]].next = ItemAt(s, k + 1) /\ f[s[k]].prev = ItemAt(s, k - 1)
          /\ f[s[k]].data \in Data
      BY <3>1 DEF Links
    <3> QED
      BY <1>1, <1>6, <1>10, <3>1, <3>2
  <2> QED
    BY <2>1, <2>2
<1>12. Links(t, g)
  BY <1>11 DEF Links
<1> QED
  BY <1>1, <1>2, <1>3, <1>6, <1>9, <1>12 DEF t, g

\* Where the items are after the one at place m is removed.
LEMMA RemovedPlaces ==
  ASSUME NEW s \in Seq(Nodes), NEW m \in 1..Len(s), NEW k \in Int
  PROVE  LET t == RemoveAt(s, m) IN
         ItemAt(t, k) = IF k < m THEN ItemAt(s, k) ELSE ItemAt(s, k + 1)
<1> DEFINE t == RemoveAt(s, m)
<1>1. /\ Len(s) \in Nat /\ m \in Nat /\ Len(t) = Len(s) - 1
      /\ \A q \in 1..Len(t) : t[q] = IF q < m THEN s[q] ELSE s[q + 1]
  BY Removed
<1> HIDE DEF t
<1>2. k < m => (k \in 1..Len(t) <=> k \in 1..Len(s))
  BY <1>1
<1>3. ~(k < m) => (k \in 1..Len(t) <=> k + 1 \in 1..Len(s))
  BY <1>1
<1> QED
  BY <1>1, <1>2, <1>3 DEF ItemAt, t

\* dyna_delete.
LEMMA LinksRemoved ==
  ASSUME NEW s \in Seq(Nodes), NEW f \in [Nodes -> Cell], IsInjective(s), Links(s, f),
         NEW m \in 1..Len(s), NEW n, n = s[m]
  PROVE  LET t == RemoveAt(s, m)
             g == [k \in Nodes |->
                     IF k = f[n].next THEN [f[k] EXCEPT !.prev = f[n].prev]
                     ELSE IF k = f[n].prev THEN [f[k] EXCEPT !.next = f[n].next]
                     ELSE f[k]] IN
         /\ t \in Seq(Nodes) /\ g \in [Nodes -> Cell] /\ IsInjective(t) /\ Links(t, g)
         /\ \A k \in Nodes : g[k].data = f[k].data
<1> DEFINE t == RemoveAt(s, m)
           g == [k \in Nodes |->
                   IF k = f[n].next THEN [f[k] EXCEPT !.prev = f[n].prev]
                   ELSE IF k = f[n].prev THEN [f[k] EXCEPT !.next = f[n].next]
                   ELSE f[k]]
           nx == ItemAt(s, m + 1)
           pv == ItemAt(s, m - 1)
<1>0. /\ Len(s) \in Nat /\ m \in Nat /\ m + 1 \in Int /\ m - 1 \in Int
      /\ f[n].next = nx /\ f[n].prev = pv
  BY DEF Links
<1>1. /\ t \in Seq(Nodes) /\ Len(t) = Len(s) - 1
      /\ \A k \in 1..Len(t) : t[k] = IF k < m THEN s[k] ELSE s[k + 1]
  BY Removed
<1>2. nx \in Pointers /\ pv \in Pointers
  BY <1>0, Places
<1>3. g \in [Nodes -> Cell] /\ \A k \in Nodes : g[k].data = f[k].data
  <2>1. \A k \in Nodes : f[k] \in Cell
    OBVIOUS
  <2>2. f[n].next \in Pointers /\ f[n].prev \in Pointers
    BY <1>0, <1>2
  <2> QED
    BY <2>1, <2>2 DEF Cell
<1>4. \A k \in 1..Len(s) : s[k] \in Nodes /\ f[s[k]] \in Cell
  BY Places
<1>5. \A k \in 1..Len(s) : (s[k] = nx <=> k = m + 1) /\ (s[k] = pv <=> k = m - 1)
  BY <1>0, Distinct DEF ItemAt
<1>6. ASSUME NEW k \in 1..Len(s), k # m
      PROVE  /\ g[s[k]].prev = IF k = m + 1 THEN pv ELSE f[s[k]].prev
             /\ g[s[k]].next = IF k = m - 1 THEN nx ELSE f[s[k]].next
  <2>1. m + 1 # m - 1
    BY <1>0
  <2> QED
    BY <1>0, <1>4, <1>5, <2>1 DEF Cell
<1> DEFINE Old(k) == IF k < m THEN k ELSE k + 1
<1>7. \A k \in 1..Len(t) : /\ Old(k) \in 1..Len(s) /\ Old(k) # m /\ t[k] = s[Old(k)]
  BY <1>0, <1>1
<1>8. \A a, b \in 1..Len(t) : t[a] = t[b] => a = b
  <2>1. \A a, b \in 1..Len(s) : s[a] = s[b] => a = b
    BY Distinct
  <2>2. ASSUME NEW a \in 1..Len(t), NEW b \in 1..Len(t), t[a] = t[b] PROVE a = b
    <3>1. Old(a) = Old(b)
      BY <1>7, <2>1, <2>2
    <3> QED
      BY <1>0, <1>1, <3>1
  <2> QED
    BY <2>2
<1>9. IsInjective(t)
  BY <1>1, <1>8, InjectiveIntro
<1>10. \A k \in Int : ItemAt(t, k) = IF k < m THEN ItemAt(s, k) ELSE ItemAt(s, k + 1)
  BY RemovedPlaces
<1> HIDE DEF t, g
<1>11. ASSUME NEW k \in 1..Len(t)
       PROVE  /\ g[t[k]].next = ItemAt(t, k + 1) /\ g[t[k]].prev = ItemAt(t, k - 1)
              /\ g[t[k]].data \in Data
  <2> DEFINE q == Old(k)
  <2>1. q \in 1..Len(s) /\ q # m /\ t[k] = s[q]
    BY <1>7
  <2>2. /\ f[s[q]].next = ItemAt(s, q + 1) /\ f[s[q]].prev = ItemAt(s, q - 1)
        /\ f[s[q]].data \in Data
    BY <2>1 DEF Links
  <2>3. /\ g[s[q]].prev = IF q = m + 1 THEN pv ELSE ItemAt(s, q - 1)
        /\ g[s[q]].next = IF q = m - 1 THEN nx ELSE ItemAt(s, q + 1)
        /\ g[s[q]].data \in Data
    BY <1>3, <1>4, <1>6, <2>1, <2>2
  <2>4. k \in Int /\ k + 1 \in Int /\ k - 1 \in Int /\ k + 1 + 1 \in Int
    BY <1>0, <1>1
  <2>5. ItemAt(t, k + 1) = IF q = m - 1 THEN nx ELSE ItemAt(s, q + 1)
    <3>1. CASE k < m - 1
      <4>1. q = k /\ k + 1 < m
        BY <1>0, <2>4, <3>1
      <4> QED
        BY <1>0, <1>10, <2>4, <3>1, <4>1
    <3>2. CASE k = m - 1
      <4>1. q = k /\ ~(k + 1 < m) /\ k + 1 + 1 = m + 1
        BY <1>0, <2>4, <3>2
      <4> QED
        BY <1>0, <1>10, <2>4, <3>2, <4>1
    <3>3. CASE k > m - 1
      <4>1. q = k + 1 /\ ~(k + 1 < m) /\ q # m - 1
        BY <1>0, <2>4, <3>3
      <4> QED
        BY <1>0, <1>10, <2>4, <3>3, <4>1
    <3> QED
      BY <1>0, <2>4, <3>1, <3>2, <3>3
  <2>6. ItemAt(t, k - 1) = IF q = m + 1 THEN pv ELSE ItemAt(s, q - 1)
    <3>1. CASE k < m
      <4>1. q = k /\ k - 1 < m /\ q # m + 1
        BY <1>0, <2>4, <3>1
      <4> QED
        BY <1>0, <1>10, <2>4, <3>1, <4>1
    <3>2. CASE k = m
      <4>1. q = m + 1 /\ k - 1 < m /\ k - 1 = m - 1
        BY <1>0, <2>4, <3>2
      <4> QED
        BY <1>0, <1>10, <2>4, <3>2, <4>1
    <3>3. CASE k > m
      <4>1. q = k + 1 /\ ~(k - 1 < m) /\ q # m + 1 /\ (k - 1) + 1 = q - 1
        BY <1>0, <2>4, <3>3
      <4> QED
        BY <1>0, <1>10, <2>4, <3>3, <4>1
    <3> QED
      BY <1>0, <2>4, <3>1, <3>2, <3>3
  <2> QED
    BY <2>1, <2>3, <2>5, <2>6
<1>12. Links(t, g)
  BY <1>11 DEF Links
<1> QED
  BY <1>1, <1>3, <1>9, <1>12 DEF t, g

-----------------------------------------------------------------------------
(* Items and their places.                                                 *)

\* Position is where the item is.
LEMMA PositionOf ==
  ASSUME Types, Struct
  PROVE  /\ DOMAIN items = 1..Len(items) /\ Len(items) \in Nat
         /\ Live \subseteq Nodes /\ Position(NULL) = 0
         /\ \A m \in 1..Len(items) : items[m] \in Live /\ Position(items[m]) = m
         /\ \A n : n \in Live <=> \E m \in 1..Len(items) : n = items[m]
<1>1. items \in Seq(Nodes) /\ DOMAIN items = 1..Len(items) /\ Len(items) \in Nat
  BY DEF Types
<1>2. \A n : n \in Live <=> \E m \in 1..Len(items) : n = items[m]
  BY <1>1 DEF Live, Range
<1>3. Live \subseteq Nodes
  BY <1>1, <1>2, Places
<1>4. Position(NULL) = 0
  BY <1>3, NoNull DEF Position
<1>5. ASSUME NEW m \in 1..Len(items)
      PROVE  items[m] \in Live /\ Position(items[m]) = m
  <2>1. items[m] \in Live
    BY <1>2
  <2>2. \A k \in DOMAIN items : items[k] = items[m] <=> k = m
    BY <1>1, Distinct DEF Struct
  <2> QED
    BY <1>1, <2>1, <2>2 DEF Position
<1> QED
  BY <1>1, <1>2, <1>3, <1>4, <1>5

\* The empty list of dyna_create.
LEMMA Initially == Init => IInv
<1> SUFFICES ASSUME Init PROVE IInv
  OBVIOUS
<1>1. items = <<>> /\ items \in Seq(Nodes) /\ Len(items) = 0
  BY DEF Init
<1>2. Types
  <2>1. mem \in [Nodes -> Cell]
    BY DEF Init, Cell, Pointers
  <2>2. key \in Nat /\ i \in Nat /\ j \in Nat
    BY DEF Init, None
  <2>3. op \in Ops
    BY DEF Init, Ops
  <2>4. find_data \in Pointers /\ cur \in Pointers /\ result \in Pointers
    BY DEF Init, Pointers
  <2> QED
    BY <1>1, <2>1, <2>2, <2>3, <2>4 DEF Types
<1>3. IsInjective(items)
  <2>1. \A a, b \in 1..Len(items) : items[a] = items[b] => a = b
    BY <1>1
  <2> QED
    BY <1>1, <2>1, InjectiveIntro
<1>4. Struct
  BY <1>1, <1>3 DEF Init, Struct, Links, ItemAt
<1> QED
  BY <1>2, <1>4 DEF Init, IInv, FindInv, GetInv, ClearInv, SortInv, CallInv

\* A step of the caller that leaves no operation under way.
LEMMA CallerKeeps ==
  ASSUME Types', Struct', (op = "calls")', (cur = NULL)', (result # NULL => result \in Live)'
  PROVE  IInv'
BY DEF IInv, FindInv, GetInv, ClearInv, SortInv, CallInv

\* dyna_delete leaves a list when the caller has moved the end it deletes at,
\* and when it has not.
LEMMA Deletion ==
  ASSUME Types, Struct, NEW m \in 1..Len(items), NEW n, NEW h, NEW l,
         n = items[m], dyna_delete(n, h, l),
         h = head \/ (m = 1 /\ h = mem[n].next),
         l = tail \/ (m = Len(items) /\ l = mem[n].prev)
  PROVE  /\ items' = RemoveAt(items, m) /\ items' \in Seq(Nodes)
         /\ Len(items') = Len(items) - 1 /\ Struct' /\ mem' \in [Nodes -> Cell]
         /\ \A k \in 1..Len(items') : items'[k] = IF k < m THEN items[k] ELSE items[k + 1]
         /\ \A k \in Int : ItemAt(items', k) = IF k < m THEN ItemAt(items, k)
                                               ELSE ItemAt(items, k + 1)
         /\ \A k \in Nodes : mem'[k].data = mem[k].data
<1>1. /\ items \in Seq(Nodes) /\ mem \in [Nodes -> Cell] /\ IsInjective(items)
      /\ Links(items, mem) /\ Len(items) \in Nat
  BY DEF Types, Struct
<1>2. items' = RemoveAt(items, m)
  BY PositionOf DEF dyna_delete
<1>3. /\ items' \in Seq(Nodes) /\ mem' \in [Nodes -> Cell] /\ IsInjective(items')
      /\ Links(items', mem') /\ \A k \in Nodes : mem'[k].data = mem[k].data
  BY <1>1, <1>2, LinksRemoved DEF dyna_delete, Unlinked
<1>4. /\ Len(items') = Len(items) - 1
      /\ \A k \in 1..Len(items') : items'[k] = IF k < m THEN items[k] ELSE items[k + 1]
  BY <1>1, <1>2, Removed
<1>5. \A k \in Int : ItemAt(items', k) = IF k < m THEN ItemAt(items, k)
                                         ELSE ItemAt(items, k + 1)
  BY <1>1, <1>2, RemovedPlaces
<1>6. mem[n].next = ItemAt(items, m + 1) /\ mem[n].prev = ItemAt(items, m - 1)
  BY <1>1 DEF Links
<1>7. n = ItemAt(items, m) /\ n # NULL
  BY <1>1, Places, NoNull DEF ItemAt
<1>12. \A b \in Int : n = ItemAt(items, b) => m = b
  BY <1>1, Distinct
<1>8. head' = ItemAt(items', 1)
  <2>1. ItemAt(items', 1) = IF m = 1 THEN ItemAt(items, 2) ELSE ItemAt(items, 1)
    BY <1>5
  <2>2. head = ItemAt(items, 1) /\ head' = IF n = h THEN mem[n].next ELSE h
    BY DEF Struct, dyna_delete
  <2>3. CASE m = 1
    <3>1. h = head => n = h
      BY <1>7, <2>2, <2>3
    <3> QED
      BY <1>6, <2>1, <2>2, <2>3, <3>1
  <2>4. CASE m # 1
    <3>1. h = ItemAt(items, 1) /\ n # h
      BY <1>7, <1>12, <2>2, <2>4
    <3> QED
      BY <2>1, <2>2, <2>4, <3>1
  <2> QED
    BY <2>3, <2>4
<1>9. tail' = ItemAt(items', Len(items'))
  <2>1. /\ Len(items') \in Int /\ Len(items') + 1 = Len(items)
        /\ Len(items') < m <=> m = Len(items)
    BY <1>1, <1>4
  <2>2. ItemAt(items', Len(items')) = IF m = Len(items) THEN ItemAt(items, m - 1)
                                      ELSE ItemAt(items, Len(items))
    BY <1>4, <1>5, <2>1
  <2>3. tail = ItemAt(items, Len(items)) /\ tail' = IF n = l THEN mem[n].prev ELSE l
    BY DEF Struct, dyna_delete
  <2>4. CASE m = Len(items)
    <3>1. l = tail => n = l
      BY <1>7, <2>3, <2>4
    <3> QED
      BY <1>6, <2>2, <2>3, <2>4, <3>1
  <2>5. CASE m # Len(items)
    <3>1. l = ItemAt(items, Len(items)) /\ n # l
      BY <1>1, <1>7, <1>12, <2>3, <2>5
    <3> QED
      BY <2>2, <2>3, <2>5, <3>1
  <2> QED
    BY <2>4, <2>5
<1>10. count' = Len(items')
  BY <1>4 DEF dyna_delete, Struct
<1>11. Struct'
  BY <1>3, <1>8, <1>9, <1>10 DEF Struct
<1> QED
  BY <1>2, <1>3, <1>4, <1>5, <1>11

-----------------------------------------------------------------------------
(* Each action keeps the invariant.                                        *)

\* An operation that only walks leaves the list as it is.
LEMMA ListKept ==
  ASSUME Types, Struct, UNCHANGED <<head, tail, count, mem, items>>
  PROVE  Struct' /\ Live' = Live /\ items' \in Seq(Nodes) /\ mem' \in [Nodes -> Cell]
BY DEF Types, Struct, Live

\* A pointer to an item is followed to the next place.
LEMMA Followed ==
  ASSUME Types, Struct, NEW m \in Nat, ItemAt(items, m) # NULL
  PROVE  /\ m \in 1..Len(items) /\ ItemAt(items, m) = items[m] /\ items[m] \in Nodes
         /\ mem[items[m]].next = ItemAt(items, m + 1)
         /\ mem[items[m]].prev = ItemAt(items, m - 1)
         /\ mem[items[m]].next \in Pointers
<1>1. items \in Seq(Nodes) /\ Len(items) \in Nat
  BY DEF Types
<1>2. m \in 1..Len(items)
  BY <1>1 DEF ItemAt
<1>3. items[m] \in Nodes /\ ItemAt(items, m + 1) \in Pointers
  BY <1>1, <1>2, Places
<1> QED
  BY <1>2, <1>3 DEF ItemAt, Struct, Links

\* dyna_push keeps the invariant: the pointers of the old head are mended.
LEMMA PushKeeps == ASSUME IInv, NEW d \in Data, dyna_push(d) PROVE IInv'
<1>1. Types /\ Struct /\ cur = NULL
  BY DEF IInv, CallInv, dyna_push, Idle
<1>2. PICK n \in Nodes \ Live :
        /\ mem' = [k \in Nodes |->
                     IF k = n THEN [data |-> d, next |-> head, prev |-> NULL]
                     ELSE IF k = head THEN [mem[k] EXCEPT !.prev = n] ELSE mem[k]]
        /\ head' = n /\ tail' = IF tail = NULL THEN n ELSE tail
        /\ items' = <<n>> \o items
  BY DEF dyna_push
<1>3. /\ items \in Seq(Nodes) /\ mem \in [Nodes -> Cell] /\ IsInjective(items)
      /\ Links(items, mem) /\ head = ItemAt(items, 1) /\ n \in Nodes \ Range(items)
      /\ Len(items) \in Nat /\ tail = ItemAt(items, Len(items)) /\ count = Len(items)
  BY <1>1 DEF Types, Struct, Live
<1>4. /\ items' \in Seq(Nodes) /\ mem' \in [Nodes -> Cell] /\ IsInjective(items')
      /\ Links(items', mem') /\ Len(items') = Len(items) + 1 /\ items'[1] = n
      /\ \A k \in 1..Len(items) : items'[k + 1] = items[k]
  <2>1. items' = InFront(n, items) /\ mem' = PushedMem(mem, n, d, head)
    BY <1>2 DEF InFront, PushedMem
  <2>2. n \notin Range(items)
    BY <1>3
  <2> QED
    BY <1>3, <2>1, <2>2, LinksPushed
<1>5. head' = ItemAt(items', 1)
  BY <1>2, <1>3, <1>4 DEF ItemAt
<1>6. tail' = ItemAt(items', Len(items'))
  <2>1. tail = NULL <=> Len(items) = 0
    BY <1>3, Places
  <2>2. Len(items) # 0 => tail = items[Len(items)] /\ items'[Len(items) + 1] = items[Len(items)]
    BY <1>3, <1>4 DEF ItemAt
  <2>3. Len(items') \in 1..Len(items')
    BY <1>3, <1>4
  <2> QED
    BY <1>2, <1>4, <2>1, <2>2, <2>3 DEF ItemAt
<1>7. count' = Len(items')
  BY <1>3, <1>4 DEF dyna_push
<1>8. Struct'
  BY <1>4, <1>5, <1>6, <1>7 DEF Struct
<1>9. Types'
  BY <1>1, <1>4 DEF Types, dyna_push, localVars, Pointers
<1>10. (op = "calls" /\ cur = NULL /\ result = NULL)'
  BY <1>1 DEF dyna_push, localVars, Idle
<1> QED
  BY <1>8, <1>9, <1>10, CallerKeeps

\* So does dyna_add_to_back, with the old tail.
LEMMA AddKeeps == ASSUME IInv, NEW d \in Data, dyna_add_to_back(d) PROVE IInv'
<1>1. Types /\ Struct /\ cur = NULL
  BY DEF IInv, CallInv, dyna_add_to_back, Idle
<1>2. PICK n \in Nodes \ Live :
        /\ mem' = [k \in Nodes |->
                     IF k = n THEN [data |-> d, next |-> NULL, prev |-> tail]
                     ELSE IF k = tail THEN [mem[k] EXCEPT !.next = n] ELSE mem[k]]
        /\ tail' = n /\ head' = IF tail = NULL THEN n ELSE head
        /\ items' = Append(items, n)
  BY DEF dyna_add_to_back
<1>3. /\ items \in Seq(Nodes) /\ mem \in [Nodes -> Cell] /\ IsInjective(items)
      /\ Links(items, mem) /\ head = ItemAt(items, 1) /\ n \in Nodes \ Range(items)
      /\ Len(items) \in Nat /\ tail = ItemAt(items, Len(items)) /\ count = Len(items)
  BY <1>1 DEF Types, Struct, Live
<1>4. /\ items' \in Seq(Nodes) /\ mem' \in [Nodes -> Cell] /\ IsInjective(items')
      /\ Links(items', mem') /\ Len(items') = Len(items) + 1 /\ items'[Len(items) + 1] = n
      /\ \A k \in 1..Len(items) : items'[k] = items[k]
  <2>1. items' = AtBack(items, n) /\ mem' = AddedMem(mem, n, d, tail)
    BY <1>2 DEF AtBack, AddedMem
  <2>2. n \notin Range(items)
    BY <1>3
  <2> QED
    BY <1>3, <2>1, <2>2, LinksAdded
<1>5. head' = ItemAt(items', 1)
  <2>1. tail = NULL <=> Len(items) = 0
    BY <1>3, Places
  <2>2. Len(items) # 0 => head = items[1] /\ items'[1] = items[1]
    BY <1>3, <1>4 DEF ItemAt
  <2>3. 1 \in 1..Len(items')
    BY <1>3, <1>4
  <2> QED
    BY <1>2, <1>4, <2>1, <2>2, <2>3 DEF ItemAt
<1>6. tail' = ItemAt(items', Len(items'))
  BY <1>2, <1>3, <1>4 DEF ItemAt
<1>7. count' = Len(items')
  BY <1>3, <1>4 DEF dyna_add_to_back
<1>8. Struct'
  BY <1>4, <1>5, <1>6, <1>7 DEF Struct
<1>9. Types'
  BY <1>1, <1>4 DEF Types, dyna_add_to_back, localVars, Pointers
<1>10. (op = "calls" /\ cur = NULL /\ result = NULL)'
  BY <1>1 DEF dyna_add_to_back, localVars, Idle
<1> QED
  BY <1>8, <1>9, <1>10, CallerKeeps

\* A deletion between two calls, at the place m.
LEMMA CallerDeletes ==
  ASSUME IInv, Idle, NEW m \in 1..Len(items), NEW n, NEW h, NEW l,
         n = items[m], dyna_delete(n, h, l),
         h = head \/ (m = 1 /\ h = mem[n].next),
         l = tail \/ (m = Len(items) /\ l = mem[n].prev),
         result' = NULL, UNCHANGED <<find_data, localVars>>
  PROVE  IInv'
<1>1. Types /\ Struct /\ cur = NULL
  BY DEF IInv, CallInv, Idle
<1>2. Struct' /\ items' \in Seq(Nodes) /\ mem' \in [Nodes -> Cell]
  BY <1>1, Deletion
<1>3. Types'
  BY <1>1, <1>2 DEF Types, localVars, Pointers
<1>4. (op = "calls" /\ cur = NULL /\ result = NULL)'
  BY <1>1 DEF localVars, Idle
<1> QED
  BY <1>2, <1>3, <1>4, CallerKeeps

\* What the two ends and a found item are.
LEMMA Deleted ==
  ASSUME IInv
  PROVE  /\ dyna_pop => 1 \in 1..Len(items) /\ head = items[1]
         /\ dyna_del_from_back => Len(items) \in 1..Len(items) /\ tail = items[Len(items)]
         /\ DeleteFound => \E m \in 1..Len(items) : result = items[m]
<1>1. Types /\ Struct /\ Len(items) \in Nat /\ count = Len(items)
  <2>1. Types /\ Struct
    BY DEF IInv
  <2>2. Len(items) \in Nat
    BY <2>1, PositionOf
  <2> QED
    BY <2>1, <2>2 DEF Struct
<1>2. count # 0 => 1 \in 1..Len(items) /\ Len(items) \in 1..Len(items)
  BY <1>1
<1>3. DeleteFound => result \in Live
  BY DEF DeleteFound, IInv, CallInv
<1> QED
  BY <1>1, <1>2, <1>3, PositionOf DEF Struct, ItemAt, dyna_pop, dyna_del_from_back

\* The deletions by a caller keep it, whichever end was moved before.
LEMMA DeleteKeeps ==
  ASSUME IInv, dyna_pop \/ dyna_del_from_back \/ DeleteFound PROVE IInv'
<1>1. CASE dyna_pop
  <2>1. PICK n : n = head
    OBVIOUS
  <2>2. PICK h : h = mem[n].next
    OBVIOUS
  <2>3. PICK l : l = tail
    OBVIOUS
  <2>4. 1 \in 1..Len(items) /\ n = items[1]
    BY <1>1, <2>1, Deleted
  <2>5. Idle /\ result' = NULL /\ dyna_delete(n, h, l) /\ UNCHANGED <<find_data, localVars>>
    BY <1>1, <2>1, <2>2, <2>3 DEF dyna_pop, dyna_delete, Unlinked
  <2> QED
    BY <2>2, <2>3, <2>4, <2>5, CallerDeletes
<1>2. CASE dyna_del_from_back
  <2>1. PICK n : n = tail
    OBVIOUS
  <2>2. PICK l : l = mem[n].prev
    OBVIOUS
  <2>3. PICK h : h = head
    OBVIOUS
  <2>4. Len(items) \in 1..Len(items) /\ n = items[Len(items)]
    BY <1>2, <2>1, Deleted
  <2>5. Idle /\ result' = NULL /\ dyna_delete(n, h, l) /\ UNCHANGED <<find_data, localVars>>
    BY <1>2, <2>1, <2>2, <2>3 DEF dyna_del_from_back, dyna_delete, Unlinked
  <2>6. PICK m : m = Len(items)
    OBVIOUS
  <2> QED
    BY <2>2, <2>3, <2>4, <2>5, <2>6, CallerDeletes
<1>3. CASE DeleteFound
  <2>1. PICK n : n = result
    OBVIOUS
  <2>2. PICK l : l = tail
    OBVIOUS
  <2>3. PICK h : h = head
    OBVIOUS
  <2>4. PICK m \in 1..Len(items) : n = items[m]
    BY <1>3, <2>1, Deleted
  <2>5. Idle /\ result' = NULL /\ dyna_delete(n, h, l) /\ UNCHANGED <<find_data, localVars>>
    BY <1>3, <2>1, <2>2, <2>3 DEF DeleteFound, dyna_delete, Unlinked
  <2> QED
    BY <2>2, <2>3, <2>4, <2>5, CallerDeletes
<1> QED
  BY <1>1, <1>2, <1>3

\* A removal from an empty list changes nothing.
LEMMA EmptyKeeps == ASSUME IInv, DelFromEmpty PROVE IInv'
<1>1. UNCHANGED <<head, tail, find_data, count, mem, items, op, key, cur, i, j, result>>
  BY DEF DelFromEmpty, structVars, localVars
<1> QED
  BY <1>1 DEF IInv, Types, Struct, FindInv, GetInv, ClearInv, SortInv, Settled,
     CallInv, Live

\* A search, for dyna_search or unblacklist_ip, goes on.
LEMMA PassKeeps == ASSUME IInv, SearchPasses \/ RemovePasses PROVE IInv'
<1>1. /\ Types /\ Struct /\ op \in {"find", "remove"} /\ find_data # NULL
      /\ mem[find_data].data # key /\ find_data' = mem[find_data].next
      /\ UNCHANGED <<head, tail, count, mem, items, op, key, cur, i, j, result>>
  BY DEF IInv, SearchPasses, RemovePasses, localVars
<1>2. PICK m \in 1..(Len(items) + 1) :
        find_data = ItemAt(items, m) /\ \A k \in 1..(m - 1) : mem[items[k]].data # key
  BY <1>1 DEF IInv, FindInv
<1>3. Len(items) \in Nat /\ m \in Nat
  BY <1>1, PositionOf
<1>4. /\ m \in 1..Len(items) /\ find_data = items[m] /\ find_data' = ItemAt(items, m + 1)
      /\ find_data' \in Pointers
  BY <1>1, <1>2, <1>3, Followed
<1>5. Struct' /\ Live' = Live
  BY <1>1, ListKept
<1>6. Types'
  BY <1>1, <1>4 DEF Types
<1>7. \A k \in 1..((m + 1) - 1) : mem[items[k]].data # key
  <2>1. \A k \in 1..((m + 1) - 1) : k \in 1..(m - 1) \/ k = m
    BY <1>3
  <2> QED
    BY <1>1, <1>2, <1>4, <2>1
<1>8. FindInv'
  <2>1. m + 1 \in 1..(Len(items) + 1) /\ key \in Data
    BY <1>1, <1>3, <1>4 DEF IInv, FindInv
  <2> QED
    BY <1>1, <1>4, <1>7, <2>1 DEF FindInv
<1>9. GetInv' /\ ClearInv' /\ SortInv'
  BY <1>1 DEF GetInv, ClearInv, SortInv
<1>10. CallInv'
  BY <1>1, <1>5 DEF IInv, CallInv
<1> QED
  BY <1>5, <1>6, <1>8, <1>9, <1>10 DEF IInv

\* A search begins at the head.
LEMMA SearchBeginsKeeps ==
  ASSUME IInv, NEW d \in Data, SearchBegins(d) \/ RemoveBegins(d) PROVE IInv'
<1>1. /\ Types /\ Struct /\ op = "calls" /\ key' = d /\ cur' = NULL /\ i' = 0 /\ j' = 0
      /\ find_data' = head /\ op' \in {"find", "remove"}
      /\ (op' = "find" /\ result' = result) \/ result' = NULL
      /\ UNCHANGED <<head, tail, count, mem, items>>
  BY DEF IInv, SearchBegins, RemoveBegins, Begins, Idle
<1>2. Struct' /\ Live' = Live /\ items' \in Seq(Nodes) /\ mem' \in [Nodes -> Cell]
  BY <1>1, ListKept
<1>3. head = ItemAt(items, 1) /\ head \in Pointers
  BY <1>1, Places DEF Struct, Types
<1>4. Types'
  <2>1. d \in Nat
    BY DynaAssumption
  <2> QED
    BY <1>1, <1>2, <1>3, <2>1 DEF Types, Pointers, Ops
<1>5. FindInv'
  <2>1. 1 \in 1..(Len(items) + 1) /\ \A k \in 1..(1 - 1) : FALSE
    BY <1>1, PositionOf
  <2> QED
    BY <1>1, <1>3, <2>1 DEF FindInv
<1>6. GetInv' /\ ClearInv' /\ SortInv'
  BY <1>1 DEF GetInv, ClearInv, SortInv
<1>7. CallInv'
  BY <1>1, <1>2 DEF IInv, CallInv
<1> QED
  BY <1>2, <1>4, <1>5, <1>6, <1>7 DEF IInv

\* An operation that leaves the list as it is ends.
LEMMA EndKeeps ==
  ASSUME IInv, Ends, UNCHANGED structVars, result' \in Pointers,
         result' # NULL => result' \in Live
  PROVE  IInv'
<1>1. /\ Types /\ Struct /\ UNCHANGED <<head, tail, count, mem, items>>
  BY DEF IInv, structVars
<1>2. Struct' /\ Live' = Live /\ items' \in Seq(Nodes) /\ mem' \in [Nodes -> Cell]
  BY <1>1, ListKept
<1>3. Types'
  BY <1>1, <1>2 DEF Types, Ends, structVars, Pointers, Ops, None
<1>4. (op = "calls" /\ cur = NULL)'
  BY DEF Ends
<1> QED
  BY <1>2, <1>3, <1>4, CallerKeeps

\* What a pointer at a place of the list is.
LEMMA PlaceLive ==
  ASSUME Types, Struct, NEW k \in Nat
  PROVE  ItemAt(items, k) # NULL => ItemAt(items, k) \in Live
BY Followed, PositionOf

\* A walk that is over keeps it, and its result is in the list.
LEMMA EndsKeep ==
  ASSUME IInv, SearchEnds \/ IndexEnds \/ RemoveEnds \/ ClearEnds \/ SortEnds PROVE IInv'
<1>1. Types /\ Struct /\ Len(items) \in Nat
  BY PositionOf DEF IInv
<1>2. CASE SearchEnds
  <2>1. PICK m \in 1..(Len(items) + 1) : find_data = ItemAt(items, m)
    BY <1>2 DEF IInv, FindInv, SearchEnds
  <2>2. find_data # NULL => find_data \in Live
    BY <1>1, <2>1, PlaceLive
  <2> QED
    BY <1>1, <1>2, <2>2, EndKeeps DEF SearchEnds, Types
<1>3. CASE IndexEnds
  <2>1. cur = ItemAt(items, i + 1) /\ i + 1 \in Nat
    BY <1>1, <1>3 DEF IInv, GetInv, IndexEnds, Types
  <2>2. cur # NULL => cur \in Live
    BY <1>1, <2>1, PlaceLive
  <2> QED
    BY <1>1, <1>3, <2>2, EndKeeps DEF IndexEnds, Types
<1>4. CASE RemoveEnds \/ ClearEnds \/ SortEnds
  <2>1. result' = result /\ (result # NULL => result \in Live) /\ UNCHANGED structVars /\ Ends
    BY <1>4 DEF IInv, CallInv, RemoveEnds, ClearEnds, SortEnds
  <2> QED
    BY <1>1, <2>1, EndKeeps DEF Types
<1> QED
  BY <1>2, <1>3, <1>4

\* An access by index keeps it, at its beginning and at each step.
LEMMA IndexKeeps ==
  ASSUME IInv, IndexPasses \/ \E k \in 0..MaxItems : IndexBegins(k) PROVE IInv'
<1>1. Types /\ Struct /\ Len(items) \in Nat /\ i \in Nat /\ MaxItems \in Nat
  BY PositionOf, DynaAssumption DEF IInv, Types
<1>2. CASE IndexPasses
  <2>1. /\ op = "get" /\ cur # NULL /\ i < key /\ i' = i + 1 /\ cur' = mem[cur].next
        /\ UNCHANGED <<head, tail, find_data, count, mem, items, op, key, j, result>>
    BY <1>2 DEF IndexPasses, structVars
  <2>2. key \in 0..MaxItems /\ cur = ItemAt(items, i + 1) /\ i + 1 \in Nat
    BY <1>1, <2>1 DEF IInv, GetInv
  <2>3. cur' = ItemAt(items, (i + 1) + 1) /\ cur' \in Pointers
    BY <1>1, <2>1, <2>2, Followed
  <2>4. Struct' /\ Live' = Live
    BY <1>1, <2>1, ListKept
  <2>5. Types'
    BY <1>1, <2>1, <2>2, <2>3 DEF Types
  <2>6. GetInv'
    <3>1. i + 1 =< key
      BY <1>1, <2>1, <2>2
    <3> QED
      BY <2>1, <2>2, <2>3, <3>1 DEF GetInv
  <2>7. FindInv' /\ ClearInv' /\ SortInv'
    BY <2>1 DEF FindInv, ClearInv, SortInv
  <2>8. CallInv'
    BY <2>1, <2>4 DEF IInv, CallInv
  <2> QED
    BY <2>4, <2>5, <2>6, <2>7, <2>8 DEF IInv
<1>3. ASSUME NEW q \in 0..MaxItems, IndexBegins(q) PROVE IInv'
  <2>1. /\ op' = "get" /\ key' = q /\ cur' = head /\ i' = 0 /\ j' = 0 /\ op = "calls"
        /\ UNCHANGED <<head, tail, find_data, count, mem, items, result>>
    BY <1>3 DEF IndexBegins, Begins, Idle, structVars
  <2>2. Struct' /\ Live' = Live
    BY <1>1, <2>1, ListKept
  <2>3. head = ItemAt(items, 1) /\ head \in Pointers
    BY <1>1, Places DEF Struct, Types
  <2>4. q \in Nat /\ 0 =< q
    BY <1>1
  <2>5. Types'
    BY <1>1, <2>1, <2>3, <2>4 DEF Types, Ops
  <2>6. GetInv'
    BY <2>1, <2>3, <2>4 DEF GetInv
  <2>7. FindInv' /\ ClearInv' /\ SortInv'
    BY <2>1 DEF FindInv, ClearInv, SortInv
  <2>8. CallInv'
    BY <2>1, <2>2 DEF IInv, CallInv
  <2> QED
    BY <2>2, <2>5, <2>6, <2>7, <2>8 DEF IInv
<1> QED
  BY <1>2, <1>3

\* Deleting in the middle of a walk: what is left, and where the walk is.
LEMMA RemoveDeletesKeeps == ASSUME IInv, RemoveDeletes PROVE IInv'
<1>1. /\ Types /\ Struct /\ Len(items) \in Nat /\ op = "remove" /\ find_data # NULL
      /\ dyna_delete(find_data, head, tail) /\ find_data' = mem[find_data].next
      /\ UNCHANGED <<op, key, cur, i, j, result>>
  BY PositionOf DEF IInv, RemoveDeletes, localVars
<1>2. PICK m \in 1..(Len(items) + 1) :
        find_data = ItemAt(items, m) /\ \A k \in 1..(m - 1) : mem[items[k]].data # key
  BY <1>1 DEF IInv, FindInv
<1>3. /\ m \in 1..Len(items) /\ find_data = items[m] /\ find_data' = ItemAt(items, m + 1)
      /\ find_data' \in Pointers /\ m \in Nat
  BY <1>1, <1>2, Followed
<1>4. PICK n, h, l : n = find_data /\ h = head /\ l = tail
  OBVIOUS
<1>5. dyna_delete(n, h, l)
  BY <1>1, <1>4 DEF dyna_delete, Unlinked
<1>6. /\ items' \in Seq(Nodes) /\ Len(items') = Len(items) - 1 /\ Struct'
      /\ mem' \in [Nodes -> Cell]
      /\ \A k \in 1..Len(items') : items'[k] = IF k < m THEN items[k] ELSE items[k + 1]
      /\ ItemAt(items', m) = ItemAt(items, m + 1)
      /\ \A k \in Nodes : mem'[k].data = mem[k].data
  <2>1. n = items[m]
    BY <1>3, <1>4
  <2>2. /\ items' \in Seq(Nodes) /\ Len(items') = Len(items) - 1 /\ Struct'
        /\ mem' \in [Nodes -> Cell]
        /\ \A k \in 1..Len(items') : items'[k] = IF k < m THEN items[k] ELSE items[k + 1]
        /\ \A k \in Int : ItemAt(items', k) = IF k < m THEN ItemAt(items, k)
                                              ELSE ItemAt(items, k + 1)
        /\ \A k \in Nodes : mem'[k].data = mem[k].data
    BY <1>1, <1>3, <1>4, <1>5, <2>1, Deletion
  <2>3. m \in Int /\ ~(m < m)
    BY <1>3
  <2> QED
    BY <2>2, <2>3
<1>7. Types'
  BY <1>1, <1>3, <1>6 DEF Types
<1>8. FindInv'
  <2>1. m \in 1..(Len(items') + 1) /\ key' \in Data
    BY <1>1, <1>3, <1>6 DEF IInv, FindInv
  <2>2. ASSUME NEW k \in 1..(m - 1) PROVE mem'[items'[k]].data # key'
    <3>1. k \in 1..Len(items') /\ k < m /\ k \in 1..Len(items)
      BY <1>1, <1>3, <1>6
    <3>2. items'[k] = items[k] /\ items[k] \in Nodes
      BY <1>1, <1>6, <3>1, PositionOf
    <3> QED
      BY <1>1, <1>2, <1>6, <3>2
  <2> QED
    BY <1>3, <1>6, <2>1, <2>2 DEF FindInv
<1>9. GetInv' /\ ClearInv' /\ SortInv'
  BY <1>1 DEF GetInv, ClearInv, SortInv
<1>10. CallInv'
  BY <1>1 DEF IInv, CallInv
<1> QED
  BY <1>6, <1>7, <1>8, <1>9, <1>10 DEF IInv

\* dyna_delete_all keeps it: each item is deleted when it is the head.
LEMMA ClearKeeps == ASSUME IInv, ClearBegins \/ ClearDeletes PROVE IInv'
<1>1. Types /\ Struct /\ Len(items) \in Nat /\ head = ItemAt(items, 1) /\ head \in Pointers
  BY PositionOf, Places DEF IInv, Types, Struct
<1>2. CASE ClearBegins
  <2>1. /\ op' = "clear" /\ key' = 0 /\ cur' = head /\ i' = 0 /\ j' = 0 /\ result' = NULL
        /\ UNCHANGED <<head, tail, find_data, count, mem, items>>
    BY <1>2 DEF ClearBegins, Begins, structVars, None
  <2>2. Struct'
    BY <1>1, <2>1, ListKept
  <2>3. Types'
    BY <1>1, <2>1 DEF Types, Ops, Pointers
  <2> QED
    BY <2>1, <2>2, <2>3 DEF IInv, FindInv, GetInv, ClearInv, SortInv, CallInv
<1>3. CASE ClearDeletes
  <2>1. /\ op = "clear" /\ cur = head /\ cur # NULL /\ cur' = mem[cur].next
        /\ dyna_delete(cur, head, tail)
        /\ UNCHANGED <<find_data, op, key, i, j, result>>
    BY <1>3 DEF ClearDeletes, IInv, ClearInv
  <2>2. /\ 1 \in 1..Len(items) /\ cur = items[1] /\ cur' = ItemAt(items, 1 + 1)
        /\ cur' \in Pointers
    BY <1>1, <2>1, Followed
  <2>3. PICK n, h, l : n = cur /\ h = head /\ l = tail
    OBVIOUS
  <2>4. dyna_delete(n, h, l)
    BY <2>1, <2>3 DEF dyna_delete, Unlinked
  <2>5. /\ items' \in Seq(Nodes) /\ Struct' /\ mem' \in [Nodes -> Cell]
        /\ ItemAt(items', 1) = ItemAt(items, 1 + 1)
    BY <1>1, <2>2, <2>3, <2>4, Deletion
  <2>6. cur' = head'
    BY <2>2, <2>5 DEF Struct
  <2>7. Types'
    BY <1>1, <2>1, <2>2, <2>5 DEF Types
  <2>8. CallInv'
    BY <2>1 DEF IInv, CallInv
  <2> QED
    BY <2>1, <2>5, <2>6, <2>7, <2>8 DEF IInv, FindInv, GetInv, ClearInv, SortInv
<1> QED
  BY <1>2, <1>3

\* Exchanging the data of two neighbours, or not, leaves the pointers alone
\* and the greater of the two on the right.
LEMMA Exchange ==
  ASSUME Types, Struct, NEW p \in Nat, p \in 1..Len(items), p + 1 \in 1..Len(items),
         cur = items[p], mem' = Swapped
  PROVE  LET D(k) == mem[items[k]].data
             E(k) == mem'[items[k]].data IN
         /\ mem[cur].next = items[p + 1]
         /\ mem' \in [Nodes -> Cell] /\ Links(items, mem')
         /\ \A k \in 1..Len(items) : D(k) \in Nat /\ E(k) \in Nat
         /\ \A k \in 1..Len(items) : k # p /\ k # p + 1 => E(k) = D(k)
         /\ D(p) > D(p + 1) => E(p) = D(p + 1) /\ E(p + 1) = D(p)
         /\ ~(D(p) > D(p + 1)) => mem' = mem
<1> DEFINE a == items[p]
           b == items[p + 1]
<1>1. /\ items \in Seq(Nodes) /\ mem \in [Nodes -> Cell] /\ Len(items) \in Nat
      /\ IsInjective(items) /\ Links(items, mem)
  BY PositionOf DEF Types, Struct
<1>2. a \in Nodes /\ b \in Nodes /\ a # b
  <2>1. p # p + 1
    OBVIOUS
  <2> QED
    BY <1>1, <2>1, Places, Distinct
<1>3. mem[cur].next = b
  BY <1>1 DEF Links, ItemAt
<1>4. \A k \in 1..Len(items) :
        /\ items[k] \in Nodes /\ mem[items[k]] \in Cell /\ mem[items[k]].data \in Data
        /\ items[k] = a <=> k = p
        /\ items[k] = b <=> k = p + 1
  <2>1. \A k \in 1..Len(items) : items[k] \in Nodes
    BY <1>1, Places
  <2>2. \A k, l \in 1..Len(items) : items[k] = items[l] => k = l
    BY <1>1, Distinct
  <2>3. \A k \in 1..Len(items) : mem[items[k]] \in Cell /\ mem[items[k]].data \in Data
    BY <1>1, <2>1 DEF Links
  <2> QED
    BY <2>1, <2>2, <2>3
<1>5. mem' = IF mem[a].data > mem[b].data
             THEN [mem EXCEPT ![a].data = mem[b].data, ![b].data = mem[a].data] ELSE mem
  BY <1>3 DEF Swapped
<1>6. a = items[p] /\ b = items[p + 1]
  OBVIOUS
<1>7. /\ mem[a] \in Cell /\ mem[b] \in Cell /\ mem[a].data \in Data /\ mem[b].data \in Data
  BY <1>4
<1> HIDE DEF a, b
<1>8. CASE mem[a].data > mem[b].data
  <2>1. mem' = [mem EXCEPT ![a] = [mem[a] EXCEPT !.data = mem[b].data],
                           ![b] = [mem[b] EXCEPT !.data = mem[a].data]]
    BY <1>1, <1>2, <1>5, <1>8
  <2>2. mem' \in [Nodes -> Cell]
    <3>1. /\ [mem[a] EXCEPT !.data = mem[b].data] \in Cell
          /\ [mem[b] EXCEPT !.data = mem[a].data] \in Cell
      BY <1>7 DEF Cell
    <3> QED
      BY <1>1, <2>1, <3>1
  <2>3. /\ mem'[a].data = mem[b].data /\ mem'[b].data = mem[a].data
        /\ \A n \in Nodes : /\ mem'[n].next = mem[n].next /\ mem'[n].prev = mem[n].prev
                            /\ n # a /\ n # b => mem'[n] = mem[n]
    <3>1. \A n \in Nodes : mem[n] \in Cell
      BY <1>1
    <3> QED
      BY <1>1, <1>2, <2>1, <3>1 DEF Cell
  <2>4. \A k \in 1..Len(items) : mem'[items[k]].data \in Data
    BY <1>4, <1>7, <2>3
  <2>5. Links(items, mem')
    BY <1>1, <1>4, <2>3, <2>4 DEF Links
  <2>6. \A k \in 1..Len(items) : k # p /\ k # p + 1 => mem'[items[k]].data = mem[items[k]].data
    BY <1>4, <2>3
  <2>7. \A k \in 1..Len(items) : mem[items[k]].data \in Nat /\ mem'[items[k]].data \in Nat
    BY <1>4, <2>4, DynaAssumption
  <2> QED
    BY <1>3, <1>6, <1>8, <2>2, <2>3, <2>5, <2>6, <2>7
<1>9. CASE ~(mem[a].data > mem[b].data)
  <2>1. mem' = mem
    BY <1>5, <1>9
  <2>2. \A k \in 1..Len(items) : mem[items[k]].data \in Nat
    BY <1>4, DynaAssumption
  <2> QED
    BY <1>1, <1>3, <1>6, <1>9, <2>1, <2>2
<1> QED
  BY <1>8, <1>9

\* What a comparison exchanges is not yet settled, and then is.
LEMMA SettledStep ==
  ASSUME NEW n \in Nat, NEW D, NEW E, NEW x \in Nat, NEW y \in Nat, NEW p, p = y + 1, y < n - 1,
         \A k \in 1..n : D[k] \in Nat /\ E[k] \in Nat,
         \A k, l \in 1..n :
           l < k /\ (k > n - x \/ (k = n - x /\ y >= n - x - 1) \/ k = p) => D[l] =< D[k],
         \A k \in 1..n : k # p /\ k # p + 1 => E[k] = D[k],
         D[p] > D[p + 1] => E[p] = D[p + 1] /\ E[p + 1] = D[p],
         ~(D[p] > D[p + 1]) => E[p] = D[p] /\ E[p + 1] = D[p + 1],
         NEW k \in 1..n, NEW l \in 1..n, l < k,
         k > n - x \/ (k = n - x /\ y + 1 >= n - x - 1) \/ k = p + 1
  PROVE  E[l] =< E[k]
<1>1. p \in 1..n /\ p + 1 \in 1..n
  OBVIOUS
<1>2. D[p] \in Nat /\ D[p + 1] \in Nat /\ D[l] \in Nat /\ D[k] \in Nat
  BY <1>1
<1>3. CASE k = p + 1
  <2>1. l = p \/ (l < p /\ l # p + 1)
    BY <1>1, <1>3
  <2>2. l < p => D[l] =< D[p] /\ E[l] = D[l]
    BY <1>1, <2>1
  <2> QED
    BY <1>2, <1>3, <2>1, <2>2
<1>4. CASE k # p + 1
  <2>1. k > n - x \/ (k = n - x /\ y >= n - x - 1)
    BY <1>1, <1>4
  <2>2. D[l] =< D[k]
    BY <2>1
  <2>3. CASE k = p
    <3>1. p + 1 > n - x
      BY <2>1, <2>3
    <3>2. D[p] =< D[p + 1]
      BY <1>1, <3>1
    <3>3. l # p /\ l # p + 1 /\ E[l] = D[l] /\ E[p] = D[p]
      BY <1>1, <1>2, <2>3, <3>2
    <3> QED
      BY <2>2, <2>3, <3>3
  <2>4. CASE k < p
    <3>1. E[k] = D[k] /\ E[l] = D[l]
      BY <1>1, <2>4
    <3> QED
      BY <2>2, <3>1
  <2>5. CASE k > p
    <3>1. E[k] = D[k] /\ p < k /\ p + 1 < k
      BY <1>1, <1>4, <2>5
    <3>2. D[p] =< D[k] /\ D[p + 1] =< D[k]
      BY <1>1, <2>1, <3>1
    <3>3. E[l] = D[l] \/ E[l] = D[p] \/ E[l] = D[p + 1]
      OBVIOUS
    <3> QED
      BY <2>2, <3>1, <3>2, <3>3
  <2> QED
    BY <1>1, <2>3, <2>4, <2>5
<1> QED
  BY <1>3, <1>4

\* A comparison of the sort carries the greater item on.
LEMMA SortComparesKeeps == ASSUME IInv, SortCompares PROVE IInv'
<1> DEFINE n == Len(items)
           D == [k \in 1..n |-> mem[items[k]].data]
           E == [k \in 1..n |-> mem'[items[k]].data]
           p == j + 1
<1>1. /\ Types /\ Struct /\ n \in Nat /\ i \in Nat /\ j \in Nat /\ count = n
      /\ items \in Seq(Nodes)
  BY PositionOf DEF IInv, Types, Struct
<1>2. /\ op = "sort" /\ i < n /\ j < n - 1 /\ mem' = Swapped /\ cur' = mem[cur].next
      /\ j' = j + 1
      /\ UNCHANGED <<head, tail, find_data, count, items, op, key, i, result>>
  BY <1>1 DEF SortCompares, Compared
<1>3. /\ i =< n /\ cur = ItemAt(items, p)
      /\ \A k, l \in 1..n :
           l < k /\ (Settled(k) \/ k = j + 1) => mem[items[l]].data =< mem[items[k]].data
  BY <1>2 DEF IInv, SortInv
<1>4. p \in Nat /\ p \in 1..n /\ p + 1 \in 1..n /\ p + 1 = j' + 1
  BY <1>1, <1>2
<1>5. cur = items[p] /\ ItemAt(items, p + 1) = items[p + 1] /\ items[p + 1] \in Nodes
  BY <1>1, <1>3, <1>4, Places DEF ItemAt
<1>6. /\ mem[cur].next = items[p + 1] /\ mem' \in [Nodes -> Cell] /\ Links(items, mem')
      /\ \A k \in 1..n : mem[items[k]].data \in Nat /\ mem'[items[k]].data \in Nat
      /\ \A k \in 1..n : k # p /\ k # p + 1 => mem'[items[k]].data = mem[items[k]].data
      /\ mem[items[p]].data > mem[items[p + 1]].data =>
           /\ mem'[items[p]].data = mem[items[p + 1]].data
           /\ mem'[items[p + 1]].data = mem[items[p]].data
      /\ ~(mem[items[p]].data > mem[items[p + 1]].data) => mem' = mem
  BY <1>1, <1>2, <1>4, <1>5, Exchange
<1>7. \A k \in 1..n : D[k] = mem[items[k]].data /\ E[k] = mem'[items[k]].data
  OBVIOUS
<1> HIDE DEF D, E
<1>8. /\ \A k \in 1..n : D[k] \in Nat /\ E[k] \in Nat
      /\ \A k \in 1..n : k # p /\ k # p + 1 => E[k] = D[k]
      /\ D[p] > D[p + 1] => E[p] = D[p + 1] /\ E[p + 1] = D[p]
      /\ ~(D[p] > D[p + 1]) => E[p] = D[p] /\ E[p + 1] = D[p + 1]
  BY <1>4, <1>6, <1>7
<1>9. \A k, l \in 1..n :
        l < k /\ (k > n - i \/ (k = n - i /\ j >= n - i - 1) \/ k = p) => D[l] =< D[k]
  BY <1>3, <1>7 DEF Settled
<1>10. ASSUME NEW k \in 1..n, NEW l \in 1..n, l < k,
              k > n - i \/ (k = n - i /\ j + 1 >= n - i - 1) \/ k = p + 1
       PROVE  E[l] =< E[k]
  <2>1. PICK q : q = p
    OBVIOUS
  <2>2. q = j + 1 /\ n \in Nat /\ i \in Nat /\ j \in Nat /\ j < n - 1
    BY <1>1, <1>2, <2>1
  <2>3. /\ \A a \in 1..n : D[a] \in Nat /\ E[a] \in Nat
        /\ \A a \in 1..n : a # q /\ a # q + 1 => E[a] = D[a]
        /\ D[q] > D[q + 1] => E[q] = D[q + 1] /\ E[q + 1] = D[q]
        /\ ~(D[q] > D[q + 1]) => E[q] = D[q] /\ E[q + 1] = D[q + 1]
    BY <1>8, <2>1
  <2>4. \A a, b \in 1..n :
          b < a /\ (a > n - i \/ (a = n - i /\ j >= n - i - 1) \/ a = q) => D[b] =< D[a]
    BY <1>9, <2>1
  <2>5. k > n - i \/ (k = n - i /\ j + 1 >= n - i - 1) \/ k = q + 1
    BY <1>10, <2>1
  <2> HIDE DEF n, p
  <2> QED
    BY <1>10, <2>2, <2>3, <2>4, <2>5, SettledStep
<1>11. SortInv'
  <2>1. \A k, l \in 1..n : l < k /\ (Settled(k)' \/ k = p + 1) => E[l] =< E[k]
    BY <1>2, <1>10 DEF Settled
  <2>2. cur' = ItemAt(items, p + 1)
    BY <1>2, <1>5, <1>6
  <2> QED
    BY <1>1, <1>2, <1>3, <1>4, <1>7, <2>1, <2>2 DEF SortInv
<1>12. Struct'
  BY <1>1, <1>2, <1>6 DEF Struct
<1>13. Types'
  BY <1>1, <1>2, <1>4, <1>5, <1>6 DEF Types, Pointers
<1>14. CallInv' /\ FindInv' /\ GetInv' /\ ClearInv'
  BY <1>2 DEF IInv, CallInv, FindInv, GetInv, ClearInv, Live
<1> QED
  BY <1>11, <1>12, <1>13, <1>14 DEF IInv

\* The end of a pass settles one more item.
LEMMA SortKeeps == ASSUME IInv, SortBegins \/ SortPassEnds PROVE IInv'
<1>1. /\ Types /\ Struct /\ Len(items) \in Nat /\ i \in Nat /\ j \in Nat /\ count = Len(items)
      /\ head = ItemAt(items, 1) /\ head \in Pointers
  BY PositionOf, Places DEF IInv, Types, Struct
<1>2. /\ op' = "sort" /\ cur' = head /\ j' = 0 /\ key' \in Nat /\ i' \in Nat
      /\ (result' = NULL \/ (op = "sort" /\ result' = result))
      /\ UNCHANGED <<head, tail, find_data, count, mem, items>>
  BY <1>1 DEF SortBegins, SortPassEnds, Begins, structVars, None, IInv, Types
<1>3. Struct'
  BY <1>1, <1>2, ListKept
<1>4. Types'
  BY <1>1, <1>2 DEF Types, Ops, Pointers
<1>5. CallInv' /\ FindInv' /\ GetInv' /\ ClearInv'
  BY <1>2 DEF IInv, CallInv, FindInv, GetInv, ClearInv
<1>6. ASSUME i' =< Len(items),
             \A k, l \in 1..Len(items) :
               l < k /\ Settled(k)' => mem[items[l]].data =< mem[items[k]].data
      PROVE  SortInv'
  <2>1. \A k, l \in 1..Len(items) : l < k => k # j' + 1
    BY <1>1, <1>2
  <2> QED
    BY <1>1, <1>2, <1>6, <2>1 DEF SortInv
<1>7. CASE SortBegins
  <2>1. i' = 0
    BY <1>7 DEF SortBegins, Begins
  <2>2. \A k, l \in 1..Len(items) : l < k => ~Settled(k)'
    BY <1>1, <1>2, <2>1 DEF Settled
  <2>3. SortInv'
    BY <1>1, <1>6, <2>1, <2>2
  <2> QED
    BY <1>3, <1>4, <1>5, <2>3 DEF IInv
<1>8. CASE SortPassEnds
  <2>1. op = "sort" /\ i < Len(items) /\ ~(j < Len(items) - 1) /\ i' = i + 1
    BY <1>1, <1>8 DEF SortPassEnds, Compared
  <2>2. /\ j < Len(items) \/ j = 0
        /\ \A k, l \in 1..Len(items) :
             l < k /\ Settled(k) => mem[items[l]].data =< mem[items[k]].data
    BY <2>1 DEF IInv, SortInv
  <2>3. \A k, l \in 1..Len(items) : l < k /\ Settled(k)' => Settled(k)
    BY <1>1, <1>2, <2>1, <2>2 DEF Settled
  <2>4. SortInv'
    BY <1>1, <1>6, <2>1, <2>2, <2>3
  <2> QED
    BY <1>3, <1>4, <1>5, <2>4 DEF IInv
<1> QED
  BY <1>7, <1>8

\* IInv is inductive.
LEMMA Inductive == IInv /\ [Next]_vars => IInv'
<1> SUFFICES ASSUME IInv, [Next]_vars PROVE IInv'
  OBVIOUS
<1>1. CASE UNCHANGED vars
  <2>1. UNCHANGED <<head, tail, find_data, count, mem, items, op, key, cur, i, j, result>>
    BY <1>1 DEF vars, structVars, localVars
  <2> QED
    BY <2>1 DEF IInv, Types, Struct, FindInv, GetInv, ClearInv, SortInv,
       Settled, CallInv, Live
<1>2. CASE Next
  BY <1>2, PushKeeps, AddKeeps, SearchBeginsKeeps, DeleteKeeps, EmptyKeeps,
     PassKeeps, EndsKeep,
     IndexKeeps, RemoveDeletesKeeps, ClearKeeps, SortComparesKeeps, SortKeeps DEF Next
<1> QED
  BY <1>1, <1>2

\* The invariant says that the list is linked.
LEMMA Implies == IInv => Linked
<1> SUFFICES ASSUME IInv PROVE Linked
  OBVIOUS
<1>1. /\ Types /\ Struct /\ Len(items) \in Nat /\ count = Len(items) /\ IsInjective(items)
      /\ Live \subseteq Nodes /\ i \in Nat /\ j \in Nat
  BY PositionOf DEF IInv, Types, Struct
<1>2. /\ head = IF Len(items) = 0 THEN NULL ELSE items[1]
      /\ tail = IF Len(items) = 0 THEN NULL ELSE items[Len(items)]
  BY <1>1 DEF Struct, ItemAt
<1>3. ASSUME NEW k \in 1..Len(items)
      PROVE  /\ mem[items[k]].next = IF k = Len(items) THEN NULL ELSE items[k + 1]
             /\ mem[items[k]].prev = IF k = 1 THEN NULL ELSE items[k - 1]
  <2>1. mem[items[k]].next = ItemAt(items, k + 1) /\ mem[items[k]].prev = ItemAt(items, k - 1)
    BY <1>1 DEF Struct, Links
  <2>2. (k + 1 \in 1..Len(items) <=> k # Len(items)) /\ (k - 1 \in 1..Len(items) <=> k # 1)
    BY <1>1
  <2> QED
    BY <2>1, <2>2 DEF ItemAt
<1>4. cur # NULL => cur \in Live
  <2>1. op = "get" => cur = ItemAt(items, i + 1) /\ i + 1 \in Nat
    BY <1>1 DEF IInv, GetInv
  <2>2. op = "sort" => cur = ItemAt(items, j + 1) /\ j + 1 \in Nat
    BY <1>1 DEF IInv, SortInv
  <2>3. op = "clear" => cur = ItemAt(items, 1)
    BY <1>1 DEF IInv, ClearInv, Struct
  <2>4. op \notin {"get", "clear", "sort"} => cur = NULL
    BY DEF IInv, CallInv
  <2>5. \A k \in Nat : ItemAt(items, k) # NULL => ItemAt(items, k) \in Live
    BY <1>1, PlaceLive
  <2> QED
    BY <2>1, <2>2, <2>3, <2>4, <2>5
<1>5. op \in {"find", "remove"} /\ find_data # NULL => find_data \in Live
  BY <1>1, PlaceLive DEF IInv, FindInv
<1> QED
  BY <1>1, <1>2, <1>3, <1>4, <1>5 DEF Linked

\* However the operations of dynastruc.c follow one another, the list is the
\* same from both ends, has the right count, and no walk is at a freed item.
THEOREM ListLinked == Spec => []Linked
BY Initially, Inductive, Implies, PTL DEF Spec

-----------------------------------------------------------------------------
(* The list as a sequence of data.                                         *)

DataSeq(s, f) == [k \in DOMAIN s |-> f[s[k]].data]
PlaceIn(s, n) == IF n \in Range(s) THEN CHOOSE k \in DOMAIN s : s[k] = n ELSE 0
Mode(o) == IF o \in {"find", "get"} THEN "calls" ELSE o

\* The sequence that the list shows.
LEMMA DataShown ==
  ASSUME NEW s \in Seq(Nodes), NEW f, Links(s, f)
  PROVE  LET u == DataSeq(s, f) IN
         /\ u \in Seq(Data) /\ Len(u) = Len(s) /\ Len(s) \in Nat /\ DOMAIN u = 1..Len(s)
         /\ \A k \in 1..Len(s) : u[k] = f[s[k]].data /\ u[k] \in Data
<1>1. Len(s) \in Nat /\ DOMAIN s = 1..Len(s)
  OBVIOUS
<1>2. \A k \in 1..Len(s) : f[s[k]].data \in Data
  BY DEF Links
<1>3. DataSeq(s, f) = [k \in 1..Len(s) |-> f[s[k]].data]
  BY <1>1 DEF DataSeq
<1>4. DataSeq(s, f) \in [1..Len(s) -> Data]
  BY <1>2, <1>3
<1>5. DataSeq(s, f) \in Seq(Data) /\ Len(DataSeq(s, f)) = Len(s)
  BY <1>1, <1>4
<1> QED
  BY <1>1, <1>2, <1>3, <1>4, <1>5

\* The position of an item of the list.
LEMMA PlaceOf ==
  ASSUME NEW s \in Seq(Nodes), IsInjective(s)
  PROVE  /\ PlaceIn(s, NULL) = 0
         /\ \A m \in 1..Len(s) : PlaceIn(s, s[m]) = m
<1>1. DOMAIN s = 1..Len(s)
  OBVIOUS
<1>2. \A m \in 1..Len(s) : s[m] \in Range(s) /\ s[m] \in Nodes
  BY <1>1, Places DEF Range
<1>3. NULL \notin Range(s)
  BY <1>1, <1>2, NoNull DEF Range
<1>4. ASSUME NEW m \in 1..Len(s) PROVE PlaceIn(s, s[m]) = m
  <2>1. \A k \in DOMAIN s : s[k] = s[m] <=> k = m
    BY <1>1, Distinct
  <2> QED
    BY <1>1, <1>2, <2>1 DEF PlaceIn
<1> QED
  BY <1>3, <1>4 DEF PlaceIn

\* Two sequences of data are equal when they agree everywhere.
LEMMA DataEqual ==
  ASSUME NEW u \in Seq(Data), NEW v \in Seq(Data), Len(u) = Len(v),
         \A k \in 1..Len(u) : u[k] = v[k]
  PROVE  u = v
BY SeqEqual

\* What the list shows after dyna_push, ...
LEMMA DataPushed ==
  ASSUME NEW s \in Seq(Nodes), NEW f, Links(s, f), NEW t \in Seq(Nodes), NEW g, Links(t, g),
         NEW d \in Data, Len(t) = Len(s) + 1, g[t[1]].data = d,
         \A k \in 1..Len(s) : g[t[k + 1]].data = f[s[k]].data
  PROVE  DataSeq(t, g) = <<d>> \o DataSeq(s, f)
<1> DEFINE u == DataSeq(s, f)
           v == DataSeq(t, g)
           w == <<d>> \o u
<1>1. /\ u \in Seq(Data) /\ Len(u) = Len(s) /\ Len(s) \in Nat
      /\ \A k \in 1..Len(s) : u[k] = f[s[k]].data
  BY DataShown
<1>2. /\ v \in Seq(Data) /\ Len(v) = Len(t)
      /\ \A k \in 1..Len(t) : v[k] = g[t[k]].data
  BY DataShown
<1>3. /\ w \in Seq(Data) /\ Len(w) = Len(u) + 1 /\ w[1] = d
      /\ \A k \in 2..Len(w) : w[k] = u[k - 1]
  BY <1>1, Prepended
<1> HIDE DEF u, v, w
<1>4. ASSUME NEW k \in 1..Len(v) PROVE v[k] = w[k]
  <2>1. CASE k = 1
    BY <1>1, <1>2, <1>3, <2>1
  <2>2. CASE k # 1
    <3>1. k - 1 \in 1..Len(s) /\ (k - 1) + 1 = k /\ k \in 2..Len(w) /\ k \in 1..Len(t)
      BY <1>1, <1>2, <1>3, <2>2
    <3>2. g[t[k]].data = f[s[k - 1]].data
      BY <3>1
    <3> QED
      BY <1>1, <1>2, <1>3, <3>1, <3>2
  <2> QED
    BY <2>1, <2>2
<1>5. Len(v) = Len(w)
  BY <1>1, <1>2, <1>3
<1> QED
  BY <1>2, <1>3, <1>4, <1>5, DataEqual DEF u, v, w

\* ... after dyna_add_to_back, ...
LEMMA DataAdded ==
  ASSUME NEW s \in Seq(Nodes), NEW f, Links(s, f), NEW t \in Seq(Nodes), NEW g, Links(t, g),
         NEW d \in Data, Len(t) = Len(s) + 1, g[t[Len(s) + 1]].data = d,
         \A k \in 1..Len(s) : g[t[k]].data = f[s[k]].data
  PROVE  DataSeq(t, g) = Append(DataSeq(s, f), d)
<1> DEFINE u == DataSeq(s, f)
           v == DataSeq(t, g)
           w == Append(u, d)
<1>1. /\ u \in Seq(Data) /\ Len(u) = Len(s) /\ Len(s) \in Nat
      /\ \A k \in 1..Len(s) : u[k] = f[s[k]].data
  BY DataShown
<1>2. /\ v \in Seq(Data) /\ Len(v) = Len(t)
      /\ \A k \in 1..Len(t) : v[k] = g[t[k]].data
  BY DataShown
<1> HIDE DEF u, v
<1>3. /\ w \in Seq(Data) /\ Len(w) = Len(u) + 1 /\ w[Len(u) + 1] = d
      /\ \A k \in 1..Len(u) : w[k] = u[k]
  BY <1>1
<1> HIDE DEF w
<1>4. ASSUME NEW k \in 1..Len(v) PROVE v[k] = w[k]
  <2>1. k = Len(s) + 1 \/ k \in 1..Len(s)
    BY <1>1, <1>2
  <2> QED
    BY <1>1, <1>2, <1>3, <2>1
<1>5. Len(v) = Len(w)
  BY <1>1, <1>2, <1>3
<1> QED
  BY <1>2, <1>3, <1>4, <1>5, DataEqual DEF u, v, w

\* ... and after a deletion.
LEMMA DataRemoved ==
  ASSUME NEW s \in Seq(Nodes), NEW f, Links(s, f), NEW t \in Seq(Nodes), NEW g, Links(t, g),
         NEW m \in 1..Len(s), Len(t) = Len(s) - 1,
         \A k \in 1..Len(t) : g[t[k]].data = IF k < m THEN f[s[k]].data ELSE f[s[k + 1]].data
  PROVE  DataSeq(t, g) = RemoveAt(DataSeq(s, f), m)
<1> DEFINE u == DataSeq(s, f)
           v == DataSeq(t, g)
           w == RemoveAt(u, m)
<1>0. m \in Nat
  OBVIOUS
<1>1. /\ u \in Seq(Data) /\ Len(u) = Len(s) /\ Len(s) \in Nat
      /\ \A k \in 1..Len(s) : u[k] = f[s[k]].data
  BY DataShown
<1>2. /\ v \in Seq(Data) /\ Len(v) = Len(t)
      /\ \A k \in 1..Len(t) : v[k] = g[t[k]].data
  BY DataShown
<1> HIDE DEF u, v
<1>3. /\ w \in Seq(Data) /\ Len(w) = Len(u) - 1
      /\ \A k \in 1..Len(w) : w[k] = IF k < m THEN u[k] ELSE u[k + 1]
  BY <1>0, <1>1, Removed
<1> HIDE DEF w
<1>4. ASSUME NEW k \in 1..Len(v) PROVE v[k] = w[k]
  <2>1. k \in 1..Len(w) /\ k \in 1..Len(t) /\ k \in 1..Len(s) /\ k + 1 \in 1..Len(s)
    BY <1>0, <1>1, <1>2, <1>3
  <2> QED
    BY <1>0, <1>1, <1>2, <1>3, <2>1
<1>5. Len(v) = Len(w)
  BY <1>1, <1>2, <1>3
<1> QED
  BY <1>2, <1>3, <1>4, <1>5, DataEqual DEF u, v, w

\* Removing the first, or the last.
LEMMA RemovedEnds ==
  ASSUME NEW u \in Seq(Data), Len(u) # 0
  PROVE  /\ u # <<>> /\ Len(u) \in Nat /\ Head(u) = u[1] /\ Last(u) = u[Len(u)]
         /\ RemoveAt(u, 1) = Tail(u) /\ RemoveAt(u, Len(u)) = Front(u)
<1>1. /\ Len(u) \in Nat /\ u # <<>> /\ 1 \in 1..Len(u) /\ Len(u) \in 1..Len(u)
      /\ Head(u) = u[1]
  OBVIOUS
<1>2. RemoveAt(u, 1) = Tail(u)
  <2> DEFINE w == RemoveAt(u, 1)
             v == Tail(u)
  <2>1. /\ w \in Seq(Data) /\ Len(w) = Len(u) - 1
        /\ \A k \in 1..Len(w) : w[k] = IF k < 1 THEN u[k] ELSE u[k + 1]
    BY <1>1, Removed
  <2>2. /\ v \in Seq(Data) /\ Len(v) = Len(u) - 1 /\ \A k \in 1..Len(v) : v[k] = u[k + 1]
    BY <1>1, HeadTailProperties
  <2> HIDE DEF v, w
  <2>3. \A k \in 1..Len(w) : w[k] = v[k]
    BY <1>1, <2>1, <2>2
  <2> QED
    BY <2>1, <2>2, <2>3, DataEqual DEF v, w
<1>3. RemoveAt(u, Len(u)) = Front(u)
  <2> DEFINE w == RemoveAt(u, Len(u))
             v == Front(u)
  <2>1. /\ w \in Seq(Data) /\ Len(w) = Len(u) - 1
        /\ \A k \in 1..Len(w) : w[k] = IF k < Len(u) THEN u[k] ELSE u[k + 1]
    BY <1>1, Removed
  <2>2. /\ v \in Seq(Data) /\ Len(v) = Len(u) - 1 /\ \A k \in 1..Len(v) : v[k] = u[k]
    <3>1. PICK e : e = Len(u) - 1
      OBVIOUS
    <3>2. e \in Nat /\ e =< Len(u) /\ \A k \in 1..e : k \in 1..Len(u)
      BY <1>1, <3>1
    <3>3. /\ SubSeq(u, 1, e) \in Seq(Data) /\ Len(SubSeq(u, 1, e)) = e
          /\ \A k \in 1..e : SubSeq(u, 1, e)[k] = u[k]
      BY <3>2
    <3>4. v = SubSeq(u, 1, e)
      BY <3>1 DEF Front
    <3> QED
      BY <3>1, <3>3, <3>4
  <2> HIDE DEF v, w
  <2>3. \A k \in 1..Len(w) : w[k] = v[k]
    BY <1>1, <2>1, <2>2
  <2> QED
    BY <2>1, <2>2, <2>3, DataEqual DEF v, w
<1> QED
  BY <1>1, <1>2, <1>3 DEF Last

\* What the sequence is, before a step and after.
LEMMA Shown ==
  ASSUME IInv, IInv'
  PROVE  LET u == DataSeq(items, mem)
             v == DataSeq(items', mem') IN
         /\ u \in Seq(Data) /\ Len(u) = Len(items) /\ Len(items) \in Nat
         /\ DOMAIN u = 1..Len(items) /\ count = Len(items)
         /\ \A k \in 1..Len(items) : u[k] = mem[items[k]].data /\ u[k] \in Data /\ u[k] \in Nat
         /\ Types /\ Struct /\ Types' /\ Struct'
         /\ items \in Seq(Nodes) /\ items' \in Seq(Nodes) /\ Links(items, mem)
         /\ Links(items', mem') /\ mem \in [Nodes -> Cell] /\ IsInjective(items)
         /\ IsInjective(items')
         /\ PlaceIn(items, NULL) = 0 /\ PlaceIn(items', NULL) = 0
         /\ \A m \in 1..Len(items) : PlaceIn(items, items[m]) = m
<1>1. /\ Types /\ Struct /\ Types' /\ Struct'
  BY DEF IInv
<1>2. /\ items \in Seq(Nodes) /\ items' \in Seq(Nodes) /\ Links(items, mem)
      /\ Links(items', mem') /\ mem \in [Nodes -> Cell] /\ IsInjective(items)
      /\ IsInjective(items') /\ count = Len(items)
  BY <1>1 DEF Types, Struct
<1>3. LET u == DataSeq(items, mem) IN
      /\ u \in Seq(Data) /\ Len(u) = Len(items) /\ Len(items) \in Nat
      /\ DOMAIN u = 1..Len(items)
      /\ \A k \in 1..Len(items) : u[k] = mem[items[k]].data /\ u[k] \in Data
  BY <1>2, DataShown
<1>4. /\ PlaceIn(items, NULL) = 0 /\ PlaceIn(items', NULL) = 0
      /\ \A m \in 1..Len(items) : PlaceIn(items, items[m]) = m
  BY <1>2, PlaceOf
<1>5. \A x \in Data : x \in Nat
  BY DynaAssumption
<1> QED
  BY <1>1, <1>2, <1>3, <1>4, <1>5

\* A step that the sequence does not see.
LEMMA Stutters ==
  ASSUME UNCHANGED <<items, mem, result, got>>, Mode(op') = Mode(op)
  PROVE  UNCHANGED Sequence!seqVars
BY DEF Sequence!seqVars, Mode, Position, Live

\* dyna_push adds to the front of the sequence.
LEMMA PushRefines ==
  ASSUME IInv, IInv', NEW d \in Data, dyna_push(d) PROVE Sequence!AddToFront(d)
<1>1. PICK n \in Nodes \ Live :
        /\ mem' = [k \in Nodes |->
                     IF k = n THEN [data |-> d, next |-> head, prev |-> NULL]
                     ELSE IF k = head THEN [mem[k] EXCEPT !.prev = n] ELSE mem[k]]
        /\ items' = <<n>> \o items
  BY DEF dyna_push
<1>2. items' = InFront(n, items) /\ mem' = PushedMem(mem, n, d, head)
  BY <1>1 DEF InFront, PushedMem
<1>3. /\ items \in Seq(Nodes) /\ items' \in Seq(Nodes) /\ Links(items, mem)
      /\ Links(items', mem') /\ mem \in [Nodes -> Cell] /\ IsInjective(items)
      /\ PlaceIn(items', NULL) = 0
  BY Shown
<1>4. head = ItemAt(items, 1) /\ n \notin Range(items)
  BY <1>1 DEF IInv, Struct, Live
<1>5. /\ Len(items') = Len(items) + 1 /\ items'[1] = n /\ mem'[n].data = d
      /\ \A k \in 1..Len(items) :
           items'[k + 1] = items[k] /\ mem'[items[k]].data = mem[items[k]].data
  BY <1>2, <1>3, <1>4, LinksPushed
<1>6. DataSeq(items', mem') = <<d>> \o DataSeq(items, mem)
  <2>1. /\ mem'[items'[1]].data = d
        /\ \A k \in 1..Len(items) : mem'[items'[k + 1]].data = mem[items[k]].data
    BY <1>5
  <2> QED
    BY <1>3, <1>5, <2>1, DataPushed
<1>7. PlaceIn(items', result') = 0 /\ op = "calls" /\ op' = op /\ got' = got
  BY <1>3 DEF dyna_push, Idle, localVars
<1> QED
  BY <1>6, <1>7 DEF DataSeq, PlaceIn, Position, Live, Sequence!AddToFront

\* dyna_add_to_back adds to its end.
LEMMA AddRefines ==
  ASSUME IInv, IInv', NEW d \in Data, dyna_add_to_back(d) PROVE Sequence!AddToBack(d)
<1>1. PICK n \in Nodes \ Live :
        /\ mem' = [k \in Nodes |->
                     IF k = n THEN [data |-> d, next |-> NULL, prev |-> tail]
                     ELSE IF k = tail THEN [mem[k] EXCEPT !.next = n] ELSE mem[k]]
        /\ items' = Append(items, n)
  BY DEF dyna_add_to_back
<1>2. items' = AtBack(items, n) /\ mem' = AddedMem(mem, n, d, tail)
  BY <1>1 DEF AtBack, AddedMem
<1>3. /\ items \in Seq(Nodes) /\ items' \in Seq(Nodes) /\ Links(items, mem)
      /\ Links(items', mem') /\ mem \in [Nodes -> Cell] /\ IsInjective(items)
      /\ PlaceIn(items', NULL) = 0
  BY Shown
<1>4. tail = ItemAt(items, Len(items)) /\ n \notin Range(items)
  BY <1>1 DEF IInv, Struct, Live
<1>5. /\ Len(items') = Len(items) + 1 /\ items'[Len(items) + 1] = n /\ mem'[n].data = d
      /\ \A k \in 1..Len(items) :
           items'[k] = items[k] /\ mem'[items[k]].data = mem[items[k]].data
  BY <1>2, <1>3, <1>4, LinksAdded
<1>6. DataSeq(items', mem') = Append(DataSeq(items, mem), d)
  <2>1. /\ mem'[items'[Len(items) + 1]].data = d
        /\ \A k \in 1..Len(items) : mem'[items'[k]].data = mem[items[k]].data
    BY <1>5
  <2> QED
    BY <1>3, <1>5, <2>1, DataAdded
<1>7. PlaceIn(items', result') = 0 /\ op = "calls" /\ op' = op /\ got' = got
  BY <1>3 DEF dyna_add_to_back, Idle, localVars
<1> QED
  BY <1>6, <1>7 DEF DataSeq, PlaceIn, Position, Live, Sequence!AddToBack

\* A deletion, at the place m.
LEMMA DeletedData ==
  ASSUME IInv, IInv', NEW m \in 1..Len(items), NEW n, NEW h, NEW l,
         n = items[m], dyna_delete(n, h, l),
         h = head \/ (m = 1 /\ h = mem[n].next),
         l = tail \/ (m = Len(items) /\ l = mem[n].prev)
  PROVE  DataSeq(items', mem') = RemoveAt(DataSeq(items, mem), m)
<1>1. /\ items \in Seq(Nodes) /\ items' \in Seq(Nodes) /\ Links(items, mem)
      /\ Links(items', mem') /\ Types /\ Struct /\ Len(items) \in Nat
  BY Shown
<1>2. /\ Len(items') = Len(items) - 1
      /\ \A k \in 1..Len(items') : items'[k] = IF k < m THEN items[k] ELSE items[k + 1]
      /\ \A k \in Nodes : mem'[k].data = mem[k].data
  BY <1>1, Deletion
<1>3. ASSUME NEW k \in 1..Len(items')
      PROVE  mem'[items'[k]].data = IF k < m THEN mem[items[k]].data ELSE mem[items[k + 1]].data
  <2>1. k \in 1..Len(items) /\ k + 1 \in 1..Len(items)
    BY <1>1, <1>2
  <2>2. items[k] \in Nodes /\ items[k + 1] \in Nodes
    BY <1>1, <2>1, Places
  <2> QED
    BY <1>2, <2>2
<1> QED
  BY <1>1, <1>2, <1>3, DataRemoved

\* dyna_pop takes the first.
LEMMA PopRefines == ASSUME IInv, IInv', dyna_pop PROVE Sequence!DelFromFront
<1> DEFINE u == DataSeq(items, mem)
<1>1. PICK n, h, l : n = head /\ h = mem[n].next /\ l = tail
  OBVIOUS
<1>2. 1 \in 1..Len(items) /\ n = items[1]
  BY <1>1, Deleted
<1>3. dyna_delete(n, h, l)
  BY <1>1 DEF dyna_pop, dyna_delete, Unlinked
<1>4. DataSeq(items', mem') = RemoveAt(u, 1)
  BY <1>1, <1>2, <1>3, DeletedData
<1>5. /\ u \in Seq(Data) /\ Len(u) = Len(items) /\ Len(items) \in Nat
      /\ u[1] = mem[items[1]].data /\ PlaceIn(items', NULL) = 0
  BY <1>2, Shown
<1>6. u # <<>> /\ Head(u) = mem[head].data /\ RemoveAt(u, 1) = Tail(u)
  BY <1>1, <1>2, <1>5, RemovedEnds
<1>7. PlaceIn(items', result') = 0 /\ op = "calls" /\ op' = op /\ got' = mem[head].data
  BY <1>5 DEF dyna_pop, Idle, localVars
<1> QED
  BY <1>4, <1>6, <1>7 DEF DataSeq, PlaceIn, Position, Live, Sequence!DelFromFront

\* dyna_del_from_back takes the last.
LEMMA DelFromBackRefines == ASSUME IInv, IInv', dyna_del_from_back PROVE Sequence!DelFromBack
<1> DEFINE u == DataSeq(items, mem)
<1>1. PICK n, h, l : n = tail /\ h = head /\ l = mem[n].prev
  OBVIOUS
<1>2. Len(items) \in 1..Len(items) /\ n = items[Len(items)]
  BY <1>1, Deleted
<1>3. dyna_delete(n, h, l)
  BY <1>1 DEF dyna_del_from_back, dyna_delete, Unlinked
<1>4. DataSeq(items', mem') = RemoveAt(u, Len(items))
  <2>1. PICK m : m = Len(items)
    OBVIOUS
  <2> QED
    BY <1>1, <1>2, <1>3, <2>1, DeletedData
<1>5. /\ u \in Seq(Data) /\ Len(u) = Len(items) /\ Len(items) \in Nat
      /\ u[Len(items)] = mem[items[Len(items)]].data /\ PlaceIn(items', NULL) = 0
  BY <1>2, Shown
<1>6. u # <<>> /\ Last(u) = mem[tail].data /\ RemoveAt(u, Len(items)) = Front(u)
  BY <1>1, <1>2, <1>5, RemovedEnds
<1>7. PlaceIn(items', result') = 0 /\ op = "calls" /\ op' = op /\ got' = mem[tail].data
  BY <1>5 DEF dyna_del_from_back, Idle, localVars
<1> QED
  BY <1>4, <1>6, <1>7 DEF DataSeq, PlaceIn, Position, Live, Last, Front,
     Sequence!DelFromBack, Sequence!Last, Sequence!Front

\* The item found is deleted at its position.
LEMMA DeleteFoundRefines == ASSUME IInv, IInv', DeleteFound PROVE Sequence!Delete
<1> DEFINE u == DataSeq(items, mem)
<1>1. PICK n, h, l : n = result /\ h = head /\ l = tail
  OBVIOUS
<1>2. PICK m \in 1..Len(items) : n = items[m]
  BY <1>1, Deleted
<1>3. dyna_delete(n, h, l)
  BY <1>1 DEF DeleteFound, dyna_delete, Unlinked
<1>4. DataSeq(items', mem') = RemoveAt(u, m)
  BY <1>1, <1>2, <1>3, DeletedData
<1>5. PlaceIn(items, result) = m /\ PlaceIn(items', NULL) = 0 /\ Len(items) \in Nat
  BY <1>1, <1>2, Shown
<1>6. m # 0
  BY <1>5
<1>7. PlaceIn(items', result') = 0 /\ op = "calls" /\ op' = op /\ got' = got
  BY <1>5 DEF DeleteFound, Idle, localVars
<1> QED
  BY <1>4, <1>5, <1>6, <1>7 DEF DataSeq, PlaceIn, Position, Live, RemoveAt,
     Sequence!Delete, Sequence!RemoveAt

\* An empty list gives nothing.
LEMMA EmptyRefines == ASSUME IInv, IInv', DelFromEmpty PROVE Sequence!DelFromEmpty
<1> DEFINE u == DataSeq(items, mem)
<1>1. op = "calls" /\ count = 0 /\ got' = None /\ UNCHANGED <<items, mem, result, op>>
  BY DEF DelFromEmpty, Idle, structVars, localVars
<1>2. u \in Seq(Data) /\ Len(u) = Len(items) /\ count = Len(items)
  BY Shown
<1>3. u = <<>>
  BY <1>1, <1>2, EmptySeq
<1> QED
  BY <1>1, <1>3 DEF DataSeq, Position, Live, Sequence!DelFromEmpty,
     Sequence!None, None

\* The least of some numbers.
LEMMA LeastIs ==
  ASSUME NEW S, S \subseteq Nat, NEW m \in S, \A y \in S : m =< y
  PROVE  Sequence!Least(S) = m
<1>1. \A x \in S : (\A y \in S : x =< y) <=> x = m
  OBVIOUS
<1>2. S # {}
  OBVIOUS
<1> QED
  BY <1>1, <1>2 DEF Sequence!Least

\* A search has come to the first item that matches, or there is none.
LEMMA FirstMatch ==
  ASSUME IInv, IInv', op \in {"find", "remove"}, find_data # NULL => mem[find_data].data = key
  PROVE  /\ key \in Data
         /\ find_data = NULL => Sequence!Positions(key) = {}
         /\ find_data # NULL => \E m \in 1..Len(items) :
              /\ find_data = items[m] /\ Sequence!Positions(key) # {}
              /\ Sequence!Least(Sequence!Positions(key)) = m
<1> DEFINE u == DataSeq(items, mem)
           P == {k \in 1..Len(items) : u[k] = key}
<1>1. /\ DOMAIN u = 1..Len(items) /\ Len(items) \in Nat /\ Types /\ Struct
      /\ \A k \in 1..Len(items) : u[k] = mem[items[k]].data
  BY Shown
<1>2. Sequence!Positions(key) = P
  <2>1. Sequence!Positions(key) = {k \in DOMAIN u : u[k] = key}
    BY DEF Sequence!Positions, DataSeq
  <2> QED
    BY <1>1, <2>1
<1>3. PICK m \in 1..(Len(items) + 1) :
        find_data = ItemAt(items, m) /\ \A k \in 1..(m - 1) : mem[items[k]].data # key
  BY DEF IInv, FindInv
<1>4. key \in Data
  BY DEF IInv, FindInv
<1> HIDE DEF u
<1>5. CASE find_data = NULL
  <2>1. m \notin 1..Len(items)
    <3>1. items \in Seq(Nodes) /\ m \in Int
      BY <1>1, <1>3 DEF Types
    <3> QED
      BY <1>3, <1>5, <3>1, Places
  <2>2. \A k \in 1..Len(items) : k \in 1..(m - 1)
    BY <1>1, <1>3, <2>1
  <2>3. P = {}
    BY <1>1, <1>3, <2>2
  <2> QED
    BY <1>2, <1>4, <1>5, <2>3
<1>6. CASE find_data # NULL
  <2>1. m \in 1..Len(items) /\ find_data = items[m]
    BY <1>1, <1>3, <1>6, Followed
  <2>2. m \in P /\ P \subseteq Nat
    BY <1>1, <1>6, <2>1
  <2>3. ASSUME NEW y \in P PROVE m =< y
    <3>1. y \notin 1..(m - 1) /\ y \in 1..Len(items)
      BY <1>1, <1>3, <2>3
    <3> QED
      BY <1>1, <2>1, <3>1
  <2>4. Sequence!Least(P) = m
    BY <2>2, <2>3, LeastIs
  <2> QED
    BY <1>2, <1>4, <1>6, <2>1, <2>2, <2>4
<1> QED
  BY <1>5, <1>6

\* A search finds the first match.
LEMMA SearchEndsRefines == ASSUME IInv, IInv', SearchEnds PROVE Sequence!Find(key) /\ key \in Data
<1>1. /\ op = "find" /\ (find_data # NULL => mem[find_data].data = key) /\ op' = "calls"
      /\ result' = find_data /\ UNCHANGED <<items, mem, got>>
  BY DEF SearchEnds, Ends, structVars
<1>2. /\ PlaceIn(items, NULL) = 0 /\ \A m \in 1..Len(items) : PlaceIn(items, items[m]) = m
  BY Shown
<1>3. PlaceIn(items', result') = Sequence!Least(Sequence!Positions(key))
  <2>1. CASE find_data = NULL
    <3>1. Sequence!Least({}) = 0
      BY DEF Sequence!Least
    <3> QED
      BY <1>1, <1>2, <2>1, <3>1, FirstMatch
  <2>2. CASE find_data # NULL
    BY <1>1, <1>2, <2>2, FirstMatch
  <2> QED
    BY <2>1, <2>2
<1>4. key \in Data
  BY <1>1, FirstMatch
<1> QED
  BY <1>1, <1>3, <1>4 DEF PlaceIn, Position, Live, Sequence!Find

\* An access by index finds the item there, or none.
LEMMA IndexEndsRefines ==
  ASSUME IInv, IInv', IndexEnds PROVE Sequence!ByIndex(key) /\ key \in 0..MaxItems
<1> DEFINE u == DataSeq(items, mem)
<1>1. /\ op = "get" /\ (cur = NULL \/ i >= key) /\ op' = "calls"
      /\ result' = cur /\ UNCHANGED <<items, mem, got>>
  BY DEF IndexEnds, Ends, structVars
<1>2. /\ PlaceIn(items, NULL) = 0 /\ \A m \in 1..Len(items) : PlaceIn(items, items[m]) = m
      /\ Len(u) = Len(items) /\ Len(items) \in Nat /\ Types /\ Struct
  BY Shown
<1>3. key \in 0..MaxItems /\ i =< key /\ cur = ItemAt(items, i + 1)
  BY <1>1 DEF IInv, GetInv
<1>4. i \in Nat /\ key \in Nat /\ MaxItems \in Nat
  BY <1>2, DynaAssumption DEF Types
<1>5. PlaceIn(items', result') = IF key < Len(u) THEN key + 1 ELSE 0
  <2>1. CASE cur = NULL
    <3>1. ~(key < Len(items))
      <4>1. i + 1 \notin 1..Len(items)
        BY <1>2, <1>3, <1>4, <2>1, Places DEF Types
      <4> QED
        BY <1>2, <1>3, <1>4, <4>1
    <3> QED
      BY <1>1, <1>2, <2>1, <3>1
  <2>2. CASE cur # NULL
    <3>1. i = key
      BY <1>1, <1>3, <1>4, <2>2
    <3>2. i + 1 \in 1..Len(items) /\ cur = items[i + 1]
      BY <1>2, <1>3, <1>4, <2>2, Followed
    <3>3. key < Len(items)
      BY <1>2, <1>4, <3>1, <3>2
    <3>4. PlaceIn(items, cur) = key + 1
      BY <1>2, <3>1, <3>2
    <3> QED
      BY <1>1, <1>2, <3>3, <3>4
  <2> QED
    BY <2>1, <2>2
<1> QED
  BY <1>1, <1>3, <1>5 DEF DataSeq, PlaceIn, Position, Live, Sequence!ByIndex

\* The operations that take several steps begin.
LEMMA BeginRefines ==
  ASSUME IInv, IInv'
  PROVE  /\ (\E d \in Data : RemoveBegins(d)) => Sequence!Begin("remove")
         /\ ClearBegins => Sequence!Begin("clear")
         /\ SortBegins => Sequence!Begin("sort")
<1> DEFINE Starts(m) == op = "calls" /\ op' = m /\ result' = NULL /\ UNCHANGED <<items, mem, got>>
<1>1. ASSUME NEW m \in {"remove", "clear", "sort"}, Starts(m) PROVE Sequence!Begin(m)
  <2>1. PlaceIn(items', result') = 0
    BY <1>1, Shown
  <2> QED
    BY <1>1, <2>1 DEF PlaceIn, Position, Live, Sequence!Begin
<1>2. (\E d \in Data : RemoveBegins(d)) => Starts("remove")
  BY DEF RemoveBegins, Begins, Idle
<1>3. ClearBegins => Starts("clear")
  BY DEF ClearBegins, Begins, Idle, structVars
<1>4. SortBegins => Starts("sort")
  BY DEF SortBegins, Begins, Idle, structVars
<1> HIDE DEF Starts
<1> QED
  BY <1>1, <1>2, <1>3, <1>4

\* unblacklist_ip deletes the first match that is left, ...
LEMMA RemoveDeletesRefines ==
  ASSUME IInv, IInv', RemoveDeletes PROVE Sequence!RemoveOne(key) /\ key \in Data
<1> DEFINE u == DataSeq(items, mem)
<1>1. /\ op = "remove" /\ op' = op /\ find_data # NULL /\ mem[find_data].data = key
      /\ dyna_delete(find_data, head, tail) /\ result' = result /\ got' = got
  BY DEF RemoveDeletes, localVars
<1>2. PICK m \in 1..Len(items) :
        /\ find_data = items[m] /\ Sequence!Positions(key) # {}
        /\ Sequence!Least(Sequence!Positions(key)) = m
  BY <1>1, FirstMatch
<1>3. PICK n, h, l : n = find_data /\ h = head /\ l = tail
  OBVIOUS
<1>4. dyna_delete(n, h, l)
  BY <1>1, <1>3 DEF dyna_delete, Unlinked
<1>5. DataSeq(items', mem') = RemoveAt(u, m)
  BY <1>2, <1>3, <1>4, DeletedData
<1>6. PlaceIn(items', result') = PlaceIn(items, result)
  <2>1. result = NULL
    BY <1>1 DEF IInv, CallInv
  <2> QED
    BY <1>1, <2>1, Shown
<1>7. key \in Data
  BY <1>1, FirstMatch
<1>8. DataSeq(items', mem') = RemoveAt(u, Sequence!Least(Sequence!Positions(key)))
  BY <1>2, <1>5
<1> QED
  BY <1>1, <1>2, <1>6, <1>7, <1>8 DEF DataSeq, PlaceIn, Position, Live, RemoveAt,
     Sequence!RemoveOne, Sequence!RemoveAt

\* ... and ends when none is.
LEMMA RemoveEndsRefines ==
  ASSUME IInv, IInv', RemoveEnds PROVE Sequence!RemoveEnds(key) /\ key \in Data
<1>1. /\ op = "remove" /\ find_data = NULL /\ op' = "calls"
      /\ UNCHANGED <<items, mem, result, got>>
  BY DEF RemoveEnds, Ends, structVars
<1>2. key \in Data /\ Sequence!Positions(key) = {}
  BY <1>1, FirstMatch
<1> QED
  BY <1>1, <1>2 DEF Position, Live, Sequence!RemoveEnds, Sequence!End

\* dyna_delete_all deletes the first item, ...
LEMMA ClearDeletesRefines == ASSUME IInv, IInv', ClearDeletes PROVE Sequence!ClearOne
<1> DEFINE u == DataSeq(items, mem)
<1>1. /\ op = "clear" /\ op' = op /\ cur = head /\ cur # NULL
      /\ dyna_delete(cur, head, tail) /\ result' = result /\ got' = got
  BY DEF ClearDeletes, IInv, ClearInv
<1>2. /\ u \in Seq(Data) /\ Len(u) = Len(items) /\ Len(items) \in Nat /\ Types /\ Struct
      /\ PlaceIn(items, NULL) = 0 /\ PlaceIn(items', NULL) = 0
  BY Shown
<1>3. 1 \in 1..Len(items) /\ cur = items[1]
  BY <1>1, <1>2, Followed DEF Struct
<1>4. PICK n, h, l : n = cur /\ h = head /\ l = tail
  OBVIOUS
<1>5. dyna_delete(n, h, l)
  BY <1>1, <1>4 DEF dyna_delete, Unlinked
<1>6. DataSeq(items', mem') = RemoveAt(u, 1)
  BY <1>3, <1>4, <1>5, DeletedData
<1>7. u # <<>> /\ RemoveAt(u, 1) = Tail(u)
  BY <1>2, <1>3, RemovedEnds
<1>8. PlaceIn(items', result') = PlaceIn(items, result)
  <2>1. result = NULL
    BY <1>1 DEF IInv, CallInv
  <2> QED
    BY <1>1, <1>2, <2>1
<1> QED
  BY <1>1, <1>6, <1>7, <1>8 DEF DataSeq, PlaceIn, Position, Live, Sequence!ClearOne

\* ... until nothing is left.
LEMMA ClearEndsRefines == ASSUME IInv, IInv', ClearEnds PROVE Sequence!ClearEnds
<1> DEFINE u == DataSeq(items, mem)
<1>1. /\ op = "clear" /\ cur = NULL /\ op' = "calls"
      /\ UNCHANGED <<items, mem, result, got>>
  BY DEF ClearEnds, Ends, structVars
<1>2. u \in Seq(Data) /\ Len(u) = Len(items) /\ Len(items) \in Nat /\ Types /\ Struct
  BY Shown
<1>3. ItemAt(items, 1) = NULL
  BY <1>1, <1>2 DEF IInv, ClearInv, Struct
<1>4. 1 \notin 1..Len(items)
  BY <1>2, <1>3, Places DEF Types
<1>5. u = <<>>
  BY <1>2, <1>4, EmptySeq
<1> QED
  BY <1>1, <1>5 DEF DataSeq, Position, Live, Sequence!ClearEnds, Sequence!End

\* A comparison exchanges neighbours that are out of order, or nothing.
LEMMA SortComparesRefines ==
  ASSUME IInv, IInv', SortCompares
  PROVE  UNCHANGED Sequence!seqVars \/ \E k \in 1..Len(items) : Sequence!SortSwap(k)
<1> DEFINE u == DataSeq(items, mem)
           v == DataSeq(items', mem')
<1>1. /\ op = "sort" /\ op' = op /\ i < count /\ j < count - 1 /\ mem' = Swapped
      /\ UNCHANGED <<items, result, got>>
  BY DEF SortCompares, Compared
<1>2. /\ u \in Seq(Data) /\ Len(u) = Len(items) /\ Len(items) \in Nat /\ Types /\ Struct
      /\ DOMAIN u = 1..Len(items) /\ count = Len(items)
      /\ \A k \in 1..Len(items) : u[k] = mem[items[k]].data
      /\ items \in Seq(Nodes) /\ Links(items', mem')
  BY Shown
<1>3. PICK p : p = j + 1
  OBVIOUS
<1>4. p \in Nat /\ p \in 1..Len(items) /\ p + 1 \in 1..Len(items) /\ p \in 1..(Len(items) - 1)
  BY <1>1, <1>2, <1>3 DEF Types
<1>5. cur = items[p]
  BY <1>1, <1>3, <1>4 DEF IInv, SortInv, ItemAt
<1>6. /\ \A k \in 1..Len(items) : k # p /\ k # p + 1 => mem'[items[k]].data = mem[items[k]].data
      /\ mem[items[p]].data > mem[items[p + 1]].data =>
           /\ mem'[items[p]].data = mem[items[p + 1]].data
           /\ mem'[items[p + 1]].data = mem[items[p]].data
      /\ ~(mem[items[p]].data > mem[items[p + 1]].data) => mem' = mem
  BY <1>1, <1>2, <1>4, <1>5, Exchange
<1>7. CASE ~(mem[items[p]].data > mem[items[p + 1]].data)
  BY <1>1, <1>6, <1>7, Stutters
<1>8. CASE mem[items[p]].data > mem[items[p + 1]].data
  <2>1. u[p] > u[p + 1]
    BY <1>2, <1>4, <1>8
  <2> DEFINE w == [u EXCEPT ![p] = u[p + 1], ![p + 1] = u[p]]
  <2>2. v = [k \in 1..Len(items) |-> mem'[items[k]].data]
    BY <1>1, <1>2 DEF DataSeq
  <2>3. u = [k \in 1..Len(items) |-> u[k]]
    BY <1>2
  <2> HIDE DEF u, v
  <2>4. /\ w = [k \in 1..Len(items) |-> w[k]]
        /\ \A k \in 1..Len(items) :
             w[k] = IF k = p + 1 THEN u[p] ELSE IF k = p THEN u[p + 1] ELSE u[k]
    BY <1>2, <1>4, <2>3
  <2>5. \A k \in 1..Len(items) : mem'[items[k]].data = w[k]
    <3>1. p # p + 1
      BY <1>4
    <3> QED
      BY <1>2, <1>4, <1>6, <1>8, <2>4, <3>1
  <2>6. v = w
    BY <2>2, <2>4, <2>5
  <2>7. p \in 1..(Len(u) - 1)
    BY <1>2, <1>4
  <2>8. Sequence!SortSwap(p)
    BY <1>1, <2>1, <2>6, <2>7 DEF u, v, DataSeq, Position, Live, Sequence!SortSwap
  <2> QED
    BY <1>4, <2>8
<1> QED
  BY <1>7, <1>8

\* When the passes are over the sequence is sorted.
LEMMA SortEndsRefines == ASSUME IInv, IInv', SortEnds PROVE Sequence!SortEnds
<1> DEFINE u == DataSeq(items, mem)
<1>1. /\ op = "sort" /\ i >= count /\ op' = "calls" /\ UNCHANGED <<items, mem, result, got>>
  BY DEF SortEnds, Ends, structVars
<1>2. /\ Len(u) = Len(items) /\ Len(items) \in Nat /\ count = Len(items) /\ i \in Nat
      /\ \A k \in 1..Len(items) : u[k] = mem[items[k]].data
  BY Shown DEF Types
<1>3. ASSUME NEW k \in 1..(Len(u) - 1) PROVE u[k] =< u[k + 1]
  <2>1. k \in 1..Len(items) /\ k + 1 \in 1..Len(items) /\ k < k + 1
    BY <1>2
  <2>2. Settled(k + 1)
    BY <1>1, <1>2, <2>1 DEF Settled
  <2>3. mem[items[k]].data =< mem[items[k + 1]].data
    BY <1>1, <2>1, <2>2 DEF IInv, SortInv
  <2> QED
    BY <1>2, <2>1, <2>3
<1>4. Sequence!End
  BY <1>1 DEF Position, Live, Sequence!End
<1>5. Mode(op) = "sort"
  BY <1>1 DEF Mode
<1>6. \A k \in 1..(Len(u) - 1) : u[k] =< u[k + 1]
  BY <1>3
<1> QED
  BY <1>4, <1>5, <1>6, Zenon DEF Mode, DataSeq, Sequence!SortEnds

\* Every step of the list is a step of the sequence or a stutter.
LEMMA StepRefines == IInv /\ IInv' /\ [Next]_vars => [Sequence!SeqNext]_(Sequence!seqVars)
<1> SUFFICES ASSUME IInv, IInv', [Next]_vars PROVE Sequence!SeqNext \/ UNCHANGED Sequence!seqVars
  OBVIOUS
<1>1. ASSUME NEW d \in Data, dyna_push(d) \/ dyna_add_to_back(d) PROVE Sequence!SeqNext
  BY <1>1, PushRefines, AddRefines DEF Sequence!SeqNext
<1>2. ASSUME dyna_pop \/ dyna_del_from_back \/ DelFromEmpty \/ DeleteFound PROVE Sequence!SeqNext
  BY <1>2, PopRefines, DelFromBackRefines, EmptyRefines, DeleteFoundRefines DEF
     Sequence!SeqNext
<1>3. ASSUME SearchEnds \/ IndexEnds PROVE Sequence!SeqNext
  BY <1>3, SearchEndsRefines, IndexEndsRefines DEF Sequence!SeqNext
<1>4. ASSUME (\E d \in Data : RemoveBegins(d)) \/ ClearBegins \/ SortBegins PROVE Sequence!SeqNext
  BY <1>4, BeginRefines DEF Sequence!SeqNext
<1>5. ASSUME RemoveDeletes \/ RemoveEnds PROVE Sequence!SeqNext
  <2>1. (Sequence!RemoveOne(key) \/ Sequence!RemoveEnds(key)) /\ key \in Data
    BY <1>5, RemoveDeletesRefines, RemoveEndsRefines
  <2>2. PICK d \in Data : d = key
    BY <2>1
  <2>3. Sequence!RemoveOne(d) \/ Sequence!RemoveEnds(d)
    BY <2>1, <2>2 DEF Sequence!RemoveOne, Sequence!RemoveEnds, Sequence!Positions
  <2> QED
    BY <2>3 DEF Sequence!SeqNext
<1>6. ASSUME ClearDeletes \/ ClearEnds \/ SortEnds PROVE Sequence!SeqNext
  BY <1>6, ClearDeletesRefines, ClearEndsRefines, SortEndsRefines DEF Sequence!SeqNext
<1>7. ASSUME SortCompares PROVE Sequence!SeqNext \/ UNCHANGED Sequence!seqVars
  <2>1. DOMAIN items = 1..Len(items)
    BY PositionOf DEF IInv
  <2> QED
    BY <1>7, <2>1, SortComparesRefines DEF Sequence!SeqNext
<1>8. ASSUME SearchPasses \/ RemovePasses \/ IndexPasses \/ SortPassEnds \/ UNCHANGED vars
             \/ (\E d \in Data : SearchBegins(d)) \/ (\E k \in 0..MaxItems : IndexBegins(k))
      PROVE  UNCHANGED Sequence!seqVars
  <2>1. UNCHANGED <<items, mem, result, got>> /\ Mode(op') = Mode(op)
    BY <1>8 DEF SearchPasses, RemovePasses, IndexPasses, SortPassEnds,
       SearchBegins, IndexBegins,
       Begins, Idle, Mode, vars, structVars, localVars
  <2> QED
    BY <2>1, Stutters
<1> QED
  BY <1>1, <1>2, <1>3, <1>4, <1>5, <1>6, <1>7, <1>8 DEF Next

\* The doubly linked list of dynastruc.c implements a sequence: every
\* operation gives and leaves what it would give and leave there, also one
\* that walks while it deletes (unblacklist_ip, dyna_delete_all) and the sort.
THEOREM ListIsSequence == Spec => ImplementsSequence
<1>1. Init => Sequence!SeqInit
  <2> SUFFICES ASSUME Init PROVE Sequence!SeqInit
    OBVIOUS
  <2>1. /\ items = <<>> /\ DOMAIN items = {} /\ result = NULL /\ got = None /\ op = "calls"
    BY DEF Init
  <2>2. [k \in DOMAIN items |-> mem[items[k]].data] = <<>>
    BY <2>1
  <2>3. Position(result) = 0
    <3>1. Live = {}
      BY <2>1 DEF Live, Range
    <3> QED
      BY <3>1 DEF Position
  <2> QED
    BY <2>1, <2>2, <2>3 DEF Sequence!SeqInit, Sequence!None, None
<1> QED
  BY <1>1, Initially, Inductive, StepRefines, PTL DEF Spec, ImplementsSequence,
     Sequence!SeqSpec
=============================================================================
