------------------------------- MODULE DynaSeq -------------------------------
(***************************************************************************)
(* What a dynastruc (libwebtester/dynastruc.h) promises: a sequence with   *)
(* insertion and removal at both ends, removal of a found item or of all   *)
(* items equal to a given one, access by index, and sorting.               *)
(***************************************************************************)
EXTENDS Integers, SequencesExt

CONSTANTS Data,    \* the items
          MaxItems \* bound: the length of the list

VARIABLES list,  \* the items
          found, \* position of the item the last search or access found, or 0
          got,   \* the data the last removal from an end gave, or None
          mode   \* "calls", or what a long operation does: "remove", "clear", "sort"

seqVars == <<list, found, got, mode>>

None == 0

Positions(d) == {i \in DOMAIN list : list[i] = d}
Least(s) == IF s = {} THEN 0 ELSE CHOOSE i \in s : \A j \in s : i <= j

SeqInit == list = <<>> /\ found = 0 /\ got = None /\ mode = "calls"

AddToFront(d) ==
  mode = "calls" /\ list' = <<d>> \o list /\ found' = 0 /\ UNCHANGED <<got, mode>>

AddToBack(d) ==
  mode = "calls" /\ list' = Append(list, d) /\ found' = 0 /\ UNCHANGED <<got, mode>>

DelFromFront ==
  /\ mode = "calls" /\ list # <<>> /\ got' = Head(list) /\ list' = Tail(list)
  /\ found' = 0 /\ UNCHANGED mode

DelFromBack ==
  /\ mode = "calls" /\ list # <<>> /\ got' = Last(list) /\ list' = Front(list)
  /\ found' = 0 /\ UNCHANGED mode

\* Either end of an empty list gives nothing.
DelFromEmpty == mode = "calls" /\ list = <<>> /\ got' = None /\ UNCHANGED <<list, found, mode>>

\* The first item equal to d.
Find(d) == mode = "calls" /\ found' = Least(Positions(d)) /\ UNCHANGED <<list, got, mode>>

\* The item with index i, counted from 0.
ByIndex(i) ==
  /\ mode = "calls" /\ found' = IF i < Len(list) THEN i + 1 ELSE 0
  /\ UNCHANGED <<list, got, mode>>

\* The found item is deleted.
Delete == /\ mode = "calls" /\ found # 0 /\ list' = RemoveAt(list, found)
          /\ found' = 0 /\ UNCHANGED <<got, mode>>

Begin(m) == mode = "calls" /\ mode' = m /\ found' = 0 /\ UNCHANGED <<list, got>>
End == mode' = "calls" /\ UNCHANGED <<list, found, got>>

\* All items equal to d are deleted, one after the other.
RemoveOne(d) ==
  /\ mode = "remove" /\ Positions(d) # {}
  /\ list' = RemoveAt(list, Least(Positions(d))) /\ UNCHANGED <<found, got, mode>>
RemoveEnds(d) == mode = "remove" /\ Positions(d) = {} /\ End

\* All items are deleted, from the front.
ClearOne == mode = "clear" /\ list # <<>> /\ list' = Tail(list) /\ UNCHANGED <<found, got, mode>>
ClearEnds == mode = "clear" /\ list = <<>> /\ End

\* Neighbours are exchanged until the list is sorted.  Equal items keep
\* their order.
SortSwap(i) ==
  /\ mode = "sort" /\ i \in 1..(Len(list) - 1) /\ list[i] > list[i + 1]
  /\ list' = [list EXCEPT ![i] = list[i + 1], ![i + 1] = list[i]]
  /\ UNCHANGED <<found, got, mode>>
SortEnds ==
  mode = "sort" /\ (\A i \in 1..(Len(list) - 1) : list[i] <= list[i + 1]) /\ End

SeqNext ==
  \/ \E d \in Data : \/ AddToFront(d) \/ AddToBack(d) \/ Find(d)
                     \/ RemoveOne(d) \/ RemoveEnds(d)
  \/ DelFromFront \/ DelFromBack \/ DelFromEmpty \/ Delete
  \/ (\E i \in 0..MaxItems : ByIndex(i)) \/ (\E i \in DOMAIN list : SortSwap(i))
  \/ \E m \in {"remove", "clear", "sort"} : Begin(m)
  \/ ClearOne \/ ClearEnds \/ SortEnds

SeqSpec == SeqInit /\ [][SeqNext]_seqVars
=============================================================================
