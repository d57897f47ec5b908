-------------------------- MODULE TestingDirsProofs -------------------------
(***************************************************************************)
(* Proofs about TestingDirs, for every set of solutions, every             *)
(* keep_alive_testdirs and any number of testings.                         *)
(***************************************************************************)
EXTENDS TestingDirs, TLAPS, FiniteSetTheorems, SequenceTheorems, WellFoundedInduction

Places == {"none", "lck", "mkdir", "flock", "testing", "unlink", "interval", "each", "rm"}

DirsTypeOK ==
  /\ dirs \in SUBSET Solutions /\ IsFiniteSet(dirs) /\ lockFiles \in SUBSET Solutions
  /\ lck \in Solutions \cup {Nobody} /\ unlinker \in Solutions \cup {Nobody}
  /\ at \in [Solutions -> Places] /\ ls \in Seq(Solutions) /\ again \in SUBSET Solutions

\* Who is between lock and unlock of one of the mutexes owns it.
Owners ==
  \A s \in Solutions :
    /\ at[s] \in {"mkdir", "flock"} => lck = s
    /\ at[s] \in {"interval", "each", "rm"} => unlinker = s
    /\ at[s] = "rm" => ls # <<>>

\* The directory of a new testing is not in the listing before its lock file
\* is there, and is not about to be deleted afterwards.
Safe(s) ==
  /\ at[s] = "lck" => s \notin dirs
  /\ at[s] \in {"lck", "mkdir", "flock"} => s \notin Range(ls)
  /\ at[s] = "flock" => s \in dirs
  /\ at[s] = "testing" => /\ s \in dirs /\ s \in lockFiles
                          /\ \A u \in Solutions : at[u] = "rm" => Head(ls) # s

IInv == DirsTypeOK /\ Owners /\ \A s \in Solutions \ again : Safe(s)
-----------------------------------------------------------------------------
(* The listing.                                                            *)

\* A set of numbers has a smallest one.
LEMMA Smallest ==
  ASSUME NEW T \in SUBSET Nat, T # {}
  PROVE  \E x \in T : \A y \in T : x <= y
<1> DEFINE R == OpToRel(<, Nat)
<1>1. IsWellFoundedOn(R, Nat)
  BY NatLessThanWellFounded
<1>2. PICK x \in T : \A y \in T : ~ (<<y, x>> \in R)
  BY <1>1, WFMin
<1>3. ASSUME NEW y \in T PROVE x <= y
  <2>1. <<y, x>> \in R <=> y < x
    BY DEF OpToRel
  <2>2. ~(y < x) /\ x \in Nat /\ y \in Nat
    BY <1>2, <2>1
  <2> QED  BY <2>2
<1> QED  BY <1>3

\* The listing of a directory exists, whatever is in it.  (The least number of
\* entries without a listing would have one: the smallest entry and then the
\* listing of the others.)
LEMMA ListingExists ==
  ASSUME NEW S \in SUBSET Nat, IsFiniteSet(S)
  PROVE  \E l \in SetToSeqs(S) : \A j, k \in DOMAIN l : j < k => l[j] < l[k]
<1> DEFINE Listed(D) == \E l \in SetToSeqs(D) : \A j, k \in DOMAIN l : j < k => l[j] < l[k]
           Bad == {n \in Nat : \E D \in SUBSET Nat :
                                 IsFiniteSet(D) /\ Cardinality(D) = n /\ ~Listed(D)}
<1>1. SUFFICES ASSUME Bad # {} PROVE FALSE
  BY <1>1, FS_CardinalityType
<1>2. PICK n \in Bad : \A m \in Bad : n <= m
  BY <1>1, Smallest
<1>3. PICK D \in SUBSET Nat : IsFiniteSet(D) /\ Cardinality(D) = n /\ ~Listed(D)
  OBVIOUS
<1>4. CASE n = 0
  <2>1. D = {}
    BY <1>3, <1>4, FS_EmptySet
  <2> DEFINE l == [k \in 1..0 |-> 0]
  <2>2. l \in SetToSeqs(D)
    BY <1>3, <1>4, <2>1 DEF SetToSeqs
  <2> QED  BY <1>3, <2>2
<1>5. CASE n # 0
  <2>1. PICK m \in D : \A y \in D : m <= y
    BY <1>3, <1>5, FS_EmptySet, Smallest
  <2> DEFINE E == D \ {m}
  <2>2. IsFiniteSet(E) /\ Cardinality(E) = n - 1 /\ E \in SUBSET Nat /\ n - 1 \in Nat
    BY <1>3, <1>5, FS_RemoveElement
  <2>3. n - 1 \notin Bad
    BY <1>2, <2>2
  <2>4. Listed(E)
    BY <2>2, <2>3
  <2>5. PICK e \in SetToSeqs(E) : \A j, k \in DOMAIN e : j < k => e[j] < e[k]
    BY <2>4
  <2>6. e \in [1..(n - 1) -> E]
    BY <2>2, <2>5 DEF SetToSeqs
  <2> DEFINE l == [k \in 1..n |-> IF k = 1 THEN m ELSE e[k - 1]]
  <2>7. l \in [1..n -> D] /\ DOMAIN l = 1..n
    BY <2>2, <2>6
  <2>8. ASSUME NEW j \in 1..n, NEW k \in 1..n, j < k PROVE l[j] < l[k]
    <3>1. k - 1 \in 1..(n - 1) /\ l[k] = e[k - 1] /\ e[k - 1] \in E
      BY <2>2, <2>6, <2>8
    <3>2. CASE j = 1
      <4>1. l[j] = m /\ m \in Nat /\ e[k - 1] \in Nat /\ m <= e[k - 1] /\ e[k - 1] # m
        BY <2>1, <3>1, <3>2
      <4> QED  BY <3>1, <4>1
    <3>3. CASE j # 1
      <4>1. j - 1 \in 1..(n - 1) /\ l[j] = e[j - 1] /\ j - 1 < k - 1
        BY <2>2, <2>8, <3>3
      <4> QED  BY <2>5, <2>6, <3>1, <4>1
    <3> QED  BY <3>2, <3>3
  <2>9. ASSUME NEW j \in 1..n, NEW k \in 1..n, j # k PROVE l[j] # l[k]
    <3>1. l[j] \in D /\ l[k] \in D
      BY <2>7
    <3>2. l[j] \in Nat /\ l[k] \in Nat
      BY <3>1
    <3>3. j < k \/ k < j
      BY <2>9
    <3> QED  BY <2>8, <3>2, <3>3
  <2>10. l \in SetToSeqs(D)
    BY <1>3, <2>7, <2>9 DEF SetToSeqs
  <2> QED  BY <1>3, <2>7, <2>8, <2>10
<1> QED  BY <1>4, <1>5

\* dir_listing lists what is there and nothing else.
LEMMA Listing ==
  ASSUME NEW T \in SUBSET Nat, NEW S \in SUBSET T, IsFiniteSet(S)
  PROVE  dir_listing(S) \in Seq(T) /\ Range(dir_listing(S)) \subseteq S
<1>1. dir_listing(S) \in [1..Cardinality(S) -> S]
  BY ListingExists DEF dir_listing, SetToSeqs
<1>2. dir_listing(S) \in [1..Cardinality(S) -> T] /\ Cardinality(S) \in Nat
  BY <1>1, FS_CardinalityType
<1>3. dir_listing(S) \in Seq(T)
  BY <1>2, SeqDef
<1> QED  BY <1>1, <1>3 DEF Range

\* The head of a listing is in it, and its tail lists nothing new.
LEMMA ListingRest ==
  ASSUME NEW S, NEW l \in Seq(S), l # <<>>
  PROVE  /\ Head(l) \in Range(l) /\ Head(l) \in S
         /\ Tail(l) \in Seq(S) /\ Range(Tail(l)) \subseteq Range(l)
<1>1. /\ 1 \in DOMAIN l /\ Head(l) = l[1] /\ Head(l) \in S /\ Tail(l) \in Seq(S)
      /\ \A k \in DOMAIN Tail(l) : k + 1 \in DOMAIN l /\ Tail(l)[k] = l[k + 1]
  OBVIOUS
<1> QED  BY <1>1 DEF Range
-----------------------------------------------------------------------------
(* The inductive invariant.                                                *)

\* Every step leaves the types alone.
LEMMA Typing ==
  ASSUME IInv, [DirsNext]_dirVars
  PROVE  DirsTypeOK'
<1>0. DirsTypeOK /\ Owners
  BY DEF IInv
<1> USE <1>0, DirsAssumption DEF DirsTypeOK, Places, Moves
<1>1. ASSUME NEW s \in Solutions, Begin(s) PROVE DirsTypeOK'
  BY <1>1, FS_Subset DEF Begin, unlinkdir
<1>2. ASSUME NEW s \in Solutions, LockDirs(s) PROVE DirsTypeOK'
  BY <1>2 DEF LockDirs
<1>3. ASSUME NEW s \in Solutions, MakeDir(s) PROVE DirsTypeOK'
  BY <1>3, FS_AddElement DEF MakeDir
<1>4. ASSUME NEW s \in Solutions, SetLock(s) PROVE DirsTypeOK'
  BY <1>4 DEF SetLock, flock_set
<1>5. ASSUME NEW s \in Solutions, TestingEnds(s) PROVE DirsTypeOK'
  BY <1>5 DEF TestingEnds, flock_clear
<1>6. ASSUME NEW s \in Solutions, LockUnlink(s) \/ NotYet(s) \/ FoundUnlocked(s) PROVE DirsTypeOK'
  BY <1>6 DEF LockUnlink, NotYet, FoundUnlocked
<1>7. ASSUME NEW s \in Solutions, ListDirs(s) PROVE DirsTypeOK'
  <2>1. dir_listing(dirs) \in Seq(Solutions)
    BY Listing
  <2> QED  BY <1>7, <2>1 DEF ListDirs
<1>8. ASSUME NEW s \in Solutions, SkipLocked(s) PROVE DirsTypeOK'
  BY <1>8 DEF SkipLocked
<1>9. ASSUME NEW s \in Solutions, UnlinkDir(s) PROVE DirsTypeOK'
  <2>1. ls # <<>>
    BY <1>9 DEF UnlinkDir, Owners
  <2>2. Tail(ls) \in Seq(Solutions)
    BY <2>1, ListingRest
  <2>3. IsFiniteSet(dirs \ {Head(ls)})
    BY FS_Subset
  <2> QED  BY <1>9, <2>2, <2>3 DEF UnlinkDir, unlinkdir
<1>10. ASSUME NEW s \in Solutions, UnlinkEnds(s) PROVE DirsTypeOK'
  BY <1>10 DEF UnlinkEnds
<1>11. CASE UNCHANGED dirVars
  BY <1>11 DEF dirVars
<1> QED  BY <1>1, <1>2, <1>3, <1>4, <1>5, <1>6, <1>7, <1>8, <1>9, <1>10, <1>11 DEF DirsNext

\* A mutex is taken when it is free and released by its owner.
LEMMA OwnersKept ==
  ASSUME IInv, [DirsNext]_dirVars
  PROVE  Owners'
<1>0. DirsTypeOK /\ Owners /\ Nobody \notin Solutions
  BY DirsAssumption DEF IInv, Nobody
<1> USE <1>0 DEF DirsTypeOK, Owners, Moves
<1>1. ASSUME NEW s \in Solutions, Begin(s) PROVE Owners'
  BY <1>1 DEF Begin
<1>2. ASSUME NEW s \in Solutions, LockDirs(s) \/ MakeDir(s) \/ SetLock(s) PROVE Owners'
  BY <1>2 DEF LockDirs, MakeDir, SetLock
<1>3. ASSUME NEW s \in Solutions, TestingEnds(s) PROVE Owners'
  BY <1>3 DEF TestingEnds
<1>4. ASSUME NEW s \in Solutions, LockUnlink(s) \/ NotYet(s) PROVE Owners'
  BY <1>4 DEF LockUnlink, NotYet
<1>5. ASSUME NEW s \in Solutions, ListDirs(s) PROVE Owners'
  BY <1>5 DEF ListDirs
<1>6. ASSUME NEW s \in Solutions, SkipLocked(s) \/ FoundUnlocked(s) PROVE Owners'
  BY <1>6 DEF SkipLocked, FoundUnlocked
<1>7. ASSUME NEW s \in Solutions, UnlinkDir(s) \/ UnlinkEnds(s) PROVE Owners'
  BY <1>7 DEF UnlinkDir, UnlinkEnds
<1>8. CASE UNCHANGED dirVars
  BY <1>8 DEF dirVars
<1> QED  BY <1>1, <1>2, <1>3, <1>4, <1>5, <1>6, <1>7, <1>8 DEF DirsNext

\* No step of anybody makes the directory of a new testing unsafe.
LEMMA SafeKept ==
  ASSUME IInv, [DirsNext]_dirVars, NEW x \in Solutions \ again'
  PROVE  Safe(x)'
<1>0. DirsTypeOK /\ Owners /\ Nobody \notin Solutions /\ (x \notin again => Safe(x))
  BY DirsAssumption DEF IInv, Nobody
<1> USE <1>0 DEF DirsTypeOK, Owners, Safe, Moves
<1>1. ASSUME NEW s \in Solutions, Begin(s) PROVE Safe(x)'
  BY <1>1 DEF Begin, unlinkdir
<1>2. ASSUME NEW s \in Solutions, LockDirs(s) PROVE Safe(x)'
  BY <1>2 DEF LockDirs
<1>3. ASSUME NEW s \in Solutions, MakeDir(s) PROVE Safe(x)'
  BY <1>3 DEF MakeDir
<1>4. ASSUME NEW s \in Solutions, SetLock(s) PROVE Safe(x)'
  BY <1>4, ListingRest DEF SetLock, flock_set
<1>5. ASSUME NEW s \in Solutions, TestingEnds(s) PROVE Safe(x)'
  BY <1>5 DEF TestingEnds, flock_clear
<1>6. ASSUME NEW s \in Solutions, LockUnlink(s) \/ NotYet(s) PROVE Safe(x)'
  BY <1>6 DEF LockUnlink, NotYet
<1>7. ASSUME NEW s \in Solutions, ListDirs(s) PROVE Safe(x)'
  <2>1. Range(ls') \subseteq dirs
    BY <1>7, Listing, DirsAssumption DEF ListDirs
  <2>2. at'[s] = "each" /\ \A u \in Solutions : at'[u] # "rm"
    BY <1>7 DEF ListDirs
  <2> QED  BY <1>7, <2>1, <2>2 DEF ListDirs
<1>8. ASSUME NEW s \in Solutions, SkipLocked(s) PROVE Safe(x)'
  <2>1. Range(ls') \subseteq Range(ls)
    BY <1>8, ListingRest DEF SkipLocked
  <2>2. \A u \in Solutions : at'[u] # "rm"
    BY <1>8 DEF SkipLocked
  <2> QED  BY <1>8, <2>1, <2>2 DEF SkipLocked
<1>9. ASSUME NEW s \in Solutions, FoundUnlocked(s) PROVE Safe(x)'
  BY <1>9 DEF FoundUnlocked, flock_test
<1>10. ASSUME NEW s \in Solutions, UnlinkDir(s) PROVE Safe(x)'
  <2>1. ls # <<>> /\ Head(ls) \in Range(ls) /\ Range(ls') \subseteq Range(ls)
    BY <1>10, ListingRest DEF UnlinkDir
  <2>2. \A u \in Solutions : at'[u] # "rm"
    BY <1>10 DEF UnlinkDir
  <2> QED  BY <1>10, <2>1, <2>2 DEF UnlinkDir, unlinkdir
<1>11. ASSUME NEW s \in Solutions, UnlinkEnds(s) PROVE Safe(x)'
  <2>1. Range(ls') = {} /\ \A u \in Solutions : at'[u] # "rm"
    BY <1>11 DEF UnlinkEnds, Range
  <2> QED  BY <1>11, <2>1 DEF UnlinkEnds
<1>12. CASE UNCHANGED dirVars
  BY <1>12 DEF dirVars
<1> QED  BY <1>1, <1>2, <1>3, <1>4, <1>5, <1>6, <1>7, <1>8, <1>9, <1>10, <1>11, <1>12
         DEF DirsNext

\* For any number of solutions tested at once and again, the deletion of old
\* directories never hits the one of a running testing that is new: the lock
\* file need not be looked at under lck_mutex, and the listing may be old.
THEOREM NewDirsSafe == DirsSpec => []NewDirsAreSafe
<1>1. DirsInit => IInv
  <2> SUFFICES ASSUME DirsInit PROVE IInv
    OBVIOUS
  <2>1. DirsTypeOK
    BY FS_EmptySet DEF DirsInit, DirsTypeOK, Places
  <2>2. Owners /\ \A s \in Solutions : Safe(s)
    BY DEF DirsInit, Owners, Safe
  <2> QED  BY <2>1, <2>2 DEF IInv
<1>2. IInv /\ [DirsNext]_dirVars => IInv'
  BY Typing, OwnersKept, SafeKept DEF IInv
<1>3. IInv => NewDirsAreSafe
  BY DEF IInv, Safe, NewDirsAreSafe
<1> QED  BY <1>1, <1>2, <1>3, PTL DEF DirsSpec
=============================================================================
