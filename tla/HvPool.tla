------------------------------- MODULE HvPool -------------------------------
(***************************************************************************)
(* The hypervisor's pool of accounting records (librun/hv_pool.c) and the  *)
(* pool of unique numbers (libwebtester/unique.c), as operators on values. *)
(*                                                                         *)
(* The pool is a list of arrays of arr_size cells.  An array leaves it     *)
(* whole: when it is full and all of its records have outlived `lifetime`. *)
(* A record is [pid, stats, old]; old says that it has.                    *)
(***************************************************************************)
EXTENDS Integers, Sequences, SequencesExt, FiniteSetsExt

\* pool_overview looks at an array from the head on and stops at the first
\* that is not full or holds a record that is still good.
OutOfDate(arr, arr_size) ==
  Len(arr) = arr_size /\ \A i \in DOMAIN arr : arr[i].old

pool_overview(pool, arr_size) ==
  LET kept == {k \in DOMAIN pool : ~OutOfDate(pool[k], arr_size)} IN
  IF kept = {} THEN <<>> ELSE SubSeq(pool, Min(kept), Len(pool))

run_hvpool_put(pool, arr_size, pid, stats) ==
  LET item == [pid |-> pid, stats |-> stats, old |-> FALSE]
      kept == pool_overview(pool, arr_size)
      n == Len(kept)
  IN IF n > 0 /\ Len(kept[n]) < arr_size
       THEN [kept EXCEPT ![n] = Append(@, item)]
       ELSE Append(kept, <<item>>)

\* The arrays that hold a record with the PID.
Holding(pool, pid) == {k \in DOMAIN pool : \E i \in DOMAIN pool[k] : pool[k][i].pid = pid}

HasStats(pool, pid) == Holding(pool, pid) # {}

\* The first record with the PID in the first array that has one: the oldest.
run_hvpool_stats_by_pid_iter(pool, pid) ==
  LET arr == pool[Min(Holding(pool, pid))]
  IN arr[Min({i \in DOMAIN arr : arr[i].pid = pid})].stats

\* `lifetime` seconds went by.
Aged(pool) ==
  [k \in DOMAIN pool |-> [i \in DOMAIN pool[k] |-> [pool[k][i] EXCEPT !.old = TRUE]]]
-----------------------------------------------------------------------------
(* Unique numbers: a stack of all numbers, those below `ptr` are in use.   *)

unique_pool_create(size) == [stack |-> [i \in 0..(size - 1) |-> i], ptr |-> 0]

UniquePoolEmpty(u, size) == u.ptr >= size

unique_alloc_uid(u, size) == IF UniquePoolEmpty(u, size) THEN -1 ELSE u.stack[u.ptr]

AfterAlloc(u, size) == IF UniquePoolEmpty(u, size) THEN u ELSE [u EXCEPT !.ptr = @ + 1]

\* The number goes through an unsigned short: the -1 of a process that got no
\* number comes back as 65535.
unique_release_uid(u, uid) ==
  IF u.ptr =< 0 THEN u
  ELSE [u EXCEPT !.stack[u.ptr - 1] = uid % 65536, !.ptr = @ - 1]
=============================================================================
