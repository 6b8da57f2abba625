----------------------------- MODULE Quicksort -----------------------------
(***************************************************************************)
(* The non-recursive quicksort of src/experiments/qsort/kernel.cpp,        *)
(* qsort (pbase, total_elems, size) with compare on doubles: median-of-    *)
(* three pivot, the "collapse the walls" partition, an explicit stack of  *)
(* pending partitions (larger one pushed, smaller one sorted next), and   *)
(* an insertion sort over the whole array once every partition left is at *)
(* most MAX_THRESH + 1 elements long.                                     *)
(*                                                                         *)
(* Pointers are indices: base_ptr + i * size is i, so differences of      *)
(* pointers divided by size are differences of indices and max_thresh is  *)
(* MaxThresh.  Each step is one pass of an innermost loop, or the         *)
(* straight-line code between two loop heads.  The byte-wise SWAP and the *)
(* byte-wise rotation of the insertion sort move whole elements.  NULL,   *)
(* the bounds of the sentinel stack entry, is -1.                         *)
(***************************************************************************)
EXTENDS Naturals, Integers, Sequences, SequencesExt

CONSTANTS
  N,           \* total_elems
  MaxThresh    \* MAX_THRESH

VARIABLES
  a,           \* the array being sorted, indexed 0..N-1
  qpc,         \* the step of qsort about to run
  lo, hi, mid, left, right,
  stack,       \* the pending partitions, the sentinel first
  run, tmp     \* run_ptr and tmp_ptr of the insertion sort

qvars == <<a, qpc, lo, hi, mid, left, right, stack, run, tmp>>

Null == -1

Swap(arr, i, j) == [arr EXCEPT ![i] = arr[j], ![j] = arr[i]]

(* compare (x, y) < 0 *)
Less(arr, i, j) == arr[i] < arr[j]

(* Mutant: the first partition ends at total_elems, one past the last   *)
(* element.                                                             *)
QStartHiN ==
  /\ qpc = "start"
  /\ \/ N = 0 /\ qpc' = "done" /\ UNCHANGED <<lo, hi, stack>>
     \/ N > MaxThresh /\ qpc' = "median"
        /\ lo' = 0 /\ hi' = N /\ stack' = <<<<Null, Null>>>>
     \/ 0 < N /\ N <= MaxThresh /\ qpc' = "insMin" /\ UNCHANGED <<lo, hi, stack>>
  /\ UNCHANGED <<a, mid, left, right, run, tmp>>

(* Entry: an empty array returns at once; a long one is partitioned. *)
QStart ==
  /\ qpc = "start"
  /\ \/ N = 0 /\ qpc' = "done" /\ UNCHANGED <<lo, hi, stack>>
     \/ N > MaxThresh /\ qpc' = "median"
        /\ lo' = 0 /\ hi' = N - 1 /\ stack' = <<<<Null, Null>>>>
     \/ 0 < N /\ N <= MaxThresh /\ qpc' = "insMin" /\ UNCHANGED <<lo, hi, stack>>
  /\ UNCHANGED <<a, mid, left, right, run, tmp>>

(* Lines 125-136: sort lo, mid, hi among themselves; the walls start   *)
(* just inside them.                                                    *)
Median ==
  /\ qpc = "median"
  /\ LET m == lo + (hi - lo) \div 2
         a1 == IF Less(a, m, lo) THEN Swap(a, m, lo) ELSE a
         a2 == IF Less(a1, hi, m) THEN Swap(a1, m, hi) ELSE a1
         a3 == IF Less(a1, hi, m) /\ Less(a2, m, lo) THEN Swap(a2, m, lo) ELSE a2
     IN /\ a' = a3 /\ mid' = m
        /\ left' = lo + 1 /\ right' = hi - 1
  /\ qpc' = "scanL"
  /\ UNCHANGED <<lo, hi, stack, run, tmp>>

(* Mutant: left_ptr += size lost from the scan. *)
ScanLeftNoStep ==
  /\ qpc = "scanL"
  /\ IF Less(a, left, mid) THEN left' = left /\ qpc' = qpc
                           ELSE qpc' = "scanR" /\ left' = left
  /\ UNCHANGED <<a, lo, hi, mid, right, stack, run, tmp>>

(* while (compare (left_ptr, mid) < 0) left_ptr += size; *)
ScanLeft ==
  /\ qpc = "scanL"
  /\ IF Less(a, left, mid) THEN left' = left + 1 /\ qpc' = qpc
                           ELSE qpc' = "scanR" /\ left' = left
  /\ UNCHANGED <<a, lo, hi, mid, right, stack, run, tmp>>

(* while (compare (mid, right_ptr) < 0) right_ptr -= size; *)
ScanRight ==
  /\ qpc = "scanR"
  /\ IF Less(a, mid, right) THEN right' = right - 1 /\ qpc' = qpc
                            ELSE qpc' = "cross" /\ right' = right
  /\ UNCHANGED <<a, lo, hi, mid, left, stack, run, tmp>>

(* Lines 146-163: swap across the walls (the pivot's index follows its  *)
(* value), or step over a meeting point, then test the do-while.        *)
Cross ==
  /\ qpc = "cross"
  /\ \/ /\ left < right
        /\ a' = Swap(a, left, right)
        /\ mid' = IF mid = left THEN right ELSE IF mid = right THEN left ELSE mid
        /\ left' = left + 1 /\ right' = right - 1
        /\ qpc' = IF left + 1 <= right - 1 THEN "scanL" ELSE "part"
     \/ /\ left = right
        /\ left' = left + 1 /\ right' = right - 1
        /\ qpc' = "part"
        /\ UNCHANGED <<a, mid>>
     \/ /\ left > right
        /\ qpc' = "part"
        /\ UNCHANGED <<a, mid, left, right>>
  /\ UNCHANGED <<lo, hi, stack, run, tmp>>

(* The in-line stack of lines 63-65: PUSH stores at top and moves it up, *)
(* POP moves top down and reloads lo and hi; the stack is not empty     *)
(* while top is above its base.                                          *)
Push(l, h) == stack' = Append(stack, <<l, h>>)

Pop == lo' = Last(stack)[1] /\ hi' = Last(stack)[2] /\ stack' = Front(stack)

StackNotEmpty(st) == st # <<>>

(* (size_t) d <= max_thresh: a negative difference wraps to a huge size. *)
Small(d) == 0 <= d /\ d <= MaxThresh

(* Mutant: the comparison of line 180 reversed, the smaller partition    *)
(* pushed and the larger one sorted next.                               *)
PartitionPushSmaller ==
  /\ qpc = "part"
  /\ \/ /\ Small(right - lo) /\ Small(hi - left)
        /\ Pop
     \/ /\ Small(right - lo) /\ ~Small(hi - left)
        /\ lo' = left /\ UNCHANGED <<hi, stack>>
     \/ /\ ~Small(right - lo) /\ Small(hi - left)
        /\ hi' = right /\ UNCHANGED <<lo, stack>>
     \/ /\ ~Small(right - lo) /\ ~Small(hi - left)
        /\ right - lo < hi - left
        /\ Push(lo, right)
        /\ lo' = left /\ UNCHANGED hi
     \/ /\ ~Small(right - lo) /\ ~Small(hi - left)
        /\ ~(right - lo < hi - left)
        /\ Push(left, hi)
        /\ hi' = right /\ UNCHANGED lo
  /\ qpc' = IF StackNotEmpty(stack') THEN "median" ELSE "insMin"
  /\ UNCHANGED <<a, mid, left, right, run, tmp>>

(* Lines 168-191: drop partitions that are small, push the larger of two *)
(* long ones and go on with the smaller; the while tests the stack.      *)
Partition ==
  /\ qpc = "part"
  /\ \/ /\ Small(right - lo) /\ Small(hi - left)
        /\ Pop
     \/ /\ Small(right - lo) /\ ~Small(hi - left)
        /\ lo' = left /\ UNCHANGED <<hi, stack>>
     \/ /\ ~Small(right - lo) /\ Small(hi - left)
        /\ hi' = right /\ UNCHANGED <<lo, stack>>
     \/ /\ ~Small(right - lo) /\ ~Small(hi - left)
        /\ right - lo > hi - left
        /\ Push(lo, right)
        /\ lo' = left /\ UNCHANGED hi
     \/ /\ ~Small(right - lo) /\ ~Small(hi - left)
        /\ ~(right - lo > hi - left)
        /\ Push(left, hi)
        /\ hi' = right /\ UNCHANGED lo
  /\ qpc' = IF StackNotEmpty(stack') THEN "median" ELSE "insMin"
  /\ UNCHANGED <<a, mid, left, right, run, tmp>>

(* The first index of the least element among 0..t, as the loop of      *)
(* lines 208-210 finds it.                                              *)
RECURSIVE FirstMin(_, _)
FirstMin(arr, t) ==
  IF t = 0 THEN 0
  ELSE LET m == FirstMin(arr, t - 1) IN IF arr[t] < arr[m] THEN t ELSE m

(* Lines 201-214: bring the least of the first MAX_THRESH + 1 elements   *)
(* to the front, as the inner loop's sentinel.                          *)
InsMin ==
  /\ qpc = "insMin"
  /\ LET t == IF N - 1 < MaxThresh THEN N - 1 ELSE MaxThresh
         m == FirstMin(a, t)
     IN a' = IF m # 0 THEN Swap(a, m, 0) ELSE a
  /\ run' = 1
  /\ qpc' = "insNext"
  /\ UNCHANGED <<lo, hi, mid, left, right, stack, tmp>>

(* while ((run_ptr += size) <= end_ptr) tmp_ptr = run_ptr - size; *)
InsNext ==
  /\ qpc = "insNext"
  /\ run' = run + 1
  /\ IF run + 1 <= N - 1 THEN tmp' = run /\ qpc' = "insScan"
                         ELSE qpc' = "done" /\ tmp' = tmp
  /\ UNCHANGED <<a, lo, hi, mid, left, right, stack>>

(* Mutant: tmp_ptr += size after the scan lost; the element lands one   *)
(* place too low.                                                       *)
InsScanNoStep ==
  /\ qpc = "insScan"
  /\ IF Less(a, run, tmp) THEN tmp' = tmp - 1 /\ qpc' = qpc
                          ELSE tmp' = tmp /\ qpc' = "insMove"
  /\ UNCHANGED <<a, lo, hi, mid, left, right, stack, run>>

(* while (compare (run_ptr, tmp_ptr) < 0) tmp_ptr -= size; *)
InsScan ==
  /\ qpc = "insScan"
  /\ IF Less(a, run, tmp) THEN tmp' = tmp - 1 /\ qpc' = qpc
                          ELSE tmp' = tmp + 1 /\ qpc' = "insMove"
  /\ UNCHANGED <<a, lo, hi, mid, left, right, stack, run>>

(* Lines 221-233: the element at run_ptr moves down to tmp_ptr and the   *)
(* ones between shift up by one.                                        *)
InsMove ==
  /\ qpc = "insMove"
  /\ a' = IF tmp # run
          THEN [i \in DOMAIN a |-> IF i = tmp THEN a[run]
                                   ELSE IF tmp < i /\ i <= run THEN a[i - 1]
                                   ELSE a[i]]
          ELSE a
  /\ qpc' = "insNext"
  /\ UNCHANGED <<lo, hi, mid, left, right, stack, run, tmp>>

QStep == QStart \/ Median \/ ScanLeft \/ ScanRight \/ Cross \/ Partition
         \/ InsMin \/ InsNext \/ InsScan \/ InsMove
=============================================================================
