---------------------------- MODULE QsortHarness ----------------------------
(***************************************************************************)
(* The quicksort harness, CKernel::Run, initGold and initInput of         *)
(* src/experiments/qsort/kernel.cpp, behind the board bring-up of        *)
(* BoardBringUp: Run starts only once main has seen Initialize succeed.   *)
(*                                                                         *)
(* Startup mounts the partition and reads the golden and the input array  *)
(* with one unchecked FileRead each (a failed open leaves the global      *)
(* array zero).  Each pass of while(1) copies distance into               *)
(* distance_temp, sorts it with Quicksort, counts the elements i <        *)
(* MAXARRAY-1 whose 64 bits differ from temp_gold[i], and sends           *)
(* <<0xDD000000, count>> or <<0xAA000000>>.                               *)
(*                                                                         *)
(* The card's input file is any array of N values; its golden file holds  *)
(* that array sorted (RefSorted).                                         *)
(***************************************************************************)
EXTENDS Naturals, Integers, Sequences, FiniteSets, FiniteSetsExt, BoardBringUp

CONSTANTS
  N,              \* MAXARRAY
  MaxThresh,      \* MAX_THRESH
  Vals,           \* the doubles an input may hold, as ordered numbers
  MaxFaults,      \* elements one fault may corrupt in one iteration
  StorageFaults,  \* whether the storage steps of startup may fail
  None

Idx == 0..N - 1

ASSUME
  /\ N \in Nat \ {0} /\ MaxThresh \in Nat \ {0}
  /\ Vals \subseteq Int /\ 0 \notin Vals
  /\ MaxFaults \in Nat /\ StorageFaults \in BOOLEAN

VARIABLES
  pc,        \* "device", "mount", "gold", "input", "loop"
  devOk, mounted,
  file,      \* the contents of qsort_input_2000000.bin
  distance,  \* the input array
  gold,      \* temp_gold
  boot,      \* status words sent before the loop
  msgs,      \* the message of the current iteration
  a, qpc, lo, hi, mid, left, right, stack, run, tmp

qvars == <<a, qpc, lo, hi, mid, left, right, stack, run, tmp>>
hvars == <<pc, devOk, mounted, file, distance, gold, boot, msgs, qvars>>
vars == <<hvars, bvars>>

QS == INSTANCE Quicksort

ZeroArr == [i \in Idx |-> 0]

(* The reference sort: position i holds the value v that has at most i   *)
(* smaller elements and more than i elements no larger.                 *)
RefSorted(f) ==
  [i \in Idx |-> CHOOSE v \in Range(f) :
                   /\ Cardinality({j \in Idx : f[j] < v}) <= i
                   /\ i < Cardinality({j \in Idx : f[j] <= v})]

Opens == IF mounted THEN (IF StorageFaults THEN BOOLEAN ELSE {TRUE})
         ELSE {FALSE}

Faulty(c) ==
  UNION {{[i \in Idx |-> IF i \in S THEN g[i] ELSE c[i]] : g \in [S -> Vals]} :
           S \in UNION {kSubset(n, Idx) : n \in 0..MaxFaults}}

Init ==
  /\ BInit
  /\ pc = "device"
  /\ devOk = FALSE /\ mounted = FALSE
  /\ file \in [Idx -> Vals]
  /\ distance = ZeroArr /\ gold = ZeroArr
  /\ boot = <<>> /\ msgs = <<>>
  /\ a = ZeroArr /\ qpc = "idle"
  /\ lo = QS!Null /\ hi = QS!Null /\ mid = 0 /\ left = 0 /\ right = 0
  /\ stack = <<>> /\ run = 0 /\ tmp = 0

(* Construction, Initialize and main's test of its result. *)
BringUp == BNext /\ UNCHANGED hvars

GetDevice ==
  /\ bpc = "run" /\ pc = "device"
  /\ pc' = "mount"
  /\ \/ devOk' = TRUE /\ boot' = boot
     \/ StorageFaults /\ devOk' = FALSE /\ boot' = Append(boot, "FF100000")
  /\ UNCHANGED <<bvars, mounted, file, distance, gold, msgs, qvars>>

Mount ==
  /\ pc = "mount"
  /\ pc' = "gold"
  /\ \/ devOk /\ mounted' = TRUE /\ boot' = boot
     \/ (StorageFaults \/ ~devOk) /\ mounted' = FALSE
        /\ boot' = Append(boot, "FF200000")
  /\ UNCHANGED <<bvars, devOk, file, distance, gold, msgs, qvars>>

(* initGold: open, one FileRead of the whole array, close; nothing is   *)
(* checked.                                                             *)
InitGold ==
  /\ pc = "gold"
  /\ pc' = "input"
  /\ \E opened \in Opens : gold' = IF opened THEN RefSorted(file) ELSE gold
  /\ UNCHANGED <<bvars, devOk, mounted, file, distance, boot, msgs, qvars>>

InitInput ==
  /\ pc = "input"
  /\ pc' = "loop"
  /\ \E opened \in Opens : distance' = IF opened THEN file ELSE distance
  /\ UNCHANGED <<bvars, devOk, mounted, file, gold, boot, msgs, qvars>>

(* memcpy (distance_temp, distance, ...) and the call of qsort. *)
Copy ==
  /\ pc = "loop" /\ qpc = "idle"
  /\ a' = distance /\ qpc' = "start"
  /\ msgs' = <<>>
  /\ UNCHANGED <<bvars, pc, devOk, mounted, file, distance, gold, boot,
                 lo, hi, mid, left, right, stack, run, tmp>>

Sort ==
  /\ pc = "loop"
  /\ QS!QStep
  /\ UNCHANGED <<bvars, pc, devOk, mounted, file, distance, gold, boot, msgs>>

(* The elements the check loop looks at: for (i = 0; i < MAXARRAY-1; i++). *)
Checked == 0..N - 2

(* Lines 353-380: count the elements whose bits differ, one message.    *)
(* A fault may have corrupted up to MaxFaults elements of the sorted     *)
(* array.                                                               *)
Report ==
  /\ pc = "loop" /\ qpc = "done"
  /\ \E o \in Faulty(a) :
       LET num == Cardinality({i \in Checked : o[i] # gold[i]})
       IN /\ a' = o
          /\ msgs' = <<IF num # 0 THEN <<"DD", num>> ELSE <<"AA">>>>
  /\ qpc' = "idle"
  /\ UNCHANGED <<bvars, pc, devOk, mounted, file, distance, gold, boot,
                 lo, hi, mid, left, right, stack, run, tmp>>

Next ==
  \/ BringUp
  \/ GetDevice \/ Mount \/ InitGold \/ InitInput \/ Copy \/ Sort \/ Report

(* The code is one thread that always has a next statement to run. *)
Spec == Init /\ [][Next]_vars /\ WF_vars(Next)

-----------------------------------------------------------------------------
QPcs == {"idle", "start", "median", "scanL", "scanR", "cross", "part",
         "insMin", "insNext", "insScan", "insMove", "done"}

TypeOK ==
  /\ BTypeOK
  /\ pc \in {"device", "mount", "gold", "input", "loop"}
  /\ {devOk, mounted} \subseteq BOOLEAN
  /\ file \in [Idx -> Vals]
  /\ {distance, gold, a} \subseteq [Idx -> Vals \cup {0}]
  /\ boot \in Seq({"FF100000", "FF200000"})
  /\ msgs \in Seq({<<"AA">>} \cup ({"DD"} \X (1..N)))
  /\ qpc \in QPcs
  /\ {lo, hi} \subseteq Idx \cup {QS!Null}
  /\ {mid, left, right, run, tmp} \subseteq -1..N
  /\ stack \in Seq((Idx \cup {QS!Null}) \X (Idx \cup {QS!Null}))

(* Partitions pending on the stack, the sentinel left out. *)
Pending == [i \in 1..Len(stack) - 1 |-> stack[i + 1]]

Width(p) == p[2] - p[1]

(* The partition under work, while one is. *)
Partitioning == qpc \in {"median", "scanL", "scanR", "cross", "part"}

(* The push rule of lines 178-190, which bounds the stack at log N       *)
(* entries: every partition waiting on the stack is at least as long as  *)
(* the one being partitioned, and the stack's entries get no longer from *)
(* bottom to top.  Pushing the smaller half instead lets a stack of      *)
(* STACK_SIZE entries overflow on a large input.                         *)
StackHoldsLarger ==
  /\ \A i \in 1..Len(Pending) - 1 : Width(Pending[i]) >= Width(Pending[i + 1])
  /\ Partitioning => \A i \in DOMAIN Pending : Width(Pending[i]) >= hi - lo

(* qsort sorts: whenever it returns, distance_temp holds the input it    *)
(* was given, the copy of distance, in ascending order, exactly as the   *)
(* reference sort orders it.                                            *)
SortsInput == qpc = "done" => a = RefSorted(distance)

(* Every call of qsort returns, and every pass of while(1) sends its     *)
(* message.                                                             *)
SortTerminates == (qpc = "start") ~> (qpc = "done")

(* Run starts, and the first word goes out on the soft serial line, only *)
(* after all six devices of Initialize are up: a failed Initialize of    *)
(* any one of them, even one followed by calls that succeed, keeps the   *)
(* board halted before GetDevice.                                       *)
RunOnlyWhenReady == (pc # "device" \/ devOk) => ready = Devices

(* The spec: an iteration's report counts the elements of the sorted     *)
(* array that differ from the golden array.  The check loop stops at     *)
(* MAXARRAY-1 and never compares the last element.                      *)
CountsEveryElement ==
  msgs # <<>> =>
    LET num == Cardinality({i \in Idx : a[i] # gold[i]})
    IN msgs[1] = IF num # 0 THEN <<"DD", num>> ELSE <<"AA">>
=============================================================================
