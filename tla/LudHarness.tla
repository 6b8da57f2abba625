----------------------------- MODULE LudHarness -----------------------------
(***************************************************************************)
(* The LU-decomposition harness, CKernel::Run of                          *)
(* src/experiments/lud/kernel.cpp.                                        *)
(*                                                                         *)
(* m, gold and m_input are local arrays of Run, so they start with        *)
(* whatever the stack holds.  Run never mounts the partition: it opens    *)
(* the input file, sends 0xFFF00000 if the handle is 0, reads N*N         *)
(* elements with one FileRead whatever the handle, and does the same for  *)
(* the golden file.  Each pass of while(1) copies m_input into m, runs    *)
(* lud_omp (m, N) and walks i, then j, comparing m[i + N*j] with          *)
(* gold[i + N*j], with the payload <<i, j, high word, low word>>.         *)
(*                                                                         *)
(* lud_omp and the type FP come from a header and a file that are not in  *)
(* the repository: LudOf is the fault-free result of lud_omp on an input, *)
(* and an element is a member of Bits whose halves are Split[b].          *)
(***************************************************************************)
EXTENDS Naturals, Sequences, FiniteSetsExt

CONSTANTS
  N,              \* N, the matrix is N x N
  Bits,           \* FP bit patterns
  PosZero, NegZero, NaN,
  Split,          \* the two 32-bit halves of each pattern
  InputFile,      \* the contents of input_1024_th_1
  GoldFile,       \* the contents of gold_1024_th_1
  Garbage,        \* what the stack may hold where a local array lies
  LudOf(_),       \* the fault-free result of lud_omp on an input
  MaxFaults,      \* elements one fault may corrupt in one iteration
  None, Garbled

Cells == 0..N * N - 1

Vectors == [Cells -> Bits]

ASSUME
  /\ N \in Nat \ {0}
  /\ PosZero \in Bits
  /\ Split \in [Bits -> STRING \X STRING]
  /\ {InputFile, GoldFile} \subseteq Vectors /\ Garbage \subseteq Vectors
  /\ \A x \in Garbage \cup {InputFile} : LudOf(x) \in Vectors
  /\ MaxFaults \in Nat

VARIABLES
  pc,        \* "openIn", "readIn", "openGold", "readGold", "loop"
  fh,        \* the last handle FileOpen returned is non-zero
  boot,      \* status words sent before the loop
  input,     \* m_input
  gold,      \* gold
  out,       \* m
  k, flag, msgs

vars == <<pc, fh, boot, input, gold, out, k, flag, msgs>>

(* Run never calls m_FileSystem.Mount. *)
Mounted == FALSE

(* FileOpen finds the file only on a mounted file system. *)
Opens == IF Mounted THEN {TRUE} ELSE {FALSE}

(* The loop's order: for (i ...) for (j ...) over m[i + N * j]. *)
ColumnWalk == [n \in 1..N * N |-> ((n - 1) \div N) + N * ((n - 1) % N)]

(* m[...] != gold[...] on FP: NaN differs from everything, +0 equals -0. *)
FloatDiffers(a, b) ==
  ~(a # NaN /\ b # NaN /\ (a = b \/ {a, b} = {PosZero, NegZero}))

(* buffer[1] = i, buffer[2] = j, buffer[3] and buffer[4] the high and    *)
(* low words of the element's 64 bits.                                   *)
LudPayload(x, v) == <<x % N, x \div N>> \o Split[v]

(* A consumer: the two index words give the element m[i + N*j]. *)
LudUnpack(p) ==
  <<p[1] + N * p[2],
    IF \E b \in Bits : Split[b] = <<p[3], p[4]>>
    THEN CHOOSE b \in Bits : Split[b] = <<p[3], p[4]>> ELSE Garbled>>

RL == INSTANCE ReportLoop
        WITH Order <- ColumnWalk, Differs <- FloatDiffers,
             Payload <- LudPayload, Unpack <- LudUnpack

(* c with at most MaxFaults of its elements replaced. *)
Faulty(c) ==
  UNION {{[x \in Cells |-> IF x \in S THEN g[x] ELSE c[x]] : g \in [S -> Bits]} :
           S \in UNION {kSubset(n, Cells) : n \in 0..MaxFaults}}

Init ==
  /\ pc = "openIn"
  /\ fh = FALSE
  /\ boot = <<>>
  /\ input \in Garbage /\ gold \in Garbage /\ out \in Garbage
  /\ k = 0 /\ flag = 0 /\ msgs = <<>>

loopVars == <<out, k, flag, msgs>>

(* hFile = FileOpen (name); if (hFile == 0) send 0xFFF00000. *)
Open(next) ==
  /\ \E opened \in Opens :
       /\ fh' = opened
       /\ boot' = IF opened THEN boot ELSE Append(boot, "FFF00000")
  /\ pc' = next
  /\ UNCHANGED <<input, gold, loopVars>>

OpenInput == pc = "openIn" /\ Open("readIn")
OpenGold == pc = "openGold" /\ Open("readGold")

(* FileRead (hFile, buf, sizeof(FP) * N * N), result unchecked: handle 0 *)
(* reads nothing and the array keeps what the stack held.               *)
ReadInput ==
  /\ pc = "readIn" /\ pc' = "openGold"
  /\ input' = IF fh THEN InputFile ELSE input
  /\ UNCHANGED <<fh, boot, gold, loopVars>>

ReadGold ==
  /\ pc = "readGold" /\ pc' = "loop"
  /\ gold' = IF fh THEN GoldFile ELSE gold
  /\ UNCHANGED <<fh, boot, input, loopVars>>

(* memcpy (m, m_input, ...); lud_omp (m, N); int flag = 0. *)
Compute ==
  /\ pc = "loop"
  /\ ~RL!Running
  /\ out' \in Faulty(LudOf(input))
  /\ RL!Begin
  /\ UNCHANGED <<pc, fh, boot, input, gold>>

Check ==
  /\ pc = "loop"
  /\ RL!Step
  /\ UNCHANGED <<pc, fh, boot, input, gold, out>>

Next == OpenInput \/ ReadInput \/ OpenGold \/ ReadGold \/ Compute \/ Check

(* The code is one thread that always has a next statement to run. *)
Spec == Init /\ [][Next]_vars /\ WF_vars(Next)

-----------------------------------------------------------------------------
(* Spec section 8, clean pass: on a card that holds both files, an       *)
(* iteration no fault touched sends 0xAA000000 alone.  The card is       *)
(* healthy in every behaviour of this module; the faults are in out.     *)
FaultFreeIterationClean ==
  (pc = "loop" /\ ~RL!Running /\ msgs # <<>> /\ out = LudOf(input))
    => msgs = <<<<"AA">>>>
=============================================================================
