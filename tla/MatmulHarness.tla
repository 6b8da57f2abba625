---------------------------- MODULE MatmulHarness ----------------------------
(***************************************************************************)
(* The dense matrix-multiply harness, CKernel::Run of                     *)
(* src/experiments/susan/kernel.cpp (the directory is named susan; the    *)
(* code multiplies two MATRIX_SIZE x MATRIX_SIZE float matrices).         *)
(*                                                                         *)
(* Startup: look up the partition and mount it (each failure sends a      *)
(* reserved status word and carries on), read the golden product and the  *)
(* two input matrices (open and read results are never checked; a failed *)
(* read leaves the zero-initialised global buffer as it was).  Loop:      *)
(* recompute mCS0 = mA * mB from scratch, then run the compare-and-report *)
(* loop of ReportLoop with the float comparison mCS0[...] != golden[...]  *)
(* and the payload <<i, j, raw bits of mCS0[i][j]>>.                      *)
(*                                                                         *)
(* The product is abstracted to its outcome: with the inputs read it is   *)
(* the golden product of the file (the file was produced by the same     *)
(* computation), with the zero inputs of a failed read it is the zero    *)
(* matrix.  A transient hardware fault may corrupt up to MaxFaults        *)
(* elements of mCS0 in an iteration; StorageFaults says whether the      *)
(* partition, the mount and the opens may fail.                           *)
(***************************************************************************)
EXTENDS Naturals, Sequences, FiniteSets

CONSTANTS
  R,              \* MATRIX_SIZE
  Bits,           \* float bit patterns
  PosZero,        \* the pattern of +0.0f
  NegZero,        \* the pattern of -0.0f
  NaN,            \* a NaN pattern
  FileGold,       \* the golden product stored in matmul_gold_600.bin
  MaxFaults,      \* elements one fault may corrupt in one iteration
  StorageFaults,  \* whether the storage steps of startup may fail
  None, Garbled

Idx == (0..R - 1) \X (0..R - 1)

ASSUME
  /\ R \in Nat \ {0}
  /\ {PosZero, NegZero, NaN} \subseteq Bits
  /\ FileGold \in [Idx -> Bits \ {NaN}]
  /\ MaxFaults \in Nat
  /\ StorageFaults \in BOOLEAN

VARIABLES
  pc,        \* "device", "mount", "gold", "input", "loop"
  devOk,     \* GetDevice (PARTITION) returned a device
  mounted,   \* m_FileSystem.Mount succeeded
  goldOk,    \* float_golden holds the file's contents
  inputOk,   \* mA and mB hold the file's contents
  boot,      \* status words sent before the loop
  gold, out, k, flag, msgs

vars == <<pc, devOk, mounted, goldOk, inputOk, boot, gold, out, k, flag, msgs>>

Vectors == [Idx -> Bits]

ZeroVec == [x \in Idx |-> PosZero]

(* The loop's order: for (i ...) for (j ...) over mCS0[i*MATRIX_SIZE+j]. *)
RowMajor == [n \in 1..R * R |-> <<(n - 1) \div R, (n - 1) % R>>]

(* The C comparison a != b on floats: NaN differs from everything, and   *)
(* +0.0 equals -0.0.                                                      *)
FloatEq(a, b) ==
  /\ a # NaN /\ b # NaN
  /\ (a = b \/ {a, b} = {PosZero, NegZero})

FloatDiffers(a, b) == ~FloatEq(a, b)

BitEq(a, b) == a = b

(* buffer[1] = i, buffer[2] = j, buffer[3] = the raw bits of the float. *)
MatmulPayload(x, v) == <<x[1], x[2], v>>

(* The wire format read by a consumer: index words, then the value. *)
MatmulUnpack(p) == <<<<p[1], p[2]>>, p[3]>>

RL == INSTANCE ReportLoop
        WITH Order <- RowMajor, Differs <- FloatDiffers,
             Payload <- MatmulPayload, Unpack <- MatmulUnpack

(* The outputs one iteration can produce from a fault-free result c.     *)
Faulty(c) ==
  {o \in Vectors : Cardinality({x \in Idx : o[x] # c[x]}) <= MaxFaults}

(* The fault-free result of mA * mB for the inputs in memory. *)
Product == IF inputOk THEN FileGold ELSE ZeroVec

Init ==
  /\ pc = "device"
  /\ devOk = FALSE /\ mounted = FALSE
  /\ goldOk = FALSE /\ inputOk = FALSE
  /\ boot = <<>>
  /\ gold = ZeroVec
  /\ out = ZeroVec
  /\ k = 0 /\ flag = 0 /\ msgs = <<>>

GetDevice ==
  /\ pc = "device"
  /\ pc' = "mount"
  /\ \/ devOk' = TRUE /\ boot' = boot
     \/ StorageFaults /\ devOk' = FALSE /\ boot' = Append(boot, "FF100000")
  /\ UNCHANGED <<mounted, goldOk, inputOk, gold, out, k, flag, msgs>>

Mount ==
  /\ pc = "mount"
  /\ pc' = "gold"
  /\ \/ devOk /\ mounted' = TRUE /\ boot' = boot
     \/ (StorageFaults \/ ~devOk) /\ mounted' = FALSE
        /\ boot' = Append(boot, "FF200000")
  /\ UNCHANGED <<devOk, goldOk, inputOk, gold, out, k, flag, msgs>>

(* FileOpen succeeds only on a mounted partition holding the file; the   *)
(* code never looks at the handle, and FileRead of handle 0 reads       *)
(* nothing.                                                               *)
Opens == IF mounted THEN (IF StorageFaults THEN BOOLEAN ELSE {TRUE})
         ELSE {FALSE}

(* Mutant: the golden file read into a buffer other than float_golden. *)
InitGoldLost ==
  /\ pc = "gold"
  /\ pc' = "input"
  /\ \E opened \in Opens : goldOk' = opened
  /\ UNCHANGED <<devOk, mounted, inputOk, boot, gold, out, k, flag, msgs>>

InitGold ==
  /\ pc = "gold"
  /\ pc' = "input"
  /\ \E opened \in Opens :
        /\ goldOk' = opened
        /\ gold' = IF opened THEN FileGold ELSE gold
  /\ UNCHANGED <<devOk, mounted, inputOk, boot, out, k, flag, msgs>>

InitInput ==
  /\ pc = "input"
  /\ pc' = "loop"
  /\ inputOk' \in Opens
  /\ UNCHANGED <<devOk, mounted, goldOk, boot, gold, out, k, flag, msgs>>

(* One pass of while(1): the product, then the start of the check. *)
Compute ==
  /\ pc = "loop"
  /\ ~RL!Running
  /\ out' \in Faulty(Product)
  /\ RL!Begin
  /\ UNCHANGED <<pc, devOk, mounted, goldOk, inputOk, boot, gold>>

Check ==
  /\ pc = "loop"
  /\ RL!Step
  /\ UNCHANGED <<pc, devOk, mounted, goldOk, inputOk, boot, gold, out>>

Next == GetDevice \/ Mount \/ InitGold \/ InitInput \/ Compute \/ Check

(* The code is one thread that always has a next statement to run. *)
Spec == Init /\ [][Next]_vars /\ WF_vars(Next)

-----------------------------------------------------------------------------
TypeOK ==
  /\ pc \in {"device", "mount", "gold", "input", "loop"}
  /\ {devOk, mounted, goldOk, inputOk} \subseteq BOOLEAN
  /\ boot \in Seq({"FF100000", "FF200000"})
  /\ gold \in Vectors
  /\ out \in Vectors
  /\ RL!LoopTypeOK

(* The abstract stage and golden buffer the harness is in. *)
(* The verdict carries the whole observed element. *)
Whole(e) == e

AbsStage == IF pc # "loop" THEN "load"
            ELSE IF RL!Running THEN "busy" ELSE "idle"

AbsGold == IF pc = "loop" THEN gold ELSE ZeroVec

(* Refinement: every iteration's messages, read by a consumer of the wire *)
(* format, give exactly the positions where mCS0 differs in value from   *)
(* the golden buffer in memory, with the observed bits, and every        *)
(* iteration's report is eventually complete.                            *)
FR == INSTANCE FaultReport
        WITH Same <- FloatEq, Observe <- Whole, stage <- AbsStage, gold <- AbsGold,
             verdict <- RL!Verdict

ReportsValueMismatches == FR!Spec

(* The specification's promise (section 3): the comparison is on the raw *)
(* bit pattern, so the verdict must name every position whose bits      *)
(* differ from the golden ones, -0.0 for +0.0 and NaN for NaN included. *)
FRBits == INSTANCE FaultReport
            WITH Same <- BitEq, Observe <- Whole, stage <- AbsStage, gold <- AbsGold,
                 verdict <- RL!Verdict

ReportsBitMismatches == FRBits!Spec

(* Neither initGold nor initInput checks its FileOpen, and a failed read *)
(* leaves the zero global buffer.  So a completed iteration no fault     *)
(* touched reports mismatches exactly when one of the two files loaded   *)
(* and the other did not: with both lost, zero inputs give a zero        *)
(* product equal to the zero golden buffer, and the harness reports      *)
(* clean on every iteration with no input at all.                        *)
SpuriousReportIffOneFileLost ==
  (pc = "loop" /\ ~RL!Running /\ msgs # <<>> /\ out = Product)
    => (msgs # <<<<"AA">>>> <=> goldOk # inputOk)
=============================================================================
