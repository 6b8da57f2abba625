----------------------------- MODULE FftHarness -----------------------------
(***************************************************************************)
(* The FFT harness, CKernel::Run, init_input and init_gold of             *)
(* src/experiments/fft/kernel.cpp, with the files written by              *)
(* src/experiments/fft/fft_gen.c.                                         *)
(*                                                                         *)
(* Startup mounts the partition as the matmul harness does, then reads    *)
(* the input and the golden output with read loops of the form           *)
(*     while ((n = FileRead (h, buf, 1 << (SIZE_ARRAY+2))) > 0)           *)
(*         if (n == FS_ERROR) { report; break; }                          *)
(* Each FileRead call is one step.  Every call reads the next buffer-full *)
(* of the file into the START of buf, so a loop leaves in buf the last    *)
(* chunk it read.  A file is a sequence of buffer-sized chunks; reading a *)
(* file whose open failed (handle 0) returns FS_ERROR.                    *)
(*                                                                         *)
(* The loop runs fft_float on RealIn/ImagIn, then the compare-and-report *)
(* loop with a raw-bit comparison of RealOut[i] and ImagOut[i] against    *)
(* goldReal[i] and goldImag[i] and the payload <<i, re bits, im bits>>.  *)
(* An output element is the pair <<re, im>>.                              *)
(***************************************************************************)
EXTENDS Naturals, Sequences, FiniteSets

CONSTANTS
  M,              \* 1 << SIZE_ARRAY, the number of samples
  Bits,           \* float bit patterns
  Zero,           \* the pattern of +0.0f
  InputChunk,     \* the samples fft_gen writes to the input file
  GenRe, GenIm,   \* RealOut and ImagOut as fft_gen computes them
  MaxFaults,      \* elements one fault may corrupt in one iteration
  StorageFaults,  \* whether the storage steps of startup may fail
  None, Garbled

Idx == 0..M - 1

Vec == [Idx -> Bits]

ASSUME
  /\ M \in Nat \ {0}
  /\ Zero \in Bits
  /\ {InputChunk, GenRe, GenIm} \subseteq Vec
  /\ MaxFaults \in Nat
  /\ StorageFaults \in BOOLEAN

(* fft_gen.c writes fft_input_<n>.bin as one buffer of samples, and      *)
(* fft_gold_<n>.bin as RealOut followed by ImagOut.                      *)
InputFile == <<InputChunk>>
GoldFile == <<GenRe, GenIm>>

Buffers == {"RealIn", "goldReal", "goldImag"}

VARIABLES
  pc,        \* the startup step about to run, or "loop"
  devOk,     \* GetDevice (PARTITION) returned a device
  mounted,   \* m_FileSystem.Mount succeeded
  fh,        \* the open file's handle is valid (non-zero)
  fpos,      \* the next chunk of the open file a FileRead returns
  mem,       \* the global buffers RealIn, goldReal, goldImag
  boot,      \* status words sent before the loop
  out, k, flag, msgs

vars == <<pc, devOk, mounted, fh, fpos, mem, boot, out, k, flag, msgs>>

ZeroVec == [i \in Idx |-> Zero]

Pairs == Bits \X Bits

(* for (i = 0; i < (1<<SIZE_ARRAY); i++) *)
Ascending == [n \in 1..M |-> n - 1]

(* The code compares the unsigned int bits of RealOut[i] with goldReal[i]: *)
(* raw bits, both halves of the element.                                 *)
BitEq(a, b) == a = b

BitsDiffer(a, b) == a # b

(* Mutant: the real part copied into both value words. *)
FftPayloadRealTwice(i, v) == <<i, v[1], v[1]>>

(* buffer[1] = i, buffer[2] = bits of RealOut[i], buffer[3] = ImagOut[i]. *)
FftPayload(i, v) == <<i, v[1], v[2]>>

FftUnpack(p) == <<p[1], <<p[2], p[3]>>>>

(* The golden element i as the loop reads it from the two buffers. *)
GoldPairs == [i \in Idx |-> <<mem["goldReal"][i], mem["goldImag"][i]>>]

RL == INSTANCE ReportLoop
        WITH Order <- Ascending, Differs <- BitsDiffer,
             Payload <- FftPayload, Unpack <- FftUnpack, gold <- GoldPairs

(* fft_float of the samples in RealIn (ImagIn is all zero): the output   *)
(* fft_gen computed from the input file, or all zero from zero samples.  *)
Transform ==
  IF mem["RealIn"] = InputChunk
  THEN [i \in Idx |-> <<GenRe[i], GenIm[i]>>]
  ELSE [i \in Idx |-> <<Zero, Zero>>]

Faulty(c) ==
  {o \in [Idx -> Pairs] : Cardinality({i \in Idx : o[i] # c[i]}) <= MaxFaults}

Init ==
  /\ pc = "device"
  /\ devOk = FALSE /\ mounted = FALSE
  /\ fh = FALSE /\ fpos = 1
  /\ mem = [b \in Buffers |-> ZeroVec]
  /\ boot = <<>>
  /\ out = [i \in Idx |-> <<Zero, Zero>>]
  /\ k = 0 /\ flag = 0 /\ msgs = <<>>

startVars == <<devOk, mounted, fh, fpos, mem, boot>>
loopVars == <<out, k, flag, msgs>>

GetDevice ==
  /\ pc = "device"
  /\ pc' = "mount"
  /\ \/ devOk' = TRUE /\ boot' = boot
     \/ StorageFaults /\ devOk' = FALSE /\ boot' = Append(boot, "FF100000")
  /\ UNCHANGED <<mounted, fh, fpos, mem, loopVars>>

Mount ==
  /\ pc = "mount"
  /\ pc' = "openIn"
  /\ \/ devOk /\ mounted' = TRUE /\ boot' = boot
     \/ (StorageFaults \/ ~devOk) /\ mounted' = FALSE
        /\ boot' = Append(boot, "FF200000")
  /\ UNCHANGED <<devOk, fh, fpos, mem, loopVars>>

(* The open, read-loop and close steps of init_input and init_gold. *)
FL == INSTANCE FileLoad

OpenInput ==
  pc = "openIn" /\ FL!Open("FFF00000", "readIn") /\ UNCHANGED <<devOk, loopVars>>
ReadInput ==
  /\ pc = "readIn" /\ FL!ReadStep("RealIn", InputFile, "FFF10000", "closeIn")
  /\ UNCHANGED <<devOk, loopVars>>
(* The memset of ImagIn that precedes the close returns its non-null      *)
(* argument, so its error branch (0xFFF30000) is dead.                    *)
CloseInput ==
  pc = "closeIn" /\ FL!Close("FFF40000", "openGold") /\ UNCHANGED <<devOk, loopVars>>
OpenGold ==
  pc = "openGold" /\ FL!Open("FFF50000", "readRe") /\ UNCHANGED <<devOk, loopVars>>
ReadGoldReal ==
  /\ pc = "readRe" /\ FL!ReadStep("goldReal", GoldFile, "FFF60000", "readIm")
  /\ UNCHANGED <<devOk, loopVars>>
ReadGoldImag ==
  /\ pc = "readIm" /\ FL!ReadStep("goldImag", GoldFile, "FFF70000", "closeGold")
  /\ UNCHANGED <<devOk, loopVars>>
CloseGold ==
  pc = "closeGold" /\ FL!Close("FFF80000", "loop") /\ UNCHANGED <<devOk, loopVars>>

(* One pass of while(1): fft_float, status_app = 0, start of the check. *)
Compute ==
  /\ pc = "loop"
  /\ ~RL!Running
  /\ out' \in Faulty(Transform)
  /\ RL!Begin
  /\ UNCHANGED <<pc, startVars>>

Check ==
  /\ pc = "loop"
  /\ RL!Step
  /\ UNCHANGED <<pc, startVars, out>>

Next ==
  \/ GetDevice \/ Mount
  \/ OpenInput \/ ReadInput \/ CloseInput
  \/ OpenGold \/ ReadGoldReal \/ ReadGoldImag \/ CloseGold
  \/ Compute \/ Check

(* The code is one thread that always has a next statement to run. *)
Spec == Init /\ [][Next]_vars /\ WF_vars(Next)

-----------------------------------------------------------------------------
Pcs == {"device", "mount", "openIn", "readIn", "closeIn", "openGold",
        "readRe", "readIm", "closeGold", "loop"}

TypeOK ==
  /\ pc \in Pcs
  /\ {devOk, mounted, fh} \subseteq BOOLEAN
  /\ fpos \in 1..Len(GoldFile) + 1
  /\ mem \in [Buffers -> Vec]
  /\ \A n \in 1..Len(boot) : boot[n] \in
        {"FF100000", "FF200000", "FFF00000", "FFF10000", "FFF40000",
         "FFF50000", "FFF60000", "FFF70000", "FFF80000"}
  /\ out \in [Idx -> Pairs]
  /\ RL!LoopTypeOK

(* The verdict carries the whole observed element. *)
Whole(e) == e

AbsStage == IF pc # "loop" THEN "load"
            ELSE IF RL!Running THEN "busy" ELSE "idle"

AbsGold == IF pc = "loop" THEN GoldPairs ELSE [i \in Idx |-> <<Zero, Zero>>]

(* Refinement: whatever the startup left in goldReal and goldImag, every *)
(* iteration's messages give a consumer exactly the positions whose raw  *)
(* bits differ from them, with the observed bits, and every iteration's *)
(* report is eventually complete.                                        *)
FR == INSTANCE FaultReport
        WITH Idx <- Idx, Bits <- Pairs, Same <- BitEq, Observe <- Whole,
             stage <- AbsStage, gold <- AbsGold, verdict <- RL!Verdict

ReportsBitMismatches == FR!Spec

(* Spec section 8, clean-run idempotence: when startup sent no error     *)
(* word and no fault touched the output, the iteration's only message is *)
(* the clean status word.                                                *)
FaultFreeIterationClean ==
  (pc = "loop" /\ boot = <<>> /\ ~RL!Running /\ msgs # <<>> /\ out = Transform)
    => msgs = <<<<"AA">>>>
=============================================================================
