----------------------------- MODULE L1Harness -----------------------------
(***************************************************************************)
(* The L1 data-cache test, CKernel::Run of                                *)
(* src/experiments/l1_test/kernel.cpp.  Each pass of while(1) stores       *)
(* 0xA5A5A5A5 into every element of volatile unsigned char array[], idles *)
(* through a nop loop (the exposure window of the cache), then runs the   *)
(* check loop of ReportLoop: array[i] != 0xA5A5A5A5, payload <<i, array[i] *)
(* ^ 0xA5A5A5A5>>.  There is no startup I/O; the golden value is the      *)
(* constant.                                                               *)
(*                                                                         *)
(* A 32-bit word is a pair <<high 16 bits, low 16 bits>> (TLC's integers  *)
(* are 32-bit signed).  Storing a word in an unsigned char keeps its low  *)
(* 8 bits; reading a byte into an unsigned int comparison zero-extends.   *)
(***************************************************************************)
EXTENDS Naturals, Sequences, FiniteSetsExt, Bitwise

CONSTANTS
  ArraySize,   \* ARRAY_SIZE
  Bytes,       \* the byte values a fault may leave in an element
  MaxFaults,   \* elements one fault may corrupt in one iteration
  None, Garbled

Idx == 0..ArraySize - 1

ASSUME
  /\ ArraySize \in Nat \ {0}
  /\ Bytes \subseteq 1..255
  /\ MaxFaults \in Nat

VARIABLES
  booted,    \* CKernel::Initialize has returned and Run has begun
  array,     \* the bytes of array[]
  k, flag, msgs

vars == <<booted, array, k, flag, msgs>>

Pattern == <<\hA5A5, \hA5A5>>

(* An unsigned char assigned a word keeps the low byte. *)
ToByte(w) == w[2] % 256

(* An unsigned char read as an unsigned int. *)
ToWord(b) == <<0, b>>

WordXor(v, w) == <<v[1] ^^ w[1], v[2] ^^ w[2]>>

(* The comparison of line 114: array[i] != 0xA5A5A5A5 on unsigned ints. *)
WordDiffers(b, g) == ToWord(b) # g

(* buffer[1] = i, buffer[2] = array[i] ^ 0xA5A5A5A5. *)
L1Payload(i, b) == <<i, WordXor(ToWord(b), Pattern)>>

(* A consumer: the index, then the syndrome. *)
L1Unpack(p) == <<p[1], p[2]>>

Order == [n \in 1..ArraySize |-> n - 1]

RL == INSTANCE ReportLoop
        WITH out <- array, gold <- [i \in Idx |-> Pattern],
             Differs <- WordDiffers, Payload <- L1Payload, Unpack <- L1Unpack

(* c with at most MaxFaults of its elements replaced. *)
Faulty(c) ==
  UNION {{[i \in Idx |-> IF i \in S THEN g[i] ELSE c[i]] : g \in [S -> Bytes]} :
           S \in UNION {kSubset(n, Idx) : n \in 0..MaxFaults}}

(* array is a global, zero before the first pass. *)
Zeros == [i \in Idx |-> 0]

Init ==
  /\ booted = FALSE
  /\ array = Zeros
  /\ k = 0 /\ flag = 0 /\ msgs = <<>>

(* CKernel::Initialize: serial, interrupts, timer, EMMC, GPIO and soft   *)
(* serial set up in turn, each only if the ones before succeeded.  Only  *)
(* the successful outcome is modelled: the startup code outside this     *)
(* file halts on a failure before Run is called.                        *)
Initialize ==
  /\ ~booted
  /\ booted' = TRUE
  /\ UNCHANGED <<array, k, flag, msgs>>

(* Lines 103-111: the fill loop, the nop loop (the exposure window, in    *)
(* which a fault may flip bits of up to MaxFaults elements), int flag = 0 *)
(* and the start of the check.                                            *)
Fill ==
  /\ booted /\ ~RL!Running
  /\ array' \in Faulty([i \in Idx |-> ToByte(Pattern)])
  /\ RL!Begin
  /\ UNCHANGED booted

Check ==
  /\ RL!Step
  /\ UNCHANGED <<booted, array>>

Next == Initialize \/ Fill \/ Check

(* One thread, always able to run its next statement. *)
Spec == Init /\ [][Next]_vars /\ WF_vars(Next)

-----------------------------------------------------------------------------
TypeOK ==
  /\ booted \in BOOLEAN
  /\ array \in [Idx -> Bytes \cup {0}]
  /\ RL!LoopTypeOK

AbsStage == IF ~booted THEN "load"
            ELSE IF RL!Running THEN "busy" ELSE "idle"

(* The byte the fill loop means to leave, against which the test looks   *)
(* for flipped bits.                                                     *)
AbsGold == [i \in Idx |-> \hA5]

ByteEq(a, b) == a = b

(* The syndrome a consumer is promised: the bits of the element that     *)
(* were flipped, as the code computes it.                                *)
Syndrome(b) == WordXor(ToWord(b), Pattern)

(* Spec sections 6 and 8 (clean pass): an iteration in which no element  *)
(* of array changed is reported by 0xAA000000 alone, and each flipped    *)
(* element by one message carrying its syndrome.                         *)
FR == INSTANCE FaultReport
        WITH Idx <- Idx, Bits <- Bytes \cup {0}, Same <- ByteEq, Observe <- Syndrome,
             stage <- AbsStage, gold <- AbsGold, out <- array,
             verdict <- RL!Verdict

ReportsFlippedBytes == FR!Spec
=============================================================================
