----------------------------- MODULE ReportLoop -----------------------------
(***************************************************************************)
(* The comparator and diagnostic reporter that every element-wise harness *)
(* runs after its workload (the "check for errors" loop of matmul, lud,   *)
(* fft, hotspot, lavaMD and l1_test): walk the output in loop order, and  *)
(* for each element that differs from the golden one send one message     *)
(* whose status word is 0xDD000000 for the first mismatch of the          *)
(* iteration and 0xCC000000 for the later ones, followed by the payload;  *)
(* after the walk, send 0xAA000000 alone if nothing differed.             *)
(*                                                                         *)
(* Each send_message call is one message, a tuple of 32-bit words; the    *)
(* status words are written "AA", "DD" and "CC".  msgs holds the messages *)
(* sent by the current iteration (the stream is segmented at AA and DD,  *)
(* so an iteration's messages are exactly one segment).                   *)
(*                                                                         *)
(* The harness supplies the loop order, the comparison the code performs  *)
(* and the payload it sends; Unpack is the reading of a payload the wire  *)
(* format (spec section 6) gives a consumer: <<position, observed bits>>. *)
(***************************************************************************)
EXTENDS Naturals, Sequences, SequencesExt

CONSTANTS
  Order,            \* the positions of the output, in the loop's order
  Differs(_, _),    \* the comparison of an observed and a golden element
  Payload(_, _),    \* the words sent after the status word
  Unpack(_),        \* the consumer's reading of a payload
  None,             \* no verdict: the iteration is still being checked
  Garbled           \* a segment no consumer can read

VARIABLES
  out,              \* the output buffer of the current iteration
  gold,             \* the golden output buffer
  k,                \* 0 when idle, else the 1-based loop position
  flag,             \* the code's flag (status_app in fft)
  msgs              \* messages sent by the current iteration

Len0 == Len(Order)

Running == k # 0

(* Mutant: flag declared once, outside while(1), never reset. *)
BeginKeepFlag ==
  /\ k' = 1
  /\ UNCHANGED flag
  /\ msgs' = <<>>

(* int flag = 0; and the loop counter set to its first position. *)
Begin ==
  /\ k' = 1
  /\ flag' = 0
  /\ msgs' = <<>>

(* The status word of a mismatch message: the first one of the iteration *)
(* is tagged DD, every later one CC.                                      *)
Marker == IF flag = 0 THEN "DD" ELSE "CC"

Elem == Order[k]

(* Mutant: the flag counts mismatches (flag++) instead of being set. *)
MismatchCounting ==
  /\ k \in 1..Len0
  /\ Differs(out[Elem], gold[Elem])
  /\ msgs' = Append(msgs, <<Marker>> \o Payload(Elem, out[Elem]))
  /\ flag' = flag + 1
  /\ k' = k + 1

Mismatch ==
  /\ k \in 1..Len0
  /\ Differs(out[Elem], gold[Elem])
  /\ msgs' = Append(msgs, <<Marker>> \o Payload(Elem, out[Elem]))
  /\ flag' = 1
  /\ k' = k + 1

Match ==
  /\ k \in 1..Len0
  /\ ~Differs(out[Elem], gold[Elem])
  /\ k' = k + 1
  /\ UNCHANGED <<flag, msgs>>

FinishClean ==
  /\ k = Len0 + 1
  /\ flag = 0
  /\ msgs' = Append(msgs, <<"AA">>)
  /\ k' = 0
  /\ UNCHANGED flag

FinishDirty ==
  /\ k = Len0 + 1
  /\ flag # 0
  /\ k' = 0
  /\ UNCHANGED <<flag, msgs>>

Step == Mismatch \/ Match \/ FinishClean \/ FinishDirty

LoopTypeOK ==
  /\ k \in 0..Len0 + 1
  /\ flag \in {0, 1}
  /\ Len(msgs) <= Len0 + 1
  /\ \A n \in 1..Len(msgs) : msgs[n][1] \in {"AA", "DD", "CC"}

(***************************************************************************)
(* The consumer's side of the wire format.                                 *)
(***************************************************************************)
Entry(m) == Unpack(SubSeq(m, 2, Len(m)))

PosOf(x) == CHOOSE n \in 1..Len0 : Order[n] = x

(* A dirty segment: DD first, CC after it, positions strictly ascending  *)
(* in the output's order.                                                 *)
WellFramed(ms) ==
  /\ ms[1][1] = "DD"
  /\ \A n \in 2..Len(ms) : ms[n][1] = "CC"
  /\ \A n \in 1..Len(ms) : Entry(ms[n])[1] \in ToSet(Order)
  /\ \A n \in 1..Len(ms) - 1 :
        PosOf(Entry(ms[n])[1]) < PosOf(Entry(ms[n + 1])[1])

Decode(ms) ==
  CASE ms = <<>> -> None
    [] ms = <<<<"AA">>>> -> [x \in {} |-> None]
    [] WellFramed(ms) ->
         [x \in {Entry(ms[n])[1] : n \in 1..Len(ms)} |->
            Entry(ms[CHOOSE n \in 1..Len(ms) : Entry(ms[n])[1] = x])[2]]
    [] OTHER -> Garbled

(* The verdict a consumer reads once the iteration's segment is complete. *)
Verdict == IF Running THEN None ELSE Decode(msgs)
=============================================================================
