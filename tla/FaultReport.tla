---------------------------- MODULE FaultReport ----------------------------
(***************************************************************************)
(* What one fault-detection harness promises, with no wire format and no   *)
(* loop counter: once the golden output is loaded, it repeatedly runs the  *)
(* workload and, for every run, publishes a verdict that maps each output  *)
(* position whose element differs from the golden one to the element that *)
(* was observed there (an empty map for a clean run).  Nothing else is     *)
(* ever published, and every run is eventually given its verdict.         *)
(*                                                                         *)
(* Same(a, b) is the comparison the verdict is promised against: raw bit   *)
(* equality in the specification, IEEE value equality where a harness is  *)
(* only claimed to detect value changes.  Observe(e) is the part of an     *)
(* observed element the verdict is promised to carry: all of it, or one   *)
(* field of a record element.                                             *)
(***************************************************************************)
EXTENDS FiniteSets

CONSTANTS
  Idx,          \* positions of the output buffer
  Bits,         \* element bit patterns
  Same(_, _),   \* the comparison the verdict is promised against
  Observe(_),   \* the part of an observed element the verdict carries
  None          \* no verdict published for the current run yet

VARIABLES
  stage,        \* "load": before the golden output is in place
                \* "idle": between runs, "busy": a run awaits its verdict
  gold,         \* the golden output the harness compares against
  out,          \* the output of the current run
  verdict       \* the verdict of the last finished run, or None

avars == <<stage, gold, out, verdict>>

Vectors == [Idx -> Bits]

(* The verdict the specification asks for on output o. *)
Mismatches(o) ==
  [x \in {y \in Idx : ~Same(o[y], gold[y])} |-> Observe(o[x])]

Init ==
  /\ stage = "load"
  /\ gold \in Vectors
  /\ out \in Vectors
  /\ verdict = None

Load ==
  /\ stage = "load"
  /\ stage' = "idle"
  /\ gold' \in Vectors
  /\ UNCHANGED <<out, verdict>>

Run ==
  /\ stage = "idle"
  /\ stage' = "busy"
  /\ out' \in Vectors
  /\ verdict' = None
  /\ UNCHANGED gold

Report ==
  /\ stage = "busy"
  /\ stage' = "idle"
  /\ verdict' = Mismatches(out)
  /\ UNCHANGED <<gold, out>>

Next == Load \/ Run \/ Report

Spec == Init /\ [][Next]_avars
          /\ WF_avars(Load) /\ WF_avars(Run) /\ WF_avars(Report)
=============================================================================
