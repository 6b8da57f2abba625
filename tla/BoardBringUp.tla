---------------------------- MODULE BoardBringUp ----------------------------
(***************************************************************************)
(* Board bring-up, the part every harness shares: the CKernel constructor *)
(* and CKernel::Initialize (identical in all seven kernel.cpp files; the  *)
(* lines cited are those of src/experiments/qsort/kernel.cpp), and the    *)
(* gate of the Circle main, which is not in the repository: spec section  *)
(* 6 says bring-up is "initialize() -> ok | fatal" and must succeed       *)
(* before the loop starts.                                                *)
(*                                                                         *)
(* The constructor wires the members together by pointer; Initialize     *)
(* then initialises six of them in a fixed order, each only while every   *)
(* earlier one succeeded (if (bOK) bOK = ...Initialize ()), and returns   *)
(* bOK.  Whether one device's Initialize succeeds is decided by hardware  *)
(* this module does not model: with BootFaults it is a free choice.       *)
(***************************************************************************)
EXTENDS Naturals, Sequences, Graphs

CONSTANT BootFaults   \* whether a device's Initialize may return FALSE

ASSUME BootFaults \in BOOLEAN

(* The members the constructor's initialiser list hands a pointer to     *)
(* another member, lines 239-245: an edge <<a, b>> says a uses b.        *)
Wiring ==
  [node |-> {"ActLED", "Screen", "Serial", "Interrupt", "Timer", "Logger",
             "EMMC", "GPIOManager", "SoftSerial"},
   edge |-> {<<"Timer", "Interrupt">>, <<"Logger", "Timer">>,
             <<"EMMC", "Interrupt">>, <<"EMMC", "Timer">>, <<"EMMC", "ActLED">>,
             <<"GPIOManager", "Interrupt">>, <<"SoftSerial", "GPIOManager">>}]

(* Mutant: the interrupt controller set up after the timer that uses it. *)
InitOrderSwapped ==
  <<"Serial", "Timer", "Interrupt", "EMMC", "GPIOManager", "SoftSerial">>

(* The order of the six if (bOK) blocks of Initialize, lines 265-295.    *)
InitOrder ==
  <<"Serial", "Interrupt", "Timer", "EMMC", "GPIOManager", "SoftSerial">>

(* The members Initialize sets up. *)
Devices == {InitOrder[i] : i \in DOMAIN InitOrder}

(* What one device's Initialize may return. *)
Outcomes == IF BootFaults THEN BOOLEAN ELSE {TRUE}

VARIABLES
  bpc,     \* "construct", "init", "run", "halted"
  step,    \* the if (bOK) block Initialize is at
  bOK,     \* the local bOK of Initialize
  ready    \* the members whose Initialize returned TRUE

bvars == <<bpc, step, bOK, ready>>

BInit == bpc = "construct" /\ step = 1 /\ bOK = TRUE /\ ready = {}

(* The constructor: members constructed in declaration order with the   *)
(* pointers of Wiring, then m_ActLED.Blink (5).  Nothing is set up yet. *)
Construct ==
  /\ bpc = "construct"
  /\ bpc' = "init"
  /\ UNCHANGED <<step, bOK, ready>>

(* Mutant: every block's Initialize called, the if (bOK) dropped, so    *)
(* bOK is what the last call returned.                                  *)
InitStepUnguarded ==
  /\ bpc = "init" /\ step <= Len(InitOrder)
  /\ \E ok \in Outcomes :
       /\ bOK' = ok
       /\ ready' = IF ok THEN ready \cup {InitOrder[step]} ELSE ready
  /\ step' = step + 1
  /\ UNCHANGED bpc

(* One if (bOK) { bOK = d.Initialize (); } block: the call is made only  *)
(* while every earlier call succeeded.                                  *)
InitStep ==
  /\ bpc = "init" /\ step <= Len(InitOrder)
  /\ \/ bOK /\ \E ok \in Outcomes :
                 /\ bOK' = ok
                 /\ ready' = IF ok THEN ready \cup {InitOrder[step]} ELSE ready
     \/ ~bOK /\ UNCHANGED <<bOK, ready>>
  /\ step' = step + 1
  /\ UNCHANGED bpc

(* main: Run is called if Initialize returned TRUE; otherwise halt (),  *)
(* after which the board does nothing.                                  *)
Start ==
  /\ bpc = "init" /\ step = Len(InitOrder) + 1
  /\ bpc' = IF bOK THEN "run" ELSE "halted"
  /\ UNCHANGED <<step, bOK, ready>>

BNext == Construct \/ InitStep \/ Start

BTypeOK ==
  /\ bpc \in {"construct", "init", "run", "halted"}
  /\ step \in 1..Len(InitOrder) + 1
  /\ bOK \in BOOLEAN
  /\ ready \subseteq Devices

(* The order of Initialize respects the constructor's wiring: a member  *)
(* is set up only after every member it holds a pointer to, among those *)
(* Initialize sets up, is (the timer and the GPIO manager after the     *)
(* interrupt controller, the EMMC after both, the soft serial after the *)
(* GPIO manager), whichever devices fail.                               *)
DependenciesFirst ==
  \A e \in Wiring.edge :
    e[1] \in ready /\ e[2] \in Devices => e[2] \in ready
=============================================================================
