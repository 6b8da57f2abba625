---------------------------- MODULE LavaMDHarness ----------------------------
(***************************************************************************)
(* The N-body (lavaMD) harness, CKernel::Run of                           *)
(* src/experiments/lavaMD/kernel.cpp.                                     *)
(*                                                                         *)
(* Startup: partition and mount as in the other harnesses; build the box  *)
(* grid and each box's neighbour list; read the distances, the charges    *)
(* and the golden forces from three files.  Each failed open sends the    *)
(* same word 0xFFF00000 and the reads of handle 0 leave the malloc'd      *)
(* buffer as it was: uninitialised, modelled as a choice among Garbage.  *)
(* Loop: zero fv_cpu, run kernel_cpu (outside src; abstracted to its      *)
(* deterministic result), compare every FOUR_VECTOR field with the C      *)
(* double != and send <<i, hi(v), lo(v), hi(aux), lo(aux) x3>> where aux  *)
(* still holds the bits of v.                                             *)
(*                                                                         *)
(* A double's 64 bits are a member of Bits; Split[b] is the pair of its   *)
(* 32-bit halves <<(b & 0xFFFFFFFF00000000) >> 32, b & 0xFFFFFFFF>>.      *)
(***************************************************************************)
EXTENDS Naturals, Sequences, SequencesExt, FiniteSets

CONSTANTS
  B1d,            \* dim_cpu.boxes1d_arg
  ParPerBox,      \* NUMBER_PAR_PER_BOX
  N,              \* dim_cpu.space_elem, as far as the model follows it
  Bits,           \* double bit patterns
  PosZero, NegZero, NaN,
  Split,          \* the two 32-bit halves of each pattern
  FileGold,       \* the forces stored in the golden file
  Garbage,        \* what an unread malloc'd buffer may hold
  MaxFaults,      \* elements one fault may corrupt in one iteration
  StorageFaults,  \* whether the storage steps of startup may fail
  None, Garbled

Fields == {"v", "x", "y", "z"}

Elt == [Fields -> Bits]

Idx == 0..N - 1

Vectors == [Idx -> Elt]

ASSUME
  /\ B1d \in Nat \ {0} /\ ParPerBox \in Nat /\ N \in Nat \ {0}
  /\ PosZero \in Bits /\ NaN \notin Bits
  /\ Split \in [Bits -> STRING \X STRING]
  /\ \A a, b \in Bits : Split[a] = Split[b] => a = b
  /\ FileGold \in Vectors /\ Garbage \subseteq Vectors
  /\ MaxFaults \in Nat /\ StorageFaults \in BOOLEAN

(***************************************************************************)
(* The box grid, lines 138-180: box nh sits at x = k, y = j, z = i of the *)
(* three nested loops, and its neighbour list is filled in the loop order *)
(* of l, m, n over -1..1 with the boxes that pass the test of line 162.   *)
(***************************************************************************)
BoxIds == 0..B1d * B1d * B1d - 1

Coord(nh) == [x |-> nh % B1d, y |-> (nh \div B1d) % B1d, z |-> nh \div (B1d * B1d)]

(* The 27 offsets <<l, m, n>> in the order of the three loops. *)
OffsetSeq ==
  [t \in 1..27 |-> <<((t - 1) \div 9) - 1, (((t - 1) \div 3) % 3) - 1, ((t - 1) % 3) - 1>>]

(* Mutant: the test without its last conjunct, the box itself admitted. *)
AdmitSelf(nh, o) ==
  LET c == Coord(nh) IN
  /\ c.z + o[1] >= 0 /\ c.y + o[2] >= 0 /\ c.x + o[3] >= 0
  /\ c.z + o[1] < B1d /\ c.y + o[2] < B1d /\ c.x + o[3] < B1d

Admit(nh, o) ==
  LET c == Coord(nh) IN
  /\ c.z + o[1] >= 0 /\ c.y + o[2] >= 0 /\ c.x + o[3] >= 0
  /\ c.z + o[1] < B1d /\ c.y + o[2] < B1d /\ c.x + o[3] < B1d
  /\ o # <<0, 0, 0>>

(* box_cpu[nh].nei[nn], lines 164-168. *)
NeiEntry(nh, o) ==
  LET c == Coord(nh)
      num == (c.z + o[1]) * B1d * B1d + (c.y + o[2]) * B1d + (c.x + o[3])
  IN [x |-> c.x + o[3], y |-> c.y + o[2], z |-> c.z + o[1],
      number |-> num, offset |-> num * ParPerBox]

Nei(nh) ==
  LET adm == SelectSeq(OffsetSeq, LAMBDA o : Admit(nh, o))
  IN [t \in 1..Len(adm) |-> NeiEntry(nh, adm[t])]

(* box_cpu[nh], lines 148-170. *)
Box(nh) == [x |-> Coord(nh).x, y |-> Coord(nh).y, z |-> Coord(nh).z,
            number |-> nh, offset |-> nh * ParPerBox,
            nn |-> Len(Nei(nh)), nei |-> Nei(nh)]

(* The structs nei_str and box_str of kernel.h: a box's coordinates,    *)
(* number and particle offset, and its nn neighbours in nei[26].         *)
NeiStr ==
  [x : 0..B1d - 1, y : 0..B1d - 1, z : 0..B1d - 1, number : BoxIds, offset : Nat]

BoxStr ==
  [x : 0..B1d - 1, y : 0..B1d - 1, z : 0..B1d - 1, number : BoxIds, offset : Nat,
   nn : 0..26, nei : Seq(NeiStr)]

-----------------------------------------------------------------------------
VARIABLES
  pc,        \* "device", "mount", "boxes", "distance", "charge", "gold", "loop"
  devOk,     \* GetDevice (PARTITION) returned a device
  mounted,   \* m_FileSystem.Mount succeeded
  box_cpu,   \* the box grid, empty until it is built
  rvOk,      \* rv_cpu holds the distance file
  boot,      \* status words sent before the loop
  clean,     \* what kernel_cpu computes from rv_cpu and qv_cpu
  gold, out, k, flag, msgs

vars == <<pc, devOk, mounted, box_cpu, rvOk, boot, clean, gold, out, k, flag, msgs>>

(* for (i = 0; i < dim_cpu.space_elem; i++) *)
Ascending == [n \in 1..N |-> n - 1]

(* The C double comparison a != b: NaN differs from everything and +0.0  *)
(* equals -0.0.                                                           *)
FloatEq(a, b) ==
  /\ a # NaN /\ b # NaN
  /\ (a = b \/ {a, b} = {PosZero, NegZero})

(* The condition of line 254: one of the four fields differs. *)
ElemEq(a, b) == \A f \in Fields : FloatEq(a[f], b[f])

ElemDiffers(a, b) == ~ElemEq(a, b)

(* Mutant: the halves of each double sent low word first. *)
LavaPayloadLowFirst(i, e) ==
  <<i>> \o Reverse(Split[e.v]) \o Reverse(Split[e.v])
        \o Reverse(Split[e.v]) \o Reverse(Split[e.v])

(* buffer[1] = i; buffer[2..3] the halves of v; the assignments to m     *)
(* leave aux = v, so buffer[4..9] repeat v's halves.                     *)
LavaPayload(i, e) ==
  <<i>> \o Split[e.v] \o Split[e.v] \o Split[e.v] \o Split[e.v]

(* A consumer joins a high and a low word back into a double. *)
Join(h, l) ==
  IF \E b \in Bits : Split[b] = <<h, l>>
  THEN CHOOSE b \in Bits : Split[b] = <<h, l>>
  ELSE Garbled

(* The wire format read as the spec describes it: index, then v, x, y, z. *)
FullUnpack(p) ==
  <<p[1], [v |-> Join(p[2], p[3]), x |-> Join(p[4], p[5]),
           y |-> Join(p[6], p[7]), z |-> Join(p[8], p[9])]>>

(* A consumer that reads only the index and v. *)
VUnpack(p) == <<p[1], Join(p[2], p[3])>>

RL == INSTANCE ReportLoop
        WITH Order <- Ascending, Differs <- ElemDiffers,
             Payload <- LavaPayload, Unpack <- FullUnpack

RLv == INSTANCE ReportLoop
        WITH Order <- Ascending, Differs <- ElemDiffers,
             Payload <- LavaPayload, Unpack <- VUnpack

(* The outputs one iteration can produce from a fault-free result c: c  *)
(* with at most MaxFaults of its elements replaced.                     *)
Faulty(c) ==
  UNION {{[i \in Idx |-> IF i \in S THEN g[i] ELSE c[i]] : g \in [S -> Elt]} :
           S \in {T \in SUBSET Idx : Cardinality(T) <= MaxFaults}}

(* FileOpen succeeds only on a mounted partition; nothing is checked but *)
(* the handle, and FileRead of handle 0 reads nothing.                   *)
Opens == IF mounted THEN (IF StorageFaults THEN BOOLEAN ELSE {TRUE})
         ELSE {FALSE}

OpenFailed(opened) == boot' = IF opened THEN boot ELSE Append(boot, "FFF00000")

Init ==
  /\ pc = "device"
  /\ devOk = FALSE /\ mounted = FALSE /\ rvOk = FALSE
  /\ box_cpu = <<>>
  /\ boot = <<>>
  /\ clean = FileGold /\ gold = FileGold
  /\ out = FileGold
  /\ k = 0 /\ flag = 0 /\ msgs = <<>>

GetDevice ==
  /\ pc = "device"
  /\ pc' = "mount"
  /\ \/ devOk' = TRUE /\ boot' = boot
     \/ StorageFaults /\ devOk' = FALSE /\ boot' = Append(boot, "FF100000")
  /\ UNCHANGED <<mounted, box_cpu, rvOk, clean, gold, out, k, flag, msgs>>

Mount ==
  /\ pc = "mount"
  /\ pc' = "boxes"
  /\ \/ devOk /\ mounted' = TRUE /\ boot' = boot
     \/ (StorageFaults \/ ~devOk) /\ mounted' = FALSE
        /\ boot' = Append(boot, "FF200000")
  /\ UNCHANGED <<devOk, box_cpu, rvOk, clean, gold, out, k, flag, msgs>>

(* The three nested loops that fill box_cpu. *)
BuildBoxes ==
  /\ pc = "boxes"
  /\ pc' = "distance"
  /\ box_cpu' = [nh \in BoxIds |-> Box(nh)]
  /\ UNCHANGED <<devOk, mounted, rvOk, boot, clean, gold, out, k, flag, msgs>>

(* Open INPUT_DISTANCE, read space_elem FOUR_VECTORs into rv_cpu, close. *)
ReadDistance ==
  /\ pc = "distance"
  /\ pc' = "charge"
  /\ \E opened \in Opens : rvOk' = opened /\ OpenFailed(opened)
  /\ UNCHANGED <<devOk, mounted, box_cpu, clean, gold, out, k, flag, msgs>>

(* Open INPUT_CHARGE, read qv_cpu, close.  With both inputs read,        *)
(* kernel_cpu computes the golden forces; otherwise it computes from     *)
(* uninitialised memory.                                                 *)
ReadCharge ==
  /\ pc = "charge"
  /\ pc' = "gold"
  /\ \E opened \in Opens :
        /\ clean' \in IF rvOk /\ opened THEN {FileGold} ELSE Garbage
        /\ OpenFailed(opened)
  /\ UNCHANGED <<devOk, mounted, box_cpu, rvOk, gold, out, k, flag, msgs>>

(* Open GOLD and read fv_cpu_GOLD (zeroing fv_cpu on the way), close. *)
InitGold ==
  /\ pc = "gold"
  /\ pc' = "loop"
  /\ \E opened \in Opens :
        /\ gold' \in IF opened THEN {FileGold} ELSE Garbage
        /\ OpenFailed(opened)
  /\ UNCHANGED <<devOk, mounted, box_cpu, rvOk, clean, out, k, flag, msgs>>

(* One pass of while(1): zero fv_cpu, kernel_cpu, flag = 0. *)
Compute ==
  /\ pc = "loop"
  /\ ~RL!Running
  /\ out' \in Faulty(clean)
  /\ RL!Begin
  /\ UNCHANGED <<pc, devOk, mounted, box_cpu, rvOk, boot, clean, gold>>

Check ==
  /\ pc = "loop"
  /\ RL!Step
  /\ UNCHANGED <<pc, devOk, mounted, box_cpu, rvOk, boot, clean, gold, out>>

Next ==
  \/ GetDevice \/ Mount \/ BuildBoxes \/ ReadDistance \/ ReadCharge \/ InitGold
  \/ Compute \/ Check

(* The code is one thread that always has a next statement to run. *)
Spec == Init /\ [][Next]_vars /\ WF_vars(Next)

-----------------------------------------------------------------------------
TypeOK ==
  /\ pc \in {"device", "mount", "boxes", "distance", "charge", "gold", "loop"}
  /\ {devOk, mounted, rvOk} \subseteq BOOLEAN
  /\ box_cpu \in {<<>>} \cup [BoxIds -> BoxStr]
  /\ boot \in Seq({"FF100000", "FF200000", "FFF00000"})
  /\ {clean, gold, out} \subseteq Vectors
  /\ RL!LoopTypeOK

(* The boxes a neighbour list must name: every other box of the grid    *)
(* within one step along each axis.                                     *)
RefNeighbours(nh) ==
  {b \in BoxIds \ {nh} :
     \A f \in {"x", "y", "z"} : Coord(b)[f] - Coord(nh)[f] \in -1..1}

(* The box grid built at startup: every box's neighbour list fits the   *)
(* 26 entries of nei[], names exactly the adjacent boxes, each once, and *)
(* gives each the coordinates and particle offset of the box it names.  *)
NeighboursExact ==
  \A nh \in DOMAIN box_cpu :
    LET bx == box_cpu[nh] IN
    /\ bx.nn <= 26
    /\ {bx.nei[t].number : t \in 1..bx.nn} = RefNeighbours(nh)
    /\ Cardinality({bx.nei[t].number : t \in 1..bx.nn}) = bx.nn
    /\ \A t \in 1..bx.nn :
         /\ bx.nei[t].offset = bx.nei[t].number * ParPerBox
         /\ Coord(bx.nei[t].number)
              = [x |-> bx.nei[t].x, y |-> bx.nei[t].y, z |-> bx.nei[t].z]

AbsStage == IF pc # "loop" THEN "load"
            ELSE IF RL!Running THEN "busy" ELSE "idle"

AbsGold == IF pc = "loop" THEN gold ELSE FileGold

(* What the payload is promised to carry of an element: all of it, or v. *)
Whole(e) == e
VField(e) == e.v

(* Refinement: for every iteration, a consumer reading the index and the *)
(* first two value words learns exactly the particles whose force record *)
(* differs (in any field) from the golden one, with the bits of their   *)
(* observed v; and every iteration's report is eventually complete.     *)
FRv == INSTANCE FaultReport
         WITH Idx <- Idx, Bits <- Elt, Same <- ElemEq, Observe <- VField,
              stage <- AbsStage, gold <- AbsGold, verdict <- RLv!Verdict

ReportsVMismatches == FRv!Spec

(* Spec section 4.4: each mismatch carries the observed value's bits;   *)
(* read as index, v, x, y, z, the verdict must give the whole observed  *)
(* record of every differing particle.                                  *)
FR == INSTANCE FaultReport
        WITH Idx <- Idx, Bits <- Elt, Same <- ElemEq, Observe <- Whole,
             stage <- AbsStage, gold <- AbsGold, verdict <- RL!Verdict

ReportsFullElement == FR!Spec
=============================================================================
