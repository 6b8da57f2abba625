---------------------------- MODULE HotspotHarness ----------------------------
(***************************************************************************)
(* The thermal-simulation (hotspot) harness: CKernel::Run, init_input,    *)
(* compute_tran_temp and single_iteration of                              *)
(* src/experiments/hotspot/kernel.cpp.                                    *)
(*                                                                         *)
(* Startup mounts the partition and fills temp, power and gold with the   *)
(* FileLoad steps; each FileRead asks for 4*MAX_SIZE*MAX_SIZE bytes, half *)
(* of a grid of doubles, so a chunk of a file is Half elements.  Each     *)
(* pass of while(1) runs compute_tran_temp(result, sim_time, temp, power) *)
(* and compares result with gold, sending <<i, j, buffer[3], buffer[4]>>. *)
(*                                                                         *)
(* A double is a value of 0..W*W-1 whose high and low 32-bit words are    *)
(* v \div W and v % W.  The stencil is kept as the code computes it, per  *)
(* cell over the neighbours that exist, with the floating-point           *)
(* coefficients dropped and the arithmetic taken modulo W*W.              *)
(***************************************************************************)
EXTENDS Naturals, Sequences, FiniteSets, FiniteSetsExt

CONSTANTS
  Size,           \* MAX_SIZE: the grid is Size x Size
  BlockSize,      \* BLOCK_SIZE_R = BLOCK_SIZE_C
  W,              \* the range of one 32-bit word, scaled down
  Amb,            \* amb_temp
  SimTime,        \* sim_time, the steps of one compute_tran_temp
  Half,           \* elements per FileRead
  TempFile, PowerFile, GoldFile,   \* the three files, as chunks
  MaxFaults,      \* elements one fault may corrupt in one iteration
  StorageFaults,  \* whether the storage steps of startup may fail
  None, Garbled

Cells == 0..Size * Size - 1

Vals == 0..W * W - 1

Grid == [Cells -> Vals]

Chunks == [0..Half - 1 -> Vals]

ASSUME
  /\ {Size, BlockSize, W, SimTime, Half} \subseteq Nat \ {0}
  /\ Amb \in Vals
  /\ {TempFile, PowerFile, GoldFile} \subseteq Seq(Chunks)
  /\ MaxFaults \in Nat /\ StorageFaults \in BOOLEAN

VARIABLES
  pc,        \* the startup step about to run, or "loop"
  devOk,     \* GetDevice (PARTITION) returned a device
  mounted, fh, fpos,
  mem,       \* the member arrays temp, power and gold
  boot,      \* status words sent before the loop
  out,       \* the member array result
  k, flag, msgs,
  lastClean  \* history: the fault-free result of the last iteration

vars == <<pc, devOk, mounted, fh, fpos, mem, boot, out, k, flag, msgs, lastClean>>

Row(x) == x \div Size
Col(x) == x % Size

(* The cells the nine cases of single_iteration read around cell x: the  *)
(* four neighbours, those that exist on the grid.                        *)
Nbrs(x) == {y \in Cells : {Row(x) - Row(y), Col(x) - Col(y)} \in {{0, 1}, {0, -1}}}

(* delta of the nine cases: Cap_1 * (power[x] + the neighbours'         *)
(* differences + (amb_temp - temp[x])).                                 *)
Delta(t, p, x) ==
  p[x] + MapThenSumSet(LAMBDA y : t[y] - t[x], Nbrs(x)) + (Amb - t[x])

(* result[x] = temp[x] + delta. *)
Stencil(t, p, x) == (t[x] + Delta(t, p, x)) % (W * W)

(* The chunk decomposition of lines 62-71. *)
NumChunk == (Size * Size) \div (BlockSize * BlockSize)
ChunksInRow == Size \div BlockSize
ChunksInCol == Size \div BlockSize
RStart(ch) == BlockSize * (ch \div ChunksInCol)
CStart(ch) == BlockSize * (ch % ChunksInRow)
REnd(ch) == IF RStart(ch) + BlockSize > Size THEN Size ELSE RStart(ch) + BlockSize
CEnd(ch) == IF CStart(ch) + BlockSize > Size THEN Size ELSE CStart(ch) + BlockSize

(* The test of line 73: the chunk touches the border of the grid. *)
Border(ch) ==
  RStart(ch) = 0 \/ CStart(ch) = 0 \/ REnd(ch) = Size \/ CEnd(ch) = Size

(* A cell one of the eight corner and edge cases of lines 77-124 matches. *)
OnEdge(x) == Row(x) \in {0, Size - 1} \/ Col(x) \in {0, Size - 1}

(* The loops of lines 75-76 and 132-134 (both bounded by r_start +       *)
(* BLOCK_SIZE, not r_end): the n-th cell visited, chunk after chunk,     *)
(* with the border test of its chunk.                                   *)
Area == BlockSize * BlockSize

Walk ==
  [n \in 1..NumChunk * Area |->
     LET ch == (n - 1) \div Area
         m == (n - 1) % Area
     IN <<(RStart(ch) + m \div BlockSize) * Size + CStart(ch) + (m % BlockSize),
          Border(ch)>>]

(* delta is a local of single_iteration, assigned only by the eight      *)
(* corner and edge cases, which run only in border chunks.  A border-    *)
(* chunk cell on no edge matches none of them and is written temp[x] +   *)
(* delta with the delta of the last edge cell visited before it.  The    *)
(* first cell visited is corner 1, so delta is assigned before it is     *)
(* read.  DeltaFrom[x] is the cell whose delta x is written with.        *)
DeltaFrom ==
  [x \in Cells |->
     LET n == CHOOSE i \in DOMAIN Walk : Walk[i][1] = x
         set == {i \in 1..n : Walk[i][2] /\ OnEdge(Walk[i][1])}
     IN IF set = {} THEN x ELSE Walk[Max(set)][1]]

InBorderChunk(x) == \E i \in DOMAIN Walk : Walk[i] = <<x, TRUE>>

(* One call of single_iteration: border chunks write temp[x] + delta,    *)
(* interior chunks the stencil computed inline.                          *)
SingleIteration(res, t, p) ==
  [x \in Cells |->
     IF \E i \in DOMAIN Walk : Walk[i][1] = x
     THEN IF InBorderChunk(x) THEN (t[x] + Delta(t, p, DeltaFrom[x])) % (W * W)
                              ELSE Stencil(t, p, x)
     ELSE res[x]]

(* The loop of compute_tran_temp: a is the array r points to, b the one  *)
(* t points to; each step writes a from b and swaps the pointers.        *)
RECURSIVE Tran(_, _, _, _)
Tran(a, b, p, n) ==
  IF n = 0 THEN <<a, b>> ELSE Tran(b, SingleIteration(a, b, p), p, n - 1)

(* The contents of the arrays result and temp after the call: after an  *)
(* even number of steps r points at result again.                        *)
ComputeTranTemp(result, temp, p) ==
  LET e == Tran(result, temp, p, SimTime)
  IN IF SimTime % 2 = 0 THEN [result |-> e[1], temp |-> e[2]]
                        ELSE [result |-> e[2], temp |-> e[1]]

-----------------------------------------------------------------------------
(* for (i ...) for (j ...) over result[i*MAX_SIZE+j]. *)
RowMajor == [n \in 1..Size * Size |-> <<(n - 1) \div Size, (n - 1) % Size>>]

Hi(v) == v \div W
Lo(v) == v % W

(* result[...] != gold[...] on doubles; the values modelled are all      *)
(* ordinary (no zero of either sign is told apart, no NaN).              *)
CellDiffers(a, b) == a # b

(* Mutant: the high word kept in buffer[3] (line 345 dropped). *)
HotspotPayloadHigh(x, v) == <<x[1], x[2], Hi(v), 0>>

(* buffer[1] = i, buffer[2] = j, buffer[3] = high word, then buffer[3] =  *)
(* low word; buffer[4] is never written and keeps its zero.             *)
HotspotPayload(x, v) == <<x[1], x[2], Lo(v), 0>>

(* The wire format as the spec reads it: index words, high, low. *)
HotspotUnpack(p) == <<<<p[1], p[2]>>, p[3] * W + p[4]>>

(* A consumer that takes buffer[3] for the low word. *)
LowUnpack(p) == <<<<p[1], p[2]>>, p[3]>>

(* The arrays as the check loop sees them: indexed by <<i, j>>. *)
ByPos(g) == [x \in (0..Size - 1) \X (0..Size - 1) |-> g[x[1] * Size + x[2]]]

RL == INSTANCE ReportLoop
        WITH Order <- RowMajor, Differs <- CellDiffers, out <- ByPos(out),
             gold <- ByPos(mem["gold"]),
             Payload <- HotspotPayload, Unpack <- HotspotUnpack

RLlow == INSTANCE ReportLoop
           WITH Order <- RowMajor, Differs <- CellDiffers, out <- ByPos(out),
                gold <- ByPos(mem["gold"]),
                Payload <- HotspotPayload, Unpack <- LowUnpack

FL == INSTANCE FileLoad

(* c with at most MaxFaults of its cells replaced. *)
Faulty(c) ==
  UNION {{[x \in Cells |-> IF x \in S THEN g[x] ELSE c[x]] : g \in [S -> Vals]} :
           S \in UNION {kSubset(n, Cells) : n \in 0..MaxFaults}}

ZeroGrid == [x \in Cells |-> 0]

Init ==
  /\ pc = "device"
  /\ devOk = FALSE /\ mounted = FALSE
  /\ fh = FALSE /\ fpos = 1
  /\ mem = [b \in {"temp", "power", "gold"} |-> ZeroGrid]
  /\ boot = <<>>
  /\ out = ZeroGrid
  /\ k = 0 /\ flag = 0 /\ msgs = <<>>
  /\ lastClean = None

loopVars == <<out, k, flag, msgs, lastClean>>

GetDevice ==
  /\ pc = "device"
  /\ pc' = "mount"
  /\ \/ devOk' = TRUE /\ boot' = boot
     \/ StorageFaults /\ devOk' = FALSE /\ boot' = Append(boot, "FF100000")
  /\ UNCHANGED <<mounted, fh, fpos, mem, loopVars>>

Mount ==
  /\ pc = "mount"
  /\ pc' = "openTemp"
  /\ \/ devOk /\ mounted' = TRUE /\ boot' = boot
     \/ (StorageFaults \/ ~devOk) /\ mounted' = FALSE
        /\ boot' = Append(boot, "FF200000")
  /\ UNCHANGED <<devOk, fh, fpos, mem, loopVars>>

(* init_input opens, reads and closes temp, power and gold in turn, with *)
(* the same three error words for all three files.                      *)
Files == [temp |-> TempFile, power |-> PowerFile, gold |-> GoldFile]

LoadSteps(b, open, read, close, next) ==
  /\ \/ pc = open /\ FL!Open("FFF00000", read)
     \/ pc = read /\ FL!ReadStep(b, Files[b], "FFF10000", close)
     \/ pc = close /\ FL!Close("FFF40000", next)
  /\ UNCHANGED <<devOk, loopVars>>

LoadTemp == LoadSteps("temp", "openTemp", "readTemp", "closeTemp", "openPower")
LoadPower == LoadSteps("power", "openPower", "readPower", "closePower", "openGold")
LoadGold == LoadSteps("gold", "openGold", "readGold", "closeGold", "loop")

(* One pass of while(1): compute_tran_temp, int flag = 0, the check.    *)
Compute ==
  /\ pc = "loop"
  /\ ~RL!Running
  /\ LET ct == ComputeTranTemp(out, mem["temp"], mem["power"])
     IN /\ mem' = [mem EXCEPT !["temp"] = ct.temp]
        /\ out' \in Faulty(ct.result)
        /\ lastClean' = ct.result
  /\ RL!Begin
  /\ UNCHANGED <<pc, devOk, mounted, fh, fpos, boot>>

Check ==
  /\ pc = "loop"
  /\ RL!Step
  /\ UNCHANGED <<pc, devOk, mounted, fh, fpos, mem, boot, out, lastClean>>

Next == GetDevice \/ Mount \/ LoadTemp \/ LoadPower \/ LoadGold \/ Compute \/ Check

(* The code is one thread that always has a next statement to run. *)
Spec == Init /\ [][Next]_vars /\ WF_vars(Next)

-----------------------------------------------------------------------------
Pcs == {"device", "mount", "openTemp", "readTemp", "closeTemp", "openPower",
        "readPower", "closePower", "openGold", "readGold", "closeGold", "loop"}

TypeOK ==
  /\ pc \in Pcs
  /\ {devOk, mounted, fh} \subseteq BOOLEAN
  /\ fpos \in 1..3
  /\ mem \in [{"temp", "power", "gold"} -> Grid]
  /\ boot \in Seq({"FF100000", "FF200000", "FFF00000", "FFF10000", "FFF40000"})
  /\ out \in Grid
  /\ lastClean \in Grid \cup {None}
  /\ RL!LoopTypeOK

AbsStage == IF pc # "loop" THEN "load"
            ELSE IF RL!Running THEN "busy" ELSE "idle"

AbsGold == IF pc = "loop" THEN ByPos(mem["gold"]) ELSE ByPos(ZeroGrid)

BitEq(a, b) == a = b

(* Refinement: every iteration's messages, read with buffer[3] taken as *)
(* the low word of the observed double, give exactly the cells whose     *)
(* result differs from gold, with that low word, and every iteration is  *)
(* eventually reported.                                                  *)
FRlow == INSTANCE FaultReport
           WITH Idx <- (0..Size - 1) \X (0..Size - 1), Bits <- Vals,
                Same <- BitEq, Observe <- Lo, out <- ByPos(out),
                stage <- AbsStage, gold <- AbsGold, verdict <- RLlow!Verdict

ReportsLowWord == FRlow!Spec

(* Spec sections 4.2 and 8 (determinism): compute is a pure function of  *)
(* the input dataset, so the fault-free result is bit-identical in every *)
(* iteration.  lastClean records the fault-free result of the last pass. *)
Deterministic == [][lastClean # None => lastClean' = lastClean]_vars
=============================================================================
