# TLA+ models of the rasp_bare fault-injection harnesses

## The system

`rasp_bare` is a set of bare-metal programs for the Raspberry Pi, built on the
Circle framework. They detect silent data corruption. Each program under
`src/experiments/<name>/` is a single-threaded `CKernel::Run`:

1. **Startup.** Look up the SD-card partition and mount it. Read the input and
   golden output files into global buffers. Each failure sends a reserved
   32-bit status word (`0xFF100000`, `0xFF200000`, `0xFFF?0000`) and the
   program *carries on*.
2. **Loop** (`while (1)`). Recompute the workload, then compare the output
   against the golden buffer element by element. For the first mismatch of an
   iteration, send a message headed `0xDD000000`; for each later one, a message
   headed `0xCC000000`. A message is one `send_message` call: a status word
   followed by the position and the raw bits of the observed element. If
   nothing differed, send `0xAA000000` alone.

The host-side consumer is not in the repository. It reads the word stream and
groups it into one verdict per iteration. The components are:

| component | source | status |
|---|---|---|
| compare-and-report loop (shared shape) | susan:166-203, fft:207-236, hotspot, lavaMD, l1_test | modelled: `ReportLoop` |
| what a harness promises | spec.md sections 3, 6, 8 | modelled: `FaultReport` (abstract) |
| storage steps (open, read loop, close) | fft:100-174, hotspot:146-228 | modelled: `FileLoad` |
| matmul harness | `src/experiments/susan/kernel.cpp` | modelled: `MatmulHarness` |
| FFT harness and its data generator | `src/experiments/fft/kernel.cpp`, `fft_gen.c` | modelled: `FftHarness` (fft_gen only as the files it writes) |
| lavaMD harness, box grid and neighbour lists | `src/experiments/lavaMD/kernel.cpp` | modelled: `LavaMDHarness` |
| hotspot harness, stencil and ping-pong | `src/experiments/hotspot/kernel.cpp` | modelled: `HotspotHarness` |
| non-recursive quicksort | qsort:101-236 | modelled: `Quicksort` |
| qsort harness | qsort:302-384 | modelled: `QsortHarness` |
| L1 retention test | `src/experiments/l1_test/kernel.cpp` | modelled: `L1Harness` |
| LU harness | `src/experiments/lud/kernel.cpp` | modelled: `LudHarness` (`lud_omp` and `FP` are not in the repository) |
| board bring-up | the constructor and `CKernel::Initialize` (the same in all seven kernels), Circle's `main` | modelled: `BoardBringUp`, composed in front of `QsortHarness` |
| serial driver | `send_message`, Circle | modelled as appending a message to the sink |

The two pieces interact only through memory (the global buffers) and the
serial stream. Concurrency therefore means the interleaving of the
harness's own steps with faults, storage failures and the consumer's reading.
There is only one thread.

## Modules

* **`FaultReport`** is the abstract specification. Its stages are `load`,
  `idle` and `busy`. `Load` fixes `gold`. `Run` picks an output. `Report`
  publishes `verdict = Mismatches(out)`, a function from each position that
  differs under `Same` to the observed element. Every stage is weakly fair.
* **`ReportLoop`** models the comparator as one action per loop step:
  * `Begin`: `int flag = 0`.
  * `Mismatch` and `Match`: one element each.
  * `FinishClean` and `FinishDirty`: the closing `if (flag == 0)`.

  It is parameterised by the loop `Order`, the comparison `Differs`, the
  `Payload` the code sends, and the wire reading `Unpack`. It also defines the
  consumer: `Decode` parses one iteration's segment of messages into a verdict,
  or into `Garbled` if the segment is malformed.
* **`MatmulHarness`**:
  * Startup is `GetDevice`, `Mount`, `InitGold` and `InitInput`. `Opens` models
    an unchecked `FileOpen`, where a read of handle 0 leaves the
    zero-initialised buffer.
  * The loop is `Compute` (one `while(1)` pass: the product, possibly
    corrupted by at most `MaxFaults` elements, then `Begin`) followed by
    `Check` (a `ReportLoop` step). The comparison is the C float `!=`: `NaN`
    differs from itself, and `+0.0` equals `-0.0`.
* **`FftHarness`**:
  * Startup is per call: `Open`, one `ReadStep` per `FileRead` of a read loop,
    and `Close`, with each file modelled as a sequence of buffer-sized chunks.
    A `FileRead` writes to the *start* of its buffer, as the code does.
  * The comparison is on raw bits, and the payload is `<<i, re, im>>`.
* **`FileLoad`** is the open / read-loop / close sequence shared by the FFT
  and hotspot harnesses, with their error words as parameters. Each
  `FileRead` call is one `ReadStep`. A file is a sequence of chunks of the
  size the call asks for, and each chunk overwrites the *start* of the
  buffer, as the code does.
* **`LavaMDHarness`**:
  * `BuildBoxes` builds `box_cpu` (coordinates, offsets, neighbour lists)
    with the code's own loops, written as `Box(nh)` and `Nei` (a `SelectSeq`
    over the 27 offsets admitted by the code's bounds test).
  * The three file loads (`ReadDistance`, `ReadCharge`, `InitGold`) are
    unchecked: after a failed open, `malloc`'d memory is any member of
    `Garbage`.
  * The payload is the 10-word message of lines 262-275.
  * `TypeOK` types `box_cpu` by the header's `nei_str` and `box_str`
    (`NeiStr`, `BoxStr`).
* **`HotspotHarness`**:
  * Startup uses `FileLoad` three times. A `FileRead` asks for half a grid.
  * `Compute` runs `compute_tran_temp`: `Tran` (RECURSIVE) alternates the
    `result` and `temp` buffers over `SimTime` calls of `SingleIteration`.
  * `SingleIteration` walks the chunk decomposition of lines 62-76 (`Walk`).
    The stencil keeps the neighbours that exist and drops the float
    coefficients, with arithmetic modulo the value range.
  * An interior chunk computes the stencil inline. A border chunk
    writes `temp + delta`, where `delta` is a local of the call that only
    the eight corner and edge cases assign. A border-chunk cell on no edge
    of the grid therefore reuses the `delta` of the last edge cell visited
    before it, which may be in the previous chunk. `DeltaFrom` names that
    cell for every cell.
  * A double is a value whose high and low words are `v \div W` and `v % W`.
    The payload keeps only the low word in `buffer[3]`.
* **`BoardBringUp`** models the code every harness runs before `Run`:
  * `Wiring` is the constructor's initialiser list, read as a graph. An
    edge `<<a, b>>` says member `a` was given a pointer to member `b`.
  * `Construct` is the constructor.
  * `InitStep` is one `if (bOK) bOK = d.Initialize ();` block, taken in
    `InitOrder`. With `BootFaults` a device's `Initialize` may return FALSE;
    every later block is then skipped.
  * `Start` is the gate in Circle's `main`, which is not in the repository.
    It calls `Run` if `Initialize` returned TRUE and halts otherwise, as
    spec section 6 describes bring-up ("must succeed before the loop
    starts").
* **`Quicksort`** is the glibc-style sort as a step machine. Each action is
  one pass of an innermost loop, or the straight-line code between two loop
  heads:
  * `Median` picks the median of three.
  * `ScanLeft`, `ScanRight` and `Cross` collapse the walls.
  * `Partition` pops, ignores small partitions, or pushes the larger one,
    through `Push`, `Pop` and `StackNotEmpty` (the macros of lines 63-65).
  * `InsMin` places the minimum sentinel, then `InsNext`, `InsScan` and
    `InsMove` do the insertion sort.

  Indices stand for pointers, and `(size_t)` differences are `Small`.
* **`QsortHarness`**:
  * It extends `BoardBringUp`. `BringUp` runs the bring-up steps, and
    `GetDevice`, the first step of `Run`, waits for `bpc = "run"`.
  * The card's input file is any array of `N` values. The golden file holds
    it sorted (`RefSorted`, a counting definition that serves as the
    reference sort).
  * `Copy` is the `memcpy`, `Sort` runs the `Quicksort` steps, and `Report`
    counts the mismatches over `0..MAXARRAY-2` and sends one message.
* **`L1Harness`**:
  * A 32-bit word is `<<high16, low16>>`, since TLC's integers are signed
    32-bit.
  * `Fill` stores `0xA5A5A5A5` into `unsigned char` elements, keeping the low
    byte. A fault may change up to `MaxFaults` bytes during the nop window.
    `ReportLoop` then compares each zero-extended byte with the 32-bit
    constant.
* **`LudHarness`**:
  * `Run` never calls `Mount`, so `Opens` is `{FALSE}`. `OpenInput` and
    `OpenGold` each send `0xFFF00000`. `ReadInput` and `ReadGold` read
    nothing through handle 0.
  * `m`, `gold` and `m_input` are local arrays, so `Init` takes each from
    `Garbage`, the stack contents the model allows.
  * `Compute` is the `memcpy` followed by `lud_omp`. `LudOf` stands for its
    fault-free result, since its code is outside the repository.
  * `ColumnWalk` is the `i`-then-`j` walk over `m[i + N*j]`. The payload is
    `<<i, j, high word, low word>>`.
* **`MC*`** modules give the constants small values. Bits are model values
  where only equality matters (`+0`, `-0`, `NaN`, one ordinary pattern) and
  integers where the code does arithmetic.

Each harness that sends per-element messages (matmul, FFT, lavaMD, hotspot,
L1) is shown to implement `FaultReport` with a refinement mapping. qsort sends
only a count, so it is checked against its own reference instead.
* `stage` is `load` before the loop, `busy` while `ReportLoop` runs, and
  `idle` otherwise.
* `gold` is the golden buffer in memory.
* `verdict` is `Decode` of the current iteration's messages.

Because the refinement also includes the weak fairness of `Report`, it
checks that every iteration's report completes.

**Fairness.** `Spec` assumes `WF_vars(Next)`. The program is one thread and
always has a next statement, and `send_message` only blocks on the serial
line, which drains.

## Runs

| run | expect | what it shows |
|---|---|---|
| `matmul_refines` | pass | Under the code's float comparison, the consumer's verdict is exactly the value mismatches for every iteration, startup failures included. This holds for 2x2, up to 2 corrupted elements, and storage faults on. `SpuriousReportIffOneFileLost` shows that a fault-free iteration reports mismatches exactly when one of the two files failed to load. If both are lost, the zero product matches the zero golden buffer, and every iteration reports clean. Neither case needs an error word: on a mounted card, a failed `FileOpen` sends nothing. |
| `matmul_bitexact` | violation | spec.md promises a raw-bit comparison. A fault that turns `+0.0` into `-0.0` is not reported. |
| `fft_refines` | pass | The FFT harness reports exactly the raw-bit mismatches against whatever startup loaded. |
| `fft_gold` | violation | With no fault and no error word, a fault-free iteration is not clean. The golden read loop reads `RealOut` and then `ImagOut` into `goldReal`, and `goldImag`'s loop finds end of file. |
| `lavamd_refines` | pass | The neighbour lists of a 3x3x3 box grid are exactly the adjacent boxes, without duplicates or self, and never overflow `nei[26]`. The reports give exactly the elements whose `v` differs, with `v`'s bits. |
| `lavamd_payload` | violation | A fault confined to `x`, `y` or `z` is reported with `v`'s bits in those words: the payload keeps encoding `aux`, which still holds `v`. |
| `hotspot_refines` | pass | Through every storage failure and one corrupted cell per iteration, the reports give exactly the differing cells, with the low word of the observed double in `buffer[3]`. |
| `hotspot_stale` | violation | With no fault, the second iteration's result differs from the first. After an even `sim_time`, `compute_tran_temp` leaves its final grid in `temp`, and the next call starts from it. |
| `qsort_refines` | pass | For every 7-element input over three values, `qsort` always returns (`SortTerminates`) and returns the input sorted (`SortsInput`, against `RefSorted`). Every pending partition on its stack is at least as long as the one being split (`StackHoldsLarger`, the rule that bounds the stack at `log N`). In front of it, board bring-up may fail at any device. `Initialize` sets a device up only after the devices the constructor wired it to (`DependenciesFirst`). `Run` starts only when all six are up (`RunOnlyWhenReady`): a failure followed by later successes still halts the board. |
| `qsort_lastelem` | violation | A fault in the last element of the sorted array is reported as `0xAA000000`, because the check loop stops at `MAXARRAY-1`. |
| `l1_clean` | violation | With `MaxFaults = 0`, so that no byte changes, an iteration reports every element with syndrome `0xA5A5A500`, and `0xAA000000` is never sent. An `unsigned char` is compared with a 32-bit constant. |
| `lud_clean` | violation | The card holds both files and no fault occurs, yet the LU harness sends `0xFFF00000` twice and then reports mismatches. `Run` never mounts the partition, so it compares `lud_omp` of stack garbage with stack garbage. |

**Bounds.**
* **Matmul and FFT.** With 2x2 or 2 elements, both orders of two mismatches
  in one iteration are reachable, along with a DD followed by a CC, and every
  startup-failure branch. `MaxFaults` of 1 or 2 covers both clean and dirty
  iterations. The properties quantify over positions, and nothing depends on
  more than two of them.
* **lavaMD.** A 3x3x3 grid has corner, edge, face and interior boxes. The
  interior box fills all 26 slots of `nei`. Two float patterns and
  `N = 2` particles keep the report loop's state space small.
* **Hotspot.** In `hotspot_refines`, a 2x2 grid with blocks of 1 has four
  chunks, with edge and corner cells in each. `hotspot_stale` runs a 4x4
  grid in 2x2 blocks, so border chunks hold cells off the edge, which reuse
  a carried `delta`. That size is too large for the refinement run within its
  time budget. `SimTime = 2` is the even case that strands the
  result in `temp`. `Half = 2` makes every file two chunks, so the
  overwrite-the-start behaviour of `FileRead` is reached.
* **qsort.** `MAX_THRESH` is scaled from 4 to 1 and `N` is 7. These are the
  smallest values at which a partition splits into two long halves of
  unequal length, so both push branches, the pop and the insertion sort all
  run. Three values allow duplicates and every median-of-three order.
  `qsort_refines` runs with `MaxFaults = 0`, and `qsort_lastelem` supplies
  the faults. `qsort_refines` also sets `BootFaults = TRUE`, so every device
  of `Initialize` can fail, including a failure followed by skipped
  blocks. A board that fails bring-up halts in `main` and does nothing more,
  so that end state is a real stop, and the cfg says `CHECK_DEADLOCK FALSE`.
  Progress of the loop is still checked, by `SortTerminates` under
  `WF_vars(Next)`. The real `MAX_THRESH = 4` was also tried, with `N = 11` and two
  values: it passes in 75 s. At that size, however, the two halves that get
  pushed are always of equal length, so the push rule is not exercised. That
  needs `N >= 12`, which is beyond the time budget.
* **LU.** A 2x2 matrix, two stack-garbage vectors (all `+0`, all `1.0`),
  and an identity input whose decomposition is itself. This is enough to
  show that a fault-free iteration of a healthy card is not clean.

## Hazards

`PROJECT.json` lists the hazards at their source lines, with the properties
that cover them. Still uncovered:
* **The unbounded message count per iteration (susan:189).** A wrong golden
  buffer makes every iteration send `MATRIX_SIZE^2` messages. The run
  budget goes to the harness findings.
* **The unframed wire format over a lossy serial line (susan:58).** A lost
  `0xCC000000` message leaves a segment that still parses. The consumer is
  not in the repository.
* **The LU harness's stack arrays (lud:104).** Three 1024x1024 arrays of
  locals exceed any stack the link map provides. The link map is outside
  `src/`.
* **The element width `FP` of the LU payload (lud:147).** The type is
  defined outside the repository.
* **The carried `delta` of hotspot (hotspot:126).** It is modelled and
  reached, but no property judges it. Spec section 4.2 leaves the
  workload's algorithm out of scope, and the provenance of the golden
  file is not in the repository.
* **The uncleared `RealIn` of `fft_gen.c` (fft_gen:36).** The golden
  file is computed from the same buffer that is written as the input, so
  the harness sees a consistent pair either way.

## Not modelled

* **Bring-up in the other harnesses.** The constructor and `Initialize`
  are the same in all seven kernels, so `BoardBringUp` is composed only
  with the qsort harness. The other harnesses start at `Run`.
  `L1Harness` keeps the successful outcome as `Initialize`, because its
  refinement needs a load step. What a driver's `Initialize` does inside
  Circle is outside `src/`. It is modelled only as succeeding or failing.
* **`send_message`.** It is a synchronous soft-serial write. It is modelled
  as appending one message to the iteration's segment.
* **The signal synthesis of `fft_gen.c`.** It is host-side floating-point
  arithmetic (`rand`, `sin`, `cos`), followed by a call of `fft_float`, whose
  code is not in the repository. Only the layout of the files it writes is
  modelled. The samples are accumulated into `malloc`'d memory that is never
  cleared (fft_gen:36). Both files come from that one buffer, so they stay
  consistent with each other.
* **Headers and Circle itself.** The headers hold declarations only.
  Of these, only lavaMD's `nei_str` and `box_str` describe state the
  model has. The
  file system, the EMMC driver and the serial drivers are library code
  outside `src/`.

## Further work

1. A lossy serial channel between `ReportLoop` and a word-level consumer,
   with loss, duplication and resynchronisation on status words
   (susan:58).
2. A message-count bound per iteration (`resource_bound` at susan:189).
