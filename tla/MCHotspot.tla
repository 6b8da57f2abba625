------------------------------ MODULE MCHotspot ------------------------------
(* Grids square and a multiple of the block, as MAX_SIZE = 256 with      *)
(* BLOCK_SIZE = 16 is; doubles of two 1-bit words; an even number of     *)
(* steps per call, as sim_time = 100 is; files of one grid of doubles,   *)
(* so two FileRead chunks of Half elements each.                         *)
EXTENDS HotspotHarness, TLC

MCTempFile == <<[i \in 0..Half - 1 |-> (i + 1) % (W * W)],
                [i \in 0..Half - 1 |-> (i + 3) % (W * W)]>>
MCPowerFile == <<[i \in 0..Half - 1 |-> (i + 1) % 2],
                 [i \in 0..Half - 1 |-> i % 2]>>
MCGoldFile == <<[i \in 0..Half - 1 |-> 2],
                [i \in 0..Half - 1 |-> (2 * i + 1) % (W * W)]>>
=============================================================================
