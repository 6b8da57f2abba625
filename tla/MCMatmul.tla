------------------------------ MODULE MCMatmul ------------------------------
(* A 2 x 2 product whose golden result holds a +0.0 and three 1.0s, with  *)
(* float patterns +0.0, -0.0, 1.0 and one NaN.                             *)
EXTENDS MatmulHarness

CONSTANTS One

MCBits == {PosZero, NegZero, One, NaN}

MCFileGold == [x \in (0..1) \X (0..1) |-> IF x = <<0, 0>> THEN PosZero ELSE One]
=============================================================================
