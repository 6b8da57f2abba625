-------------------------------- MODULE MCLud --------------------------------
(***************************************************************************)
(* A 2 x 2 matrix of doubles over +0.0 and 1.0.  The input file holds the  *)
(* identity, whose LU factors packed in place are the identity again, and  *)
(* the golden file holds that result.  The stack may hold zeros or ones    *)
(* where the local arrays lie; lud_omp on any matrix other than the file's *)
(* is given one fixed result, all ones.                                    *)
(***************************************************************************)
EXTENDS LudHarness, TLC

CONSTANTS One

MCBits == {PosZero, One}

MCSplit == PosZero :> <<"00000000", "00000000">> @@ One :> <<"3FF00000", "00000000">>

MCIdentity == [x \in 0..3 |-> IF x \in {0, 3} THEN One ELSE PosZero]

MCGarbage == {[x \in 0..3 |-> PosZero], [x \in 0..3 |-> One]}

MCLudOf(x) == IF x = MCIdentity THEN MCIdentity ELSE [y \in 0..3 |-> One]
=============================================================================
