------------------------------- MODULE MCLavaMD -------------------------------
(* Two particles whose doubles are +0.0 or 1.0 (the signed zeros of the *)
(* float comparison are the matmul runs' subject).  The cfg sets the box *)
(* grid to 3 x 3 x 3 rather than the code's 5 x 5 x 5: it already has    *)
(* corner, edge, face and interior boxes, and the interior one fills all *)
(* 26 entries of nei[].                                                  *)
EXTENDS LavaMDHarness, TLC

CONSTANTS One

MCBits == {PosZero, One}

(* The IEEE halves of the two patterns, high word first, in hex. *)
MCSplit == PosZero :> <<"00000000", "00000000">> @@ One :> <<"3FF00000", "00000000">>

ZeroRec == [f \in Fields |-> PosZero]

MCFileGold == 0 :> [ZeroRec EXCEPT !.v = One] @@ 1 :> [f \in Fields |-> One]

MCGarbage == {[i \in 0..1 |-> ZeroRec], 0 :> [ZeroRec EXCEPT !.x = One] @@ 1 :> ZeroRec}
=============================================================================
