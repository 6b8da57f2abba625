-------------------------------- MODULE MCFft --------------------------------
(* Two samples; float patterns +0.0, A and B.  The input is <<A, B>>; its  *)
(* transform has real part <<A, B>> and imaginary part <<+0.0, B>> (the   *)
(* imaginary part of bin 0 of a real signal is zero).                     *)
EXTENDS FftHarness, TLC

CONSTANTS A, B

MCBits == {Zero, A, B}
MCInput == 0 :> A @@ 1 :> B
MCGenRe == 0 :> A @@ 1 :> B
MCGenIm == 0 :> Zero @@ 1 :> B
=============================================================================
