-------------------------------- MODULE MCL1 --------------------------------
(* A three-byte array; a fault leaves the stored 0xA5, a one-bit flip of  *)
(* it (0xA4) or a two-bit flip (0x25).                                    *)
EXTENDS L1Harness

MCBytes == {\hA5, \hA4, \h25}
=============================================================================
