------------------------------- MODULE MCRing -------------------------------
(* The two rings of a context: mring (one producer, blocking read gate) and *)
(* zcb_mring (write gate, try read gate).                                   *)
EXTENDS Ring, TLC

\* Pointers are only copied and compared with nil.
MsgSymmetry == Permutations(Msg)
=============================================================================
