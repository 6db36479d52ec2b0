----------------------------- MODULE MCRcvRing ------------------------------
(* Receive path instances: receivers which all wait, and a mix of waiting  *)
(* and polling receivers.                                                  *)
EXTENDS RcvRing, TLC

\* Messages are only copied and compared with nil.
MsgSymmetry == Permutations(Msg)
=============================================================================
