----------------------------- MODULE MCSession -----------------------------
(* Session for TLC: the client's receives are alike. *)
EXTENDS Session, TLC

Symmetric == Permutations(Recv)
=============================================================================
