----------------------------- MODULE MCPhotogram -----------------------------
(* Both servers with room for two overlapping requests. *)
EXTENDS Photogram, TLC

Interchangeable == Permutations(Conns) \cup Permutations(Users)
=============================================================================
