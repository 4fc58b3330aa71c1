--------------------------- MODULE MCRegistration ---------------------------
(* Two threads that register users under two nicknames, with serial values *)
(* for three attempts: one that is answered and two that fail or overlap.  *)
EXTENDS Registration, TLC

Interchangeable == Permutations(Workers) \cup Permutations(Nicknames)
                     \cup Permutations(UserIds) \cup Permutations(PhotoIds)
=============================================================================
