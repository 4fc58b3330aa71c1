------------------------------ MODULE MCSignIn ------------------------------
(* Two accounts, one of them that of user 18; two addresses, one of which  *)
(* can be written in two ways.                                             *)
EXTENDS SignIn, TLC

Interchangeable == Permutations(Addresses)
=============================================================================
