---------------------------- MODULE MCFormParser ----------------------------
(* Forms of up to four parts: a field, a password and a picture, in any    *)
(* order and number, with two file names.                                  *)
EXTENDS FormParser
=============================================================================
