----------------------------- MODULE MCUrlParser -----------------------------
(* All texts of up to six characters, and all query strings of up to      *)
(* three parameters with short names and values.                           *)
EXTENDS UrlParser

ShortNames == {<<>>, <<"a">>, <<"b">>, <<"a", "b">>}
=============================================================================
