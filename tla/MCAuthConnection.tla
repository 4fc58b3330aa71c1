-------------------------- MODULE MCAuthConnection --------------------------
(* Clients of the auth server: what one may send in a small instance. *)
EXTENDS AuthConnection, TLC

Interchangeable == Permutations(Tokens)

With(targets, tokens) ==
    [target : targets, token : tokens, origin : {TRUE}, flaw : {"none"}]

(* Requests without an Origin, and requests that cannot be parsed, one of  *)
(* them with a token that may be good.                                     *)
Flawed ==
    [target : {"options"}, token : {Null}, origin : {FALSE}, flaw : {"none"}]
    \cup [target : {"update"}, token : {Null}, origin : {TRUE}, flaw : {"length"}]
    \cup [target : {"registration"}, token : {Null}, origin : {TRUE}, flaw : {"content"}]
    \cup [target : {"makeFriend"}, token : Tokens, origin : {TRUE}, flaw : {"content"}]

(* One client in lock-step: requests of every kind that is handled in a    *)
(* way of its own, with one of two tokens where a token is wanted.         *)
OneOfEach ==
    With({"options", "registration", "unknownGet", "put"}, {Null})
    \cup With({"read", "update", "makeFriend", "getNewToken"}, Tokens)
    \cup With({"getId"}, {Null}) \cup Flawed

(* One client that does not wait: GETs and POSTs that take effect. *)
Overlapping ==
    With({"makeFriend"}, Tokens \cup {Null})
    \cup With({"update"}, {CHOOSE t \in Tokens : TRUE})
=============================================================================
