-------------------------- MODULE MCContentServer --------------------------
(* The content server with room for three TcpConnection objects: one that  *)
(* listens and two requests that overlap; two users and one post.          *)
EXTENDS ContentServer, TLC

Interchangeable == Permutations(Conns) \cup Permutations(Users)
=============================================================================
