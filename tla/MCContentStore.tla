--------------------------- MODULE MCContentStore ---------------------------
(* The content server's tables with two users, two posts and three photos: *)
(* enough for a post of each user, for likes of both on one post, for a    *)
(* post removed and another added, and for serial values lost to rollback. *)
EXTENDS ContentStore
=============================================================================
