------------------------------ MODULE PostBoard ------------------------------
(***************************************************************************)
(* What the content server's tables promise to their readers: a board of   *)
(* posts with an author each, a set of fans for every post, and a number   *)
(* shown beside the post.  Every change is one atomic step, and the number *)
(* shown is by definition how many fans the post has.                      *)
(*                                                                         *)
(* ContentStore implements this module statement by statement; the module  *)
(* ContentServer performs these steps from its request handlers.           *)
(***************************************************************************)
EXTENDS Integers, FiniteSets

CONSTANTS
    Users,    \* ids of registered users
    PostIds,  \* values of the key of table posts
    Null      \* SQL NULL, and the author of a post that does not exist

VARIABLES
    author,   \* author[p]: who wrote post p, Null when there is no such post
    fans,     \* pairs <<p, u>>: user u likes post p
    shown     \* shown[p]: the like count a reader of post p is given

boardVars == <<author, fans, shown>>

FansOf(p, f) == {u \in Users : <<p, u>> \in f}

Init ==
    /\ author = [p \in PostIds |-> Null]
    /\ fans = {}
    /\ shown = [p \in PostIds |-> 0]

Publish(p, u) ==
    /\ author[p] = Null
    /\ author' = [author EXCEPT ![p] = u]
    /\ UNCHANGED <<fans, shown>>

(* Only the author can take a post away; its fans go with it. *)
Remove(p, u) ==
    /\ author[p] = u
    /\ author' = [author EXCEPT ![p] = Null]
    /\ fans' = {f \in fans : f[1] # p}
    /\ shown' = [shown EXCEPT ![p] = 0]

(* One click adds a like or takes the user's own like back. *)
Toggle(p, u) ==
    /\ author[p] # Null
    /\ fans' = IF <<p, u>> \in fans THEN fans \ {<<p, u>>}
                                    ELSE fans \cup {<<p, u>>}
    /\ shown' = [shown EXCEPT ![p] = Cardinality(FansOf(p, fans'))]
    /\ UNCHANGED author

Next == \E p \in PostIds, u \in Users :
            Publish(p, u) \/ Remove(p, u) \/ Toggle(p, u)

Spec == Init /\ [][Next]_boardVars
=============================================================================
