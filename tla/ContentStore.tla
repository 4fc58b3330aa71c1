---------------------------- MODULE ContentStore ----------------------------
(***************************************************************************)
(* class DBclient of the content server: the tables posts, likes and       *)
(* post_photos and the three calls that change them, statement by          *)
(* statement.  A call runs in one pqxx::work: its statements act on the    *)
(* transaction's own view (work), which commit installs in the committed   *)
(* tables (db) and which any exception drops.                              *)
(*                                                                         *)
(* The content server runs all its handlers on the one thread that called  *)
(* io_context::run (ClientAndServer.cpp:25-29) and nobody else writes      *)
(* these tables, so at most one call is under way at a time; what          *)
(* interrupts a call is a failing statement, a failing or unconfirmed      *)
(* commit, or the end of the process.                                      *)
(***************************************************************************)
EXTENDS Integers, FiniteSets

CONSTANTS
    Users,            \* ids of registered users
    PostIds,          \* values the serial key of posts can take
    PhotoIds,         \* values the serial key of post_photos can take
    Null,             \* SQL NULL
    InitialLikeCount  \* like_count of a fresh row: the INSERT does not set it

ASSUME UsersAssumption == IsFiniteSet(Users)
ASSUME NullAssumption ==
    /\ Null \notin Users
    /\ Null \notin PostIds
    /\ Null \notin PhotoIds
    /\ Null \notin Int
ASSUME LikeCountAssumption == InitialLikeCount \in {Null, 0}

VARIABLES
    db,          \* the committed tables
    work,        \* the tables as the open transaction sees them
    stage,       \* the statement the call executes next, "idle" between calls
    call,        \* the running call: operation, arguments and local photo_id
    outcome,     \* how the last call ended: returned, threw "400" or "500"
    spentPosts,  \* serial values drawn for posts, rolled back or not
    spentPhotos, \* serial values drawn for post_photos
    held         \* photo ids clients have been given in a list of posts

vars == <<db, work, stage, call, outcome, spentPosts, spentPhotos, held>>

Tables == [owner : [PostIds -> Users \cup {Null}],
           photo : [PostIds -> PhotoIds \cup {Null}],
           like_count : [PostIds -> Nat \cup {Null}],
           likes : SUBSET (PostIds \X Users),
           post_photos : SUBSET PhotoIds]

Stages == {"idle", "commit",
           "isExists", "addLikeFirst", "addLikeSecond",
           "delLikeFirst", "delLikeSecond",
           "isExistPost", "delFromLikes", "delFromPosts",
           "addNewPostPhoto", "addNewPostInformation"}

Calls == [op : {"none", "likeClicked", "delPostById", "addNewPost"},
          post : PostIds \cup {Null},
          user : Users \cup {Null},
          photo : PhotoIds \cup {Null}]

NoCall == [op |-> "none", post |-> Null, user |-> Null, photo |-> Null]

-----------------------------------------------------------------------------
(* The statements, as functions from tables to tables. *)

Likers(t, p) == {u \in Users : <<p, u>> \in t.likes}

(* COALESCE(like_count, 0), which is also what an empty count means. *)
Coalesce(count) == IF count = Null THEN 0 ELSE count

(* A possible slip: the increment without its COALESCE. *)
IncrementOfNull(count) == IF count = Null THEN Null ELSE count + 1

Increment(count) == Coalesce(count) + 1

Decrement(count) == IF count = Null THEN Null ELSE count - 1

(* A possible slip: the row of the like taken back is not deleted. *)
DeleteNoLike(t, p, u) == t

InsertLike(t, p, u) == [t EXCEPT !.likes = @ \cup {<<p, u>>}]
DeleteLike(t, p, u) == [t EXCEPT !.likes = @ \ {<<p, u>>}]

(* UPDATE posts SET like_count = n WHERE id = p: no row, no change. *)
SetLikeCount(t, p, n) ==
    IF t.owner[p] = Null THEN t ELSE [t EXCEPT !.like_count[p] = n]

(* A possible slip: the likes of a deleted post are left behind. *)
LeaveLikesOf(t, p) == t

DeleteLikesOf(t, p) == [t EXCEPT !.likes = {l \in @ : l[1] # p}]

DeletePost(t, p) == [t EXCEPT !.owner[p] = Null,
                              !.photo[p] = Null,
                              !.like_count[p] = Null]

InsertPhoto(t, f) == [t EXCEPT !.post_photos = @ \cup {f}]

InsertPost(t, p, u, f) == [t EXCEPT !.owner[p] = u,
                                    !.photo[p] = f,
                                    !.like_count[p] = InitialLikeCount]

(* A possible slip: the clean-up made to work, whatever became of the      *)
(* transaction it cleans up after.                                         *)
delPostPhotoByIdRepaired(t, f) == [t EXCEPT !.post_photos = @ \ {f}]

(* The clean-up of addNewPost.  Its text runs "post_photos" and "WHERE"    *)
(* together and it then executes a name that was never prepared, so it     *)
(* only ever throws and changes no table.                                  *)
delPostPhotoById(t, f) == t

-----------------------------------------------------------------------------
Init ==
    /\ db = [owner |-> [p \in PostIds |-> Null],
             photo |-> [p \in PostIds |-> Null],
             like_count |-> [p \in PostIds |-> Null],
             likes |-> {},
             post_photos |-> {}]
    /\ work = db
    /\ stage = "idle"
    /\ call = NoCall
    /\ outcome = "none"
    /\ spentPosts = {} /\ spentPhotos = {} /\ held = {}

(* Opens the pqxx::work of a call. *)
Begin(first, c) ==
    /\ stage = "idle"
    /\ stage' = first
    /\ call' = c
    /\ work' = db
    /\ outcome' = "none"
    /\ UNCHANGED <<db, spentPosts, spentPhotos, held>>

(* One statement: the transaction's view becomes t. *)
Exec(from, to, t) ==
    /\ stage = from
    /\ stage' = to
    /\ work' = t
    /\ UNCHANGED <<db, call, outcome, spentPosts, spentPhotos, held>>

(* The call ends; the committed tables are now t. *)
Return(t, result) ==
    /\ stage' = "idle"
    /\ call' = NoCall
    /\ db' = t
    /\ work' = t
    /\ outcome' = result
    /\ UNCHANGED <<spentPosts, spentPhotos, held>>

-----------------------------------------------------------------------------
(* likeClicked(post_id, user_id): take the like back if there is one, add  *)
(* it otherwise, and keep the counter column in step.                      *)

likeClicked(p, u) ==
    Begin("isExists",
          [op |-> "likeClicked", post |-> p, user |-> u, photo |-> Null])

isExists ==
    Exec("isExists",
         IF <<call.post, call.user>> \in work.likes
         THEN "delLikeFirst" ELSE "addLikeFirst",
         work)

(* A like of a missing post fails the foreign key of likes.post_id, so the *)
(* statement needs the post (external: the schema is not in the source;    *)
(* delPostById removes likes before their post).                           *)
addLikeFirst ==
    /\ stage = "addLikeFirst"
    /\ work.owner[call.post] # Null
    /\ Exec("addLikeFirst", "addLikeSecond",
            InsertLike(work, call.post, call.user))

addLikeSecond ==
    Exec("addLikeSecond", "commit",
         SetLikeCount(work, call.post,
                      Increment(work.like_count[call.post])))

delLikeFirst ==
    Exec("delLikeFirst", "delLikeSecond",
         DeleteLike(work, call.post, call.user))

delLikeSecond ==
    Exec("delLikeSecond", "commit",
         SetLikeCount(work, call.post,
                      Decrement(work.like_count[call.post])))

-----------------------------------------------------------------------------
(* delPostById(post_id, id): the author takes a post away with its likes.  *)
(* Its photo stays in post_photos: no statement of the code removes it.    *)

delPostById(p, u) ==
    Begin("isExistPost",
          [op |-> "delPostById", post |-> p, user |-> u, photo |-> Null])

(* A possible slip: the test looks for the post and forgets its author. *)
IsExistAnyPost(t, p, u) == t.owner[p] # Null

IsExistPost(t, p, u) == t.owner[p] = u

isExistPost ==
    /\ stage = "isExistPost"
    /\ IsExistPost(work, call.post, call.user)
    /\ Exec("isExistPost", "delFromLikes", work)

BadRequest ==
    /\ stage = "isExistPost"
    /\ ~IsExistPost(work, call.post, call.user)
    /\ Return(db, "400")

delFromLikes ==
    Exec("delFromLikes", "delFromPosts", DeleteLikesOf(work, call.post))

delFromPosts ==
    Exec("delFromPosts", "commit", DeletePost(work, call.post))

-----------------------------------------------------------------------------
(* addNewPost(user_id, ...): first the photo, then the row that names it.  *)
(* The serial values are drawn when the row is inserted and stay drawn if  *)
(* the transaction rolls back.                                             *)

addNewPost(u) ==
    Begin("addNewPostPhoto",
          [op |-> "addNewPost", post |-> Null, user |-> u, photo |-> Null])

addNewPostPhoto == \E f \in PhotoIds \ spentPhotos :
    /\ stage = "addNewPostPhoto"
    /\ stage' = "addNewPostInformation"
    /\ work' = InsertPhoto(work, f)
    /\ call' = [call EXCEPT !.photo = f]
    /\ spentPhotos' = spentPhotos \cup {f}
    /\ UNCHANGED <<db, outcome, spentPosts, held>>

addNewPostInformation == \E p \in PostIds \ spentPosts :
    /\ stage = "addNewPostInformation"
    /\ stage' = "commit"
    /\ work' = InsertPost(work, p, call.user, call.photo)
    /\ spentPosts' = spentPosts \cup {p}
    /\ UNCHANGED <<db, call, outcome, spentPhotos, held>>

-----------------------------------------------------------------------------
(* How a call ends. *)

Commit == stage = "commit" /\ Return(work, "ok")

(* What the catch block of the call leaves of the tables t: addNewPost     *)
(* tries to remove the photo it has inserted (is_add_photo).               *)
CleanUp(t) == IF call.photo = Null THEN t ELSE delPostPhotoById(t, call.photo)

(* Two possible slips: a catch block that forgets to throw on, and         *)
(* statements that run outside a transaction.                              *)
ThrowSwallowed == stage # "idle" /\ Return(CleanUp(db), "ok")
ThrowUntransacted == stage # "idle" /\ Return(CleanUp(work), "500")

(* A statement or the commit fails: the work is dropped, the catch block   *)
(* runs and the caller gets "500".                                         *)
Throw == stage # "idle" /\ Return(CleanUp(db), "500")

(* The commit reaches the database but its confirmation does not come      *)
(* back: libpqxx throws although the transaction has been applied.         *)
CommitInDoubt == stage = "commit" /\ Return(CleanUp(work), "500")

(* The server process ends in the middle of a call and nobody is told: the *)
(* database drops the open transaction, or has just committed it.          *)
Kill ==
    \/ stage # "idle" /\ Return(db, "none")
    \/ stage = "commit" /\ Return(work, "none")

-----------------------------------------------------------------------------
(* The two lists of posts answer with rows of live posts, which ones       *)
(* depending on the author asked for or the reader's friends, and on LIMIT *)
(* and OFFSET.  From then on the client knows the rows' photo ids.         *)
getPostsList(rows) ==
    /\ stage = "idle"
    /\ held' = held \cup {db.photo[p] : p \in rows}
    /\ UNCHANGED <<db, work, stage, call, outcome, spentPosts, spentPhotos>>

LivePosts == {p \in PostIds : db.owner[p] # Null}

(* exec_prepared1 finds exactly one photo with this id. *)
getPostPhotoById(f) == f \in db.post_photos

Next ==
    \/ \E u \in Users, p \in PostIds : likeClicked(p, u) \/ delPostById(p, u)
    \/ \E u \in Users : addNewPost(u)
    \/ isExists \/ addLikeFirst \/ addLikeSecond
    \/ delLikeFirst \/ delLikeSecond
    \/ isExistPost \/ BadRequest \/ delFromLikes \/ delFromPosts
    \/ addNewPostPhoto \/ addNewPostInformation
    \/ Commit \/ Throw \/ CommitInDoubt \/ Kill
    \/ \E rows \in SUBSET LivePosts : getPostsList(rows)

Spec == Init /\ [][Next]_vars

-----------------------------------------------------------------------------
(* The variables hold values of the tables and of the call. *)
TypeOK ==
    /\ db \in Tables /\ work \in Tables
    /\ stage \in Stages
    /\ call \in Calls
    /\ outcome \in {"none", "ok", "400", "500"}
    /\ spentPosts \subseteq PostIds
    /\ spentPhotos \subseteq PhotoIds
    /\ held \subseteq PhotoIds

(* The counter column of posts is kept by separate UPDATEs beside the rows *)
(* of likes; whatever fails between the two, a reader of the committed     *)
(* tables sees a counter equal to the number of users who like the post.   *)
CountExact(t) == \A p \in PostIds :
    Coalesce(t.like_count[p]) = Cardinality(Likers(t, p))
LikeCountExact == CountExact(db)

(* No like outlives its post, although posts and likes are deleted by two  *)
(* statements of delPostById.                                              *)
NoStrayLikes(t) == \A l \in t.likes : t.owner[l[1]] # Null
NoOrphanLikes == NoStrayLikes(db)

(* A photo id that a client has read in a list, or would read in one now,  *)
(* can be fetched by a later getPostPhoto: neither the removal of the post *)
(* in between nor a failed addNewPost takes the photo away.                *)
PhotosNamed(t) == \A p \in PostIds :
    t.owner[p] # Null => t.photo[p] \in t.post_photos
PhotosFetchable ==
    /\ PhotosNamed(db)
    /\ \A f \in held : getPostPhotoById(f)

(* What a call with arguments c is meant to make of tables t. *)
Performed(t, c, t2) ==
    \/ /\ c.op = "likeClicked"
       /\ t.owner[c.post] # Null
       /\ t2.owner = t.owner /\ t2.photo = t.photo
       /\ t2.likes = (t.likes \cup {<<c.post, c.user>>})
                        \ (t.likes \cap {<<c.post, c.user>>})
    \/ /\ c.op = "delPostById"
       /\ t.owner[c.post] = c.user
       /\ t2.owner = [t.owner EXCEPT ![c.post] = Null]
       /\ t2.likes = {l \in t.likes : l[1] # c.post}
    \/ /\ c.op = "addNewPost"
       /\ t2.likes = t.likes
       /\ \E p \in PostIds, f \in PhotoIds \ t.post_photos :
             /\ t.owner[p] = Null
             /\ t2.owner = [t.owner EXCEPT ![p] = c.user]
             /\ t2.photo = [t.photo EXCEPT ![p] = f]
             /\ t2.post_photos = t.post_photos \cup {f}

(* The answer of a call tells the truth about the tables: one that returns *)
(* was performed whole; one refused with "400" changed nothing and was not *)
(* the author's; one that threw "500" was performed whole or not at all.   *)
AnswerTellsTruth ==
    [][ stage # "idle" /\ stage' = "idle" =>
          CASE outcome' = "ok" -> Performed(db, call, db')
            [] outcome' = "400" -> /\ db' = db
                                   /\ db.owner[call.post] # call.user
            [] OTHER -> db' = db \/ Performed(db, call, db') ]_vars

(* A post is taken away only by a call of its author, and a user's like    *)
(* appears or disappears only by the user's own call or with the post.     *)
OnlyOwnRows ==
    [][ /\ \A p \in PostIds :
              db.owner[p] # Null /\ db'.owner[p] # db.owner[p]
                => /\ call.op = "delPostById"
                   /\ call.post = p /\ call.user = db.owner[p]
        /\ \A p \in PostIds, u \in Users :
              (<<p, u>> \in db.likes) # (<<p, u>> \in db'.likes)
                => \/ call.op = "likeClicked"
                      /\ call.post = p /\ call.user = u
                   \/ db'.owner[p] = Null ]_vars

(* Seen through its committed tables, the store is a PostBoard: every      *)
(* commit is one of its steps and everything else is invisible.            *)
Board == INSTANCE PostBoard WITH
    author <- db.owner,
    fans <- db.likes,
    shown <- [p \in PostIds |-> Coalesce(db.like_count[p])]
BoardSpec == Board!Spec

=============================================================================
