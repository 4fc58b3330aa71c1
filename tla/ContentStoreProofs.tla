------------------------- MODULE ContentStoreProofs -------------------------
(***************************************************************************)
(* ContentStore is type correct, keeps the like counter equal to the rows  *)
(* it counts and the photos of its posts fetchable, answers truthfully and *)
(* implements PostBoard, for every set of users, posts and photos.         *)
(*                                                                         *)
(* The argument: IndInv describes the open transaction as the committed    *)
(* tables with the executed statements applied.  The first lemmas show     *)
(* that the four complete effects (Liked, Unliked, Removed, Added) keep    *)
(* consistent tables consistent; IndInv is then preserved action by        *)
(* action, and each theorem reads off what it needs.                       *)
(***************************************************************************)
EXTENDS ContentStore, FiniteSetTheorems, TLAPS

-----------------------------------------------------------------------------
(* Why these hold: the transaction's view is always the committed tables   *)
(* with the statements executed so far applied to them, and the facts the  *)
(* call has read are still true when it acts on them.                      *)

Liked(t, p, u) ==
    SetLikeCount(InsertLike(t, p, u), p, Increment(t.like_count[p]))
Unliked(t, p, u) ==
    SetLikeCount(DeleteLike(t, p, u), p, Decrement(t.like_count[p]))
Removed(t, p) == DeletePost(DeleteLikesOf(t, p), p)
Added(t, p, u, f) == InsertPost(InsertPhoto(t, f), p, u, f)

Liking(c) ==
    c.op = "likeClicked" /\ c.post \in PostIds /\ c.user \in Users /\ c.photo = Null
Deleting(c) ==
    c.op = "delPostById" /\ c.post \in PostIds /\ c.user \in Users /\ c.photo = Null
Adding(c) ==
    c.op = "addNewPost" /\ c.user \in Users

CanLike == Liking(call) /\ <<call.post, call.user>> \notin db.likes
CanUnlike == Liking(call) /\ <<call.post, call.user>> \in db.likes
CanDelete == Deleting(call) /\ db.owner[call.post] = call.user
CanAdd == Adding(call) /\ call.photo \in spentPhotos \ db.post_photos

Finished(t) ==
    \/ CanLike /\ db.owner[call.post] # Null /\ t = Liked(db, call.post, call.user)
    \/ CanUnlike /\ t = Unliked(db, call.post, call.user)
    \/ CanDelete /\ t = Removed(db, call.post)
    \/ CanAdd /\ \E p \in spentPosts :
          db.owner[p] = Null /\ t = Added(db, p, call.user, call.photo)

ExecutedSoFar ==
    /\ stage = "idle" => call = NoCall /\ work = db
    /\ stage = "isExists" => Liking(call) /\ work = db
    /\ stage = "addLikeFirst" => CanLike /\ work = db
    /\ stage = "addLikeSecond" =>
          /\ CanLike /\ db.owner[call.post] # Null
          /\ work = InsertLike(db, call.post, call.user)
    /\ stage = "delLikeFirst" => CanUnlike /\ work = db
    /\ stage = "delLikeSecond" =>
          CanUnlike /\ work = DeleteLike(db, call.post, call.user)
    /\ stage = "isExistPost" => Deleting(call) /\ work = db
    /\ stage = "delFromLikes" => CanDelete /\ work = db
    /\ stage = "delFromPosts" => CanDelete /\ work = DeleteLikesOf(db, call.post)
    /\ stage = "addNewPostPhoto" => Adding(call) /\ call.photo = Null /\ work = db
    /\ stage = "addNewPostInformation" =>
          CanAdd /\ work = InsertPhoto(db, call.photo)
    /\ stage = "commit" => Finished(work)

Consistent(t) == CountExact(t) /\ NoStrayLikes(t) /\ PhotosNamed(t)

(* Serial values are never drawn twice, and nothing a client holds goes.   *)
Serials ==
    /\ LivePosts \subseteq spentPosts
    /\ db.post_photos \subseteq spentPhotos
    /\ held \subseteq db.post_photos

(* The inductive invariant: the committed tables are consistent and the    *)
(* open transaction is exactly what its statements have made of them.      *)
IndInv == TypeOK /\ Consistent(db) /\ Serials /\ ExecutedSoFar
-----------------------------------------------------------------------------
(* Facts about the statements. *)

(* The users who like a post are finitely many, as the users are. *)
LEMMA LikersFinite ==
    ASSUME NEW t, NEW p
    PROVE  IsFiniteSet(Likers(t, p)) /\ Cardinality(Likers(t, p)) \in Nat
<1>1. Likers(t, p) \subseteq Users
  BY DEF Likers
<1> QED
  BY <1>1, UsersAssumption, FS_Subset, FS_CardinalityType

(* Adding one like adds one liker to its post and none to another. *)
LEMMA OneMoreLiker ==
    ASSUME NEW t \in Tables, NEW p \in PostIds, NEW u \in Users,
           <<p, u>> \notin t.likes
    PROVE  LET t2 == InsertLike(t, p, u)
           IN  /\ Cardinality(Likers(t2, p)) = Cardinality(Likers(t, p)) + 1
               /\ \A q \in PostIds : q # p => Likers(t2, q) = Likers(t, q)
<1> DEFINE t2 == InsertLike(t, p, u)
<1>1. t2.likes = t.likes \cup {<<p, u>>}
  BY DEF InsertLike, Tables
<1>2. Likers(t2, p) = Likers(t, p) \cup {u} /\ u \notin Likers(t, p)
  BY <1>1 DEF Likers
<1>3. \A q \in PostIds : q # p => Likers(t2, q) = Likers(t, q)
  BY <1>1 DEF Likers
<1> QED
  BY <1>2, <1>3, LikersFinite, FS_AddElement

(* Taking one like back takes one liker from its post and none from another. *)
LEMMA OneLikerLess ==
    ASSUME NEW t \in Tables, NEW p \in PostIds, NEW u \in Users,
           <<p, u>> \in t.likes
    PROVE  LET t2 == DeleteLike(t, p, u)
           IN  /\ Cardinality(Likers(t2, p)) = Cardinality(Likers(t, p)) - 1
               /\ \A q \in PostIds : q # p => Likers(t2, q) = Likers(t, q)
<1> DEFINE t2 == DeleteLike(t, p, u)
<1>1. t2.likes = t.likes \ {<<p, u>>}
  BY DEF DeleteLike, Tables
<1>2. Likers(t2, p) = Likers(t, p) \ {u} /\ u \in Likers(t, p)
  BY <1>1 DEF Likers
<1>3. \A q \in PostIds : q # p => Likers(t2, q) = Likers(t, q)
  BY <1>1 DEF Likers
<1> QED
  BY <1>2, <1>3, LikersFinite, FS_RemoveElement

(* A like row and its counter: both together keep tables consistent. *)
LEMMA LikedEffect ==
    ASSUME NEW t \in Tables, Consistent(t), NEW p \in PostIds, NEW u \in Users,
           <<p, u>> \notin t.likes, t.owner[p] # Null
    PROVE  /\ InsertLike(t, p, u) \in Tables
           /\ Liked(t, p, u) \in Tables
           /\ Consistent(Liked(t, p, u))
<1> DEFINE t1 == InsertLike(t, p, u)
           n == Increment(t.like_count[p])
           t2 == Liked(t, p, u)
<1>1. t1 \in Tables /\ t1.owner = t.owner
  BY DEF InsertLike, Tables
<1>2. n \in Nat /\ n # Null /\ n = Coalesce(t.like_count[p]) + 1
  BY NullAssumption DEF Increment, Coalesce, Tables
<1>3. t2 = [t1 EXCEPT !.like_count[p] = n]
  BY <1>1 DEF Liked, SetLikeCount
<1>4. /\ t2.owner = t.owner /\ t2.photo = t.photo
      /\ t2.likes = t1.likes /\ t2.post_photos = t.post_photos
      /\ t2.like_count = [t.like_count EXCEPT ![p] = n]
  BY <1>3 DEF InsertLike, Tables
<1>5. t2 \in Tables
  BY <1>1, <1>2, <1>3 DEF Tables
<1>6. CountExact(t2)
  <2>1. \A q \in PostIds : Likers(t2, q) = Likers(t1, q)
    BY <1>4 DEF Likers
  <2>2. Coalesce(t2.like_count[p]) = Cardinality(Likers(t, p)) + 1
    BY <1>2, <1>4 DEF Consistent, CountExact, Coalesce, Tables
  <2>3. \A q \in PostIds \ {p} : t2.like_count[q] = t.like_count[q]
    BY <1>4 DEF Tables
  <2> QED
    BY <2>1, <2>2, <2>3, OneMoreLiker DEF Consistent, CountExact
<1>7. NoStrayLikes(t2)
  BY <1>4 DEF Consistent, NoStrayLikes, InsertLike, Tables
<1>8. PhotosNamed(t2)
  BY <1>4 DEF Consistent, PhotosNamed
<1> QED
  BY <1>1, <1>5, <1>6, <1>7, <1>8 DEF Consistent

(* Taking back a like with its counter keeps tables consistent. *)
LEMMA UnlikedEffect ==
    ASSUME NEW t \in Tables, Consistent(t), NEW p \in PostIds, NEW u \in Users,
           <<p, u>> \in t.likes
    PROVE  /\ t.owner[p] # Null
           /\ DeleteLike(t, p, u) \in Tables
           /\ Unliked(t, p, u) \in Tables
           /\ Consistent(Unliked(t, p, u))
<1> DEFINE t1 == DeleteLike(t, p, u)
           n == Decrement(t.like_count[p])
           t2 == Unliked(t, p, u)
<1>1. t1 \in Tables /\ t1.owner = t.owner /\ t.owner[p] # Null
  BY DEF DeleteLike, Tables, Consistent, NoStrayLikes
<1>2. n \in Nat /\ n # Null /\ n = Coalesce(t.like_count[p]) - 1
  <2>1. Cardinality(Likers(t1, p)) \in Nat
    BY LikersFinite
  <2>2. Coalesce(t.like_count[p]) = Cardinality(Likers(t1, p)) + 1
    BY <2>1, LikersFinite, OneLikerLess DEF Consistent, CountExact
  <2>3. t.like_count[p] # Null
    BY <2>1, <2>2 DEF Coalesce
  <2> QED
    BY <2>1, <2>2, <2>3, NullAssumption DEF Decrement, Coalesce
<1>3. t2 = [t1 EXCEPT !.like_count[p] = n]
  BY <1>1 DEF Unliked, SetLikeCount
<1>4. /\ t2.owner = t.owner /\ t2.photo = t.photo
      /\ t2.likes = t1.likes /\ t2.post_photos = t.post_photos
      /\ t2.like_count = [t.like_count EXCEPT ![p] = n]
  BY <1>3 DEF DeleteLike, Tables
<1>5. t2 \in Tables
  BY <1>1, <1>2, <1>3 DEF Tables
<1>6. CountExact(t2)
  <2>1. \A q \in PostIds : Likers(t2, q) = Likers(t1, q)
    BY <1>4 DEF Likers
  <2>2. Coalesce(t2.like_count[p]) = Cardinality(Likers(t, p)) - 1
    BY <1>2, <1>4 DEF Consistent, CountExact, Coalesce, Tables
  <2>3. \A q \in PostIds \ {p} : t2.like_count[q] = t.like_count[q]
    BY <1>4 DEF Tables
  <2> QED
    BY <2>1, <2>2, <2>3, OneLikerLess DEF Consistent, CountExact
<1>7. NoStrayLikes(t2)
  BY <1>4 DEF Consistent, NoStrayLikes, DeleteLike, Tables
<1>8. PhotosNamed(t2)
  BY <1>4 DEF Consistent, PhotosNamed
<1> QED
  BY <1>1, <1>5, <1>6, <1>7, <1>8 DEF Consistent

(* Removing a post after its likes leaves no like and no counter behind. *)
LEMMA RemovedEffect ==
    ASSUME NEW t \in Tables, Consistent(t), NEW p \in PostIds
    PROVE  /\ DeleteLikesOf(t, p) \in Tables
           /\ Removed(t, p) \in Tables
           /\ Consistent(Removed(t, p))
<1> DEFINE t2 == Removed(t, p)
<1>1. DeleteLikesOf(t, p) \in Tables
  BY DEF DeleteLikesOf, Tables
<1>2. t2 \in Tables
  BY <1>1 DEF Removed, DeletePost, Tables
<1>3. /\ t2.owner = [t.owner EXCEPT ![p] = Null]
      /\ t2.photo = [t.photo EXCEPT ![p] = Null]
      /\ t2.like_count = [t.like_count EXCEPT ![p] = Null]
      /\ t2.likes = {l \in t.likes : l[1] # p}
      /\ t2.post_photos = t.post_photos
  BY DEF Removed, DeletePost, DeleteLikesOf, Tables
<1>4. CountExact(t2)
  <2>1. Likers(t2, p) = {}
    BY <1>3 DEF Likers
  <2>2. t2.like_count[p] = Null
    BY <1>3 DEF Tables
  <2>3. Coalesce(t2.like_count[p]) = Cardinality(Likers(t2, p))
    BY <2>1, <2>2, FS_EmptySet DEF Coalesce
  <2>4. \A q \in PostIds \ {p} : /\ t2.like_count[q] = t.like_count[q]
                                 /\ Likers(t2, q) = Likers(t, q)
    BY <1>3 DEF Likers, Tables
  <2> QED
    BY <2>3, <2>4 DEF Consistent, CountExact
<1>5. NoStrayLikes(t2)
  BY <1>3 DEF Consistent, NoStrayLikes, Tables
<1>6. PhotosNamed(t2)
  BY <1>3 DEF Consistent, PhotosNamed, Tables
<1> QED
  BY <1>1, <1>2, <1>4, <1>5, <1>6 DEF Consistent

(* A new post starts with no like and names the photo inserted before it. *)
LEMMA AddedEffect ==
    ASSUME NEW t \in Tables, Consistent(t), NEW p \in PostIds, NEW u \in Users,
           NEW f \in PhotoIds, t.owner[p] = Null
    PROVE  /\ InsertPhoto(t, f) \in Tables
           /\ Added(t, p, u, f) \in Tables
           /\ Consistent(Added(t, p, u, f))
           /\ Coalesce(t.like_count[p]) = 0
<1> DEFINE t2 == Added(t, p, u, f)
<1>1. InsertPhoto(t, f) \in Tables
  BY DEF InsertPhoto, Tables
<1>2. t2 \in Tables
  <2>1. InitialLikeCount \in Nat \cup {Null}
    BY LikeCountAssumption
  <2>2. p \in PostIds /\ u \in Users \cup {Null} /\ f \in PhotoIds \cup {Null}
    OBVIOUS
  <2> QED
    BY <1>1, <2>1, <2>2 DEF Added, InsertPost, Tables
<1>3. /\ t2.owner = [t.owner EXCEPT ![p] = u]
      /\ t2.photo = [t.photo EXCEPT ![p] = f]
      /\ t2.like_count = [t.like_count EXCEPT ![p] = InitialLikeCount]
      /\ t2.likes = t.likes
      /\ t2.post_photos = t.post_photos \cup {f}
  BY DEF Added, InsertPost, InsertPhoto, Tables
<1>4. Likers(t, p) = {} /\ \A q \in PostIds : Likers(t2, q) = Likers(t, q)
  BY <1>3 DEF Likers, Consistent, NoStrayLikes
<1>5. Cardinality(Likers(t, p)) = 0
  BY <1>4, FS_EmptySet
<1>6. Coalesce(t.like_count[p]) = 0
  BY <1>5 DEF Consistent, CountExact
<1>7. CountExact(t2)
  <2>1. Coalesce(t2.like_count[p]) = 0
    BY <1>3, LikeCountAssumption DEF Coalesce, Tables
  <2>2. \A q \in PostIds \ {p} : t2.like_count[q] = t.like_count[q]
    BY <1>3 DEF Tables
  <2> QED
    BY <1>4, <1>5, <2>1, <2>2 DEF Consistent, CountExact
<1>8. NoStrayLikes(t2)
  BY <1>3, NullAssumption DEF Consistent, NoStrayLikes, Tables
<1>9. PhotosNamed(t2)
  BY <1>3 DEF Consistent, PhotosNamed, Tables
<1> QED
  BY <1>1, <1>2, <1>6, <1>7, <1>8, <1>9 DEF Consistent

-----------------------------------------------------------------------------
(* The inductive invariant. *)

(* What a call that has reached its commit has made of the tables. *)
LEMMA FinishedEffect ==
    ASSUME IndInv, NEW t, Finished(t)
    PROVE  /\ t \in Tables /\ Consistent(t) /\ Performed(db, call, t)
           /\ db.post_photos \subseteq t.post_photos
           /\ t.post_photos \subseteq spentPhotos
           /\ \A p \in PostIds : t.owner[p] # Null => p \in spentPosts
<1> USE DEF IndInv
<1> SUFFICES ASSUME db \in Tables, call \in Calls, Consistent(db), Serials,
                    spentPosts \subseteq PostIds, spentPhotos \subseteq PhotoIds
             PROVE  /\ t \in Tables /\ Consistent(t) /\ Performed(db, call, t)
                    /\ db.post_photos \subseteq t.post_photos
                    /\ t.post_photos \subseteq spentPhotos
                    /\ \A p \in PostIds : t.owner[p] # Null => p \in spentPosts
  BY DEF TypeOK
<1>1. CASE /\ CanLike /\ db.owner[call.post] # Null
           /\ t = Liked(db, call.post, call.user)
  <2>1. call.post \in PostIds /\ call.user \in Users
        /\ <<call.post, call.user>> \notin db.likes
    BY <1>1 DEF CanLike, Liking
  <2>2. t \in Tables /\ Consistent(t)
    BY <1>1, <2>1, LikedEffect
  <2>3. /\ t.owner = db.owner /\ t.photo = db.photo
        /\ t.post_photos = db.post_photos
        /\ t.likes = db.likes \cup {<<call.post, call.user>>}
    BY <1>1, <2>1 DEF Liked, SetLikeCount, InsertLike, Tables
  <2>4. db.likes \cap {<<call.post, call.user>>} = {}
    BY <2>1
  <2>5. Performed(db, call, t)
    BY <1>1, <2>3, <2>4 DEF Performed, CanLike, Liking
  <2> QED
    BY <2>2, <2>3, <2>5 DEF Serials, LivePosts
<1>2. CASE CanUnlike /\ t = Unliked(db, call.post, call.user)
  <2>1. call.post \in PostIds /\ call.user \in Users
        /\ <<call.post, call.user>> \in db.likes
    BY <1>2 DEF CanUnlike, Liking
  <2>2. t \in Tables /\ Consistent(t) /\ db.owner[call.post] # Null
    BY <1>2, <2>1, UnlikedEffect
  <2>3. /\ t.owner = db.owner /\ t.photo = db.photo
        /\ t.post_photos = db.post_photos
        /\ t.likes = db.likes \ {<<call.post, call.user>>}
    BY <1>2, <2>1 DEF Unliked, SetLikeCount, DeleteLike, Tables
  <2>4. t.likes = (db.likes \cup {<<call.post, call.user>>})
                     \ (db.likes \cap {<<call.post, call.user>>})
    BY <2>1, <2>3
  <2>5. Performed(db, call, t)
    BY <1>2, <2>2, <2>3, <2>4 DEF Performed, CanUnlike, Liking
  <2> QED
    BY <2>2, <2>3, <2>5 DEF Serials, LivePosts
<1>3. CASE CanDelete /\ t = Removed(db, call.post)
  <2>1. call.post \in PostIds
    BY <1>3 DEF CanDelete, Deleting
  <2>2. t \in Tables /\ Consistent(t)
    BY <1>3, <2>1, RemovedEffect
  <2>3. /\ t.owner = [db.owner EXCEPT ![call.post] = Null]
        /\ t.likes = {l \in db.likes : l[1] # call.post}
        /\ t.post_photos = db.post_photos
    BY <1>3, <2>1 DEF Removed, DeletePost, DeleteLikesOf, Tables
  <2>4. Performed(db, call, t)
    BY <1>3, <2>3 DEF Performed, CanDelete, Deleting
  <2>5. \A p \in PostIds : t.owner[p] # Null => p \in spentPosts
    BY <2>1, <2>3 DEF Serials, LivePosts, Tables
  <2> QED
    BY <2>2, <2>3, <2>4, <2>5 DEF Serials
<1>4. CASE CanAdd /\ \E p \in spentPosts :
             db.owner[p] = Null /\ t = Added(db, p, call.user, call.photo)
  <2>1. PICK p \in spentPosts :
             db.owner[p] = Null /\ t = Added(db, p, call.user, call.photo)
    BY <1>4
  <2>2. /\ p \in PostIds /\ call.user \in Users /\ call.photo \in PhotoIds
        /\ call.photo \in spentPhotos /\ call.photo \notin db.post_photos
        /\ call.op = "addNewPost"
    BY <1>4 DEF CanAdd, Adding
  <2>3. t \in Tables /\ Consistent(t)
    BY <2>1, <2>2, AddedEffect
  <2>4. /\ t.owner = [db.owner EXCEPT ![p] = call.user]
        /\ t.photo = [db.photo EXCEPT ![p] = call.photo]
        /\ t.likes = db.likes
        /\ t.post_photos = db.post_photos \cup {call.photo}
    BY <2>1, <2>2 DEF Added, InsertPost, InsertPhoto, Tables
  <2>5. Performed(db, call, t)
    BY <2>1, <2>2, <2>4 DEF Performed
  <2>6. \A q \in PostIds : t.owner[q] # Null => q \in spentPosts
    BY <2>1, <2>2, <2>4 DEF Serials, LivePosts, Tables
  <2> QED
    BY <2>2, <2>3, <2>4, <2>5, <2>6 DEF Serials
<1> QED
  BY <1>1, <1>2, <1>3, <1>4 DEF Finished

(* The invariant holds when the server starts. *)
LEMMA InitInv == Init => IndInv
<1> SUFFICES ASSUME Init PROVE IndInv
  OBVIOUS
<1>1. TypeOK
  BY DEF Init, TypeOK, Tables, Stages, Calls, NoCall
<1>2. \A p \in PostIds : Likers(db, p) = {} /\ db.like_count[p] = Null
  BY DEF Init, Likers
<1>3. Consistent(db)
  BY <1>2, FS_EmptySet
  DEF Init, Consistent, CountExact, NoStrayLikes, PhotosNamed, Coalesce
<1>4. Serials /\ ExecutedSoFar
  BY DEF Init, Serials, LivePosts, ExecutedSoFar
<1> QED
  BY <1>1, <1>3, <1>4 DEF IndInv

(* However a call ends, the tables it leaves are consistent. *)
LEMMA ReturnInv ==
    ASSUME IndInv, NEW result \in {"none", "ok", "400", "500"}, NEW t,
           t = db \/ (stage = "commit" /\ t = work), Return(t, result)
    PROVE  IndInv'
<1>1. /\ t \in Tables /\ Consistent(t)
      /\ db.post_photos \subseteq t.post_photos
      /\ t.post_photos \subseteq spentPhotos
      /\ \A p \in PostIds : t.owner[p] # Null => p \in spentPosts
  <2>1. CASE t = db
    BY <2>1 DEF IndInv, TypeOK, Serials, LivePosts
  <2>2. CASE stage = "commit" /\ t = work
    BY <2>2, FinishedEffect DEF IndInv, ExecutedSoFar
  <2> QED
    BY <2>1, <2>2
<1>2. TypeOK'
  BY <1>1 DEF Return, IndInv, TypeOK, Stages, Calls, NoCall
<1>3. Consistent(db')
  BY <1>1 DEF Return
<1>4. Serials'
  BY <1>1 DEF Return, IndInv, Serials, LivePosts
<1>5. ExecutedSoFar'
  BY DEF Return, ExecutedSoFar
<1> QED
  BY <1>2, <1>3, <1>4, <1>5 DEF IndInv

(* A statement leaves the committed tables alone: the invariant needs only *)
(* what it makes of the transaction and of the serial values.              *)
LEMMA StatementInv ==
    ASSUME IndInv, UNCHANGED <<db, held>>, outcome' \in {"none", "ok", "400", "500"},
           work' \in Tables, stage' \in Stages, call' \in Calls,
           spentPosts \subseteq spentPosts', spentPosts' \subseteq PostIds,
           spentPhotos \subseteq spentPhotos', spentPhotos' \subseteq PhotoIds,
           ExecutedSoFar'
    PROVE  IndInv'
<1>1. TypeOK'
  BY DEF IndInv, TypeOK
<1>2. Consistent(db)' /\ Serials'
  <2>1. Consistent(db)'
    BY DEF IndInv
  <2> QED
    BY <2>1 DEF IndInv, Serials, LivePosts
<1> QED
  BY <1>1, <1>2 DEF IndInv

(* The invariant survives every statement, commit, exception and crash. *)
LEMMA NextInv == IndInv /\ [Next]_vars => IndInv'
<1> SUFFICES ASSUME IndInv, [Next]_vars PROVE IndInv'
  OBVIOUS
<1>t. TypeOK /\ Consistent(db) /\ Serials /\ ExecutedSoFar
  BY DEF IndInv
<1> DEFINE Call(o, p, u) == [op |-> o, post |-> p, user |-> u, photo |-> Null]
<1>1. CASE \E u \in Users, p \in PostIds : likeClicked(p, u)
  <2>1. PICK u \in Users, p \in PostIds : likeClicked(p, u)
    BY <1>1
  <2>2. /\ stage' = "isExists" /\ work' = db
        /\ call' = Call("likeClicked", p, u)
        /\ UNCHANGED <<db, spentPosts, spentPhotos, held>> /\ outcome' = "none"
    BY <2>1 DEF likeClicked, Begin
  <2>3. ExecutedSoFar'
    BY <2>2 DEF ExecutedSoFar, Liking
  <2> QED
    BY <1>t, <2>2, <2>3, StatementInv DEF TypeOK, Stages, Calls
<1>2. CASE \E u \in Users, p \in PostIds : delPostById(p, u)
  <2>1. PICK u \in Users, p \in PostIds : delPostById(p, u)
    BY <1>2
  <2>2. /\ stage' = "isExistPost" /\ work' = db
        /\ call' = Call("delPostById", p, u)
        /\ UNCHANGED <<db, spentPosts, spentPhotos, held>> /\ outcome' = "none"
    BY <2>1 DEF delPostById, Begin
  <2>3. ExecutedSoFar'
    BY <2>2 DEF ExecutedSoFar, Deleting
  <2> QED
    BY <1>t, <2>2, <2>3, StatementInv DEF TypeOK, Stages, Calls
<1>3. CASE \E u \in Users : addNewPost(u)
  <2>1. PICK u \in Users : addNewPost(u)
    BY <1>3
  <2>2. /\ stage' = "addNewPostPhoto" /\ work' = db
        /\ call' = Call("addNewPost", Null, u)
        /\ UNCHANGED <<db, spentPosts, spentPhotos, held>> /\ outcome' = "none"
    BY <2>1 DEF addNewPost, Begin
  <2>3. ExecutedSoFar'
    BY <2>2 DEF ExecutedSoFar, Adding
  <2> QED
    BY <1>t, <2>2, <2>3, StatementInv DEF TypeOK, Stages, Calls
<1>4. CASE isExists
  <2>1. /\ stage = "isExists" /\ work' = work
        /\ stage' = IF <<call.post, call.user>> \in work.likes
                    THEN "delLikeFirst" ELSE "addLikeFirst"
        /\ UNCHANGED <<db, call, outcome, spentPosts, spentPhotos, held>>
    BY <1>4 DEF isExists, Exec
  <2>2. ExecutedSoFar'
    BY <1>t, <2>1 DEF ExecutedSoFar, CanLike, CanUnlike, Liking
  <2> QED
    BY <1>t, <2>1, <2>2, StatementInv DEF TypeOK, Stages
<1>5. CASE addLikeFirst
  <2>1. /\ stage = "addLikeFirst" /\ stage' = "addLikeSecond"
        /\ work.owner[call.post] # Null
        /\ work' = InsertLike(work, call.post, call.user)
        /\ UNCHANGED <<db, call, outcome, spentPosts, spentPhotos, held>>
    BY <1>5 DEF addLikeFirst, Exec
  <2>2. CanLike /\ work = db
    BY <1>t, <2>1 DEF ExecutedSoFar
  <2>3. ExecutedSoFar'
    BY <2>1, <2>2 DEF ExecutedSoFar, CanLike, Liking
  <2>4. work' \in Tables
    BY <1>t, <2>1, <2>2, LikedEffect DEF TypeOK, CanLike, Liking
  <2> QED
    BY <1>t, <2>1, <2>3, <2>4, StatementInv DEF TypeOK, Stages
<1>6. CASE addLikeSecond
  <2>1. /\ stage = "addLikeSecond" /\ stage' = "commit"
        /\ work' = SetLikeCount(work, call.post, Increment(work.like_count[call.post]))
        /\ UNCHANGED <<db, call, outcome, spentPosts, spentPhotos, held>>
    BY <1>6 DEF addLikeSecond, Exec
  <2>2. /\ CanLike /\ db.owner[call.post] # Null
        /\ work = InsertLike(db, call.post, call.user)
    BY <1>t, <2>1 DEF ExecutedSoFar
  <2>3. work.like_count = db.like_count
    BY <1>t, <2>2 DEF InsertLike, TypeOK, Tables
  <2>4. Finished(work')
    BY <2>1, <2>2, <2>3 DEF Finished, Liked
  <2> QED
    BY <1>t, <2>1, <2>4, FinishedEffect, StatementInv
    DEF ExecutedSoFar, Finished, CanLike, CanUnlike, CanDelete, CanAdd, TypeOK, Stages
<1>7. CASE delLikeFirst
  <2>1. /\ stage = "delLikeFirst" /\ stage' = "delLikeSecond"
        /\ work' = DeleteLike(work, call.post, call.user)
        /\ UNCHANGED <<db, call, outcome, spentPosts, spentPhotos, held>>
    BY <1>7 DEF delLikeFirst, Exec
  <2>2. CanUnlike /\ work = db
    BY <1>t, <2>1 DEF ExecutedSoFar
  <2>3. ExecutedSoFar'
    BY <2>1, <2>2 DEF ExecutedSoFar, CanUnlike, Liking
  <2>4. work' \in Tables
    BY <1>t, <2>1, <2>2, UnlikedEffect DEF TypeOK, CanUnlike, Liking
  <2> QED
    BY <1>t, <2>1, <2>3, <2>4, StatementInv DEF TypeOK, Stages
<1>8. CASE delLikeSecond
  <2>1. /\ stage = "delLikeSecond" /\ stage' = "commit"
        /\ work' = SetLikeCount(work, call.post, Decrement(work.like_count[call.post]))
        /\ UNCHANGED <<db, call, outcome, spentPosts, spentPhotos, held>>
    BY <1>8 DEF delLikeSecond, Exec
  <2>2. CanUnlike /\ work = DeleteLike(db, call.post, call.user)
    BY <1>t, <2>1 DEF ExecutedSoFar
  <2>3. work.like_count = db.like_count
    BY <1>t, <2>2 DEF DeleteLike, TypeOK, Tables
  <2>4. Finished(work')
    BY <2>1, <2>2, <2>3 DEF Finished, Unliked
  <2> QED
    BY <1>t, <2>1, <2>4, FinishedEffect, StatementInv
    DEF ExecutedSoFar, Finished, CanLike, CanUnlike, CanDelete, CanAdd, TypeOK, Stages
<1>9. CASE isExistPost
  <2>1. /\ stage = "isExistPost" /\ stage' = "delFromLikes" /\ work' = work
        /\ work.owner[call.post] = call.user
        /\ UNCHANGED <<db, call, outcome, spentPosts, spentPhotos, held>>
    BY <1>9 DEF isExistPost, IsExistPost, Exec
  <2>2. ExecutedSoFar'
    BY <1>t, <2>1 DEF ExecutedSoFar, CanDelete, Deleting
  <2> QED
    BY <1>t, <2>1, <2>2, StatementInv DEF TypeOK, Stages
<1>10. CASE delFromLikes
  <2>1. /\ stage = "delFromLikes" /\ stage' = "delFromPosts"
        /\ work' = DeleteLikesOf(work, call.post)
        /\ UNCHANGED <<db, call, outcome, spentPosts, spentPhotos, held>>
    BY <1>10 DEF delFromLikes, Exec
  <2>2. CanDelete /\ work = db
    BY <1>t, <2>1 DEF ExecutedSoFar
  <2>3. ExecutedSoFar'
    BY <2>1, <2>2 DEF ExecutedSoFar, CanDelete, Deleting
  <2>4. work' \in Tables
    BY <1>t, <2>1, <2>2, RemovedEffect DEF TypeOK, CanDelete, Deleting
  <2> QED
    BY <1>t, <2>1, <2>3, <2>4, StatementInv DEF TypeOK, Stages
<1>11. CASE delFromPosts
  <2>1. /\ stage = "delFromPosts" /\ stage' = "commit"
        /\ work' = DeletePost(work, call.post)
        /\ UNCHANGED <<db, call, outcome, spentPosts, spentPhotos, held>>
    BY <1>11 DEF delFromPosts, Exec
  <2>2. CanDelete /\ work = DeleteLikesOf(db, call.post)
    BY <1>t, <2>1 DEF ExecutedSoFar
  <2>3. Finished(work')
    BY <2>1, <2>2 DEF Finished, Removed
  <2> QED
    BY <1>t, <2>1, <2>3, FinishedEffect, StatementInv
    DEF ExecutedSoFar, Finished, CanLike, CanUnlike, CanDelete, CanAdd, TypeOK, Stages
<1>12. CASE addNewPostPhoto
  <2>1. PICK f \in PhotoIds \ spentPhotos :
          /\ stage = "addNewPostPhoto" /\ stage' = "addNewPostInformation"
          /\ work' = InsertPhoto(work, f)
          /\ call' = [call EXCEPT !.photo = f]
          /\ spentPhotos' = spentPhotos \cup {f}
          /\ UNCHANGED <<db, outcome, spentPosts, held>>
    BY <1>12 DEF addNewPostPhoto
  <2>2. Adding(call) /\ work = db
    BY <1>t, <2>1 DEF ExecutedSoFar
  <2>3. /\ call' \in Calls /\ call'.photo = f
        /\ call'.op = call.op /\ call'.user = call.user
    BY <1>t, <2>1 DEF TypeOK, Calls
  <2>4. CanAdd'
    BY <1>t, <2>1, <2>2, <2>3 DEF CanAdd, Adding, Serials
  <2>5. ExecutedSoFar'
    BY <2>1, <2>2, <2>3, <2>4 DEF ExecutedSoFar
  <2>6. work' \in Tables
    BY <1>t, <2>1, <2>2 DEF TypeOK, InsertPhoto, Tables
  <2> QED
    BY <1>t, <2>1, <2>3, <2>5, <2>6, StatementInv DEF TypeOK, Stages
<1>13. CASE addNewPostInformation
  <2>1. PICK p \in PostIds \ spentPosts :
          /\ stage = "addNewPostInformation" /\ stage' = "commit"
          /\ work' = InsertPost(work, p, call.user, call.photo)
          /\ spentPosts' = spentPosts \cup {p}
          /\ UNCHANGED <<db, call, outcome, spentPhotos, held>>
    BY <1>13 DEF addNewPostInformation
  <2>2. CanAdd /\ work = InsertPhoto(db, call.photo)
    BY <1>t, <2>1 DEF ExecutedSoFar
  <2>3. db.owner[p] = Null
    BY <1>t, <2>1 DEF Serials, LivePosts
  <2>4. CanAdd' /\ work' = Added(db', p, call'.user, call'.photo)
    BY <2>1, <2>2 DEF CanAdd, Adding, Added
  <2>5. Finished(work)'
    BY <2>1, <2>3, <2>4 DEF Finished
  <2>6. ExecutedSoFar'
    BY <2>1, <2>5 DEF ExecutedSoFar
  <2>7. call.user \in Users /\ call.photo \in PhotoIds
    BY <1>t, <2>2 DEF CanAdd, Adding, TypeOK
  <2>8. work' \in Tables
    BY <1>t, <2>1, <2>3, <2>4, <2>7, AddedEffect DEF TypeOK
  <2> QED
    BY <1>t, <2>1, <2>6, <2>8, StatementInv DEF TypeOK, Stages
<1>14. CASE BadRequest
  BY <1>14, ReturnInv DEF BadRequest
<1>15. CASE Commit
  BY <1>15, ReturnInv DEF Commit
<1>16. CASE Throw
  BY <1>16, ReturnInv DEF Throw, CleanUp, delPostPhotoById
<1>17. CASE CommitInDoubt
  BY <1>17, ReturnInv DEF CommitInDoubt, CleanUp, delPostPhotoById
<1>18. CASE Kill
  BY <1>18, ReturnInv DEF Kill
<1>19. CASE \E rows \in SUBSET LivePosts : getPostsList(rows)
  <2>1. PICK rows \in SUBSET LivePosts : getPostsList(rows)
    BY <1>19
  <2>2. {db.photo[p] : p \in rows} \subseteq db.post_photos
    BY <1>t DEF LivePosts, Consistent, PhotosNamed
  <2>3. /\ held' = held \cup {db.photo[p] : p \in rows}
        /\ UNCHANGED <<db, work, stage, call, outcome, spentPosts, spentPhotos>>
    BY <2>1 DEF getPostsList
  <2>4. TypeOK' /\ Serials'
    BY <1>t, <2>2, <2>3 DEF TypeOK, Serials, LivePosts, Tables
  <2>5. Consistent(db)' /\ ExecutedSoFar'
    BY <1>t, <2>3
    DEF ExecutedSoFar, Finished, CanLike, CanUnlike, CanDelete, CanAdd
  <2> QED
    BY <2>4, <2>5 DEF IndInv
<1>20. CASE UNCHANGED vars
  BY <1>t, <1>20
  DEF vars, IndInv, TypeOK, Serials, LivePosts, ExecutedSoFar, Finished,
      CanLike, CanUnlike, CanDelete, CanAdd
<1> QED
  BY <1>1, <1>2, <1>3, <1>4, <1>5, <1>6, <1>7, <1>8, <1>9, <1>10, <1>11,
     <1>12, <1>13, <1>14, <1>15, <1>16, <1>17, <1>18, <1>19, <1>20 DEF Next

-----------------------------------------------------------------------------
(* The theorems. *)

(* The open transaction is always the committed tables with the executed   *)
(* statements applied, and the committed tables are consistent.            *)
THEOREM StoreInvariant == Spec => []IndInv
<1> QED
  BY InitInv, NextInv, PTL DEF Spec

(* The variables keep their types; in particular no like counter of        *)
(* likeClicked ever goes below zero.                                       *)
THEOREM TypeCorrect == Spec => []TypeOK
<1>1. IndInv => TypeOK
  BY DEF IndInv
<1> QED
  BY <1>1, StoreInvariant, PTL

(* The committed like_count of every post is the number of its rows in     *)
(* likes, whatever statement of likeClicked or delPostById fails.          *)
THEOREM LikeCounterExact == Spec => []LikeCountExact
<1>1. IndInv => LikeCountExact
  BY DEF IndInv, Consistent, LikeCountExact
<1> QED
  BY <1>1, StoreInvariant, PTL

(* delPostById never leaves a like whose post is gone.                     *)
THEOREM LikesHavePosts == Spec => []NoOrphanLikes
<1>1. IndInv => NoOrphanLikes
  BY DEF IndInv, Consistent, NoOrphanLikes
<1> QED
  BY <1>1, StoreInvariant, PTL

(* A photo id once listed by getPostsList stays fetchable for ever.        *)
THEOREM PhotosStay == Spec => []PhotosFetchable
<1>1. IndInv => PhotosFetchable
  BY DEF IndInv, Consistent, Serials, PhotosFetchable, getPostPhotoById
<1> QED
  BY <1>1, StoreInvariant, PTL

(* The committed tables change only when a finished transaction commits.   *)
LEMMA TablesChangeAtCommit ==
    ASSUME [Next]_vars
    PROVE  db' = db \/ (stage = "commit" /\ db' = work /\ stage' = "idle")
<1>1. CASE UNCHANGED vars
  BY <1>1 DEF vars
<1>2. CASE Commit \/ Throw \/ CommitInDoubt \/ Kill \/ BadRequest
  BY <1>2 DEF Commit, Throw, CommitInDoubt, Kill, BadRequest, Return, CleanUp,
              delPostPhotoById
<1>3. CASE isExists \/ addLikeFirst \/ addLikeSecond \/ delLikeFirst
           \/ delLikeSecond \/ isExistPost \/ delFromLikes \/ delFromPosts
  BY <1>3 DEF isExists, addLikeFirst, addLikeSecond, delLikeFirst,
              delLikeSecond, isExistPost, delFromLikes, delFromPosts, Exec
<1>4. CASE addNewPostPhoto \/ addNewPostInformation
  BY <1>4 DEF addNewPostPhoto, addNewPostInformation
<1>5. CASE \/ \E u \in Users, p \in PostIds : likeClicked(p, u) \/ delPostById(p, u)
           \/ \E u \in Users : addNewPost(u)
           \/ \E rows \in SUBSET LivePosts : getPostsList(rows)
  BY <1>5 DEF likeClicked, delPostById, addNewPost, Begin, getPostsList
<1> QED
  BY <1>1, <1>2, <1>3, <1>4, <1>5 DEF Next

(* How a call can end: performed and "ok", refused, or failed. *)
LEMMA HowACallEnds ==
    ASSUME [Next]_vars, stage # "idle", stage' = "idle"
    PROVE  \/ outcome' = "ok" /\ stage = "commit" /\ db' = work
           \/ /\ outcome' = "400" /\ db' = db
              /\ stage = "isExistPost" /\ work.owner[call.post] # call.user
           \/ outcome' \in {"500", "none"}
<1>1. CASE Commit \/ Throw \/ CommitInDoubt \/ Kill \/ BadRequest
  BY <1>1 DEF Commit, Throw, CommitInDoubt, Kill, BadRequest, Return, IsExistPost
<1>2. CASE isExists \/ addLikeFirst \/ addLikeSecond \/ delLikeFirst
           \/ delLikeSecond \/ isExistPost \/ delFromLikes \/ delFromPosts
  BY <1>2 DEF isExists, addLikeFirst, addLikeSecond, delLikeFirst,
              delLikeSecond, isExistPost, delFromLikes, delFromPosts, Exec
<1>3. CASE addNewPostPhoto \/ addNewPostInformation
  BY <1>3 DEF addNewPostPhoto, addNewPostInformation
<1>4. CASE \/ \E u \in Users, p \in PostIds : likeClicked(p, u) \/ delPostById(p, u)
           \/ \E u \in Users : addNewPost(u)
           \/ \E rows \in SUBSET LivePosts : getPostsList(rows)
  BY <1>4 DEF likeClicked, delPostById, addNewPost, Begin, getPostsList
<1> QED
  BY <1>1, <1>2, <1>3, <1>4 DEF Next, vars

(* A call that returns was performed whole, a "400" changed nothing, and   *)
(* a "500" or a killed process left all of the call or nothing of it.      *)
THEOREM AnswersTruthful == Spec => AnswerTellsTruth
<1> DEFINE Truth == stage # "idle" /\ stage' = "idle" =>
          CASE outcome' = "ok" -> Performed(db, call, db')
            [] outcome' = "400" -> /\ db' = db
                                   /\ db.owner[call.post] # call.user
            [] OTHER -> db' = db \/ Performed(db, call, db')
<1>1. IndInv /\ [Next]_vars => Truth
  <2> SUFFICES ASSUME IndInv, [Next]_vars, stage # "idle", stage' = "idle"
               PROVE  Truth
    OBVIOUS
  <2>1. stage = "commit" => Performed(db, call, work)
    BY FinishedEffect DEF IndInv, ExecutedSoFar
  <2>2. stage = "isExistPost" => work = db
    BY DEF IndInv, ExecutedSoFar
  <2> QED
    BY <2>1, <2>2, HowACallEnds, TablesChangeAtCommit
<1> QED
  BY <1>1, StoreInvariant, PTL DEF Spec, AnswerTellsTruth

(* Only its author's delPostById takes a post away; only the user's own    *)
(* likeClicked, or the end of the post, changes whether the user likes it. *)
THEOREM OwnRows == Spec => OnlyOwnRows
<1> DEFINE Own ==
        /\ \A p \in PostIds :
              db.owner[p] # Null /\ db'.owner[p] # db.owner[p]
                => /\ call.op = "delPostById"
                   /\ call.post = p /\ call.user = db.owner[p]
        /\ \A p \in PostIds, u \in Users :
              (<<p, u>> \in db.likes) # (<<p, u>> \in db'.likes)
                => \/ call.op = "likeClicked"
                      /\ call.post = p /\ call.user = u
                   \/ db'.owner[p] = Null
<1>1. IndInv /\ [Next]_vars => Own
  <2> SUFFICES ASSUME IndInv, stage = "commit", db' = work PROVE Own
    BY TablesChangeAtCommit
  <2>1. /\ Performed(db, call, work) /\ Finished(work)
        /\ db \in Tables /\ call \in Calls
    BY FinishedEffect DEF IndInv, ExecutedSoFar, TypeOK
  <2>2. CASE call.op = "likeClicked"
    <3>1. /\ db'.owner = db.owner
          /\ db'.likes = (db.likes \cup {<<call.post, call.user>>})
                            \ (db.likes \cap {<<call.post, call.user>>})
      BY <2>1, <2>2 DEF Performed
    <3> QED
      BY <2>2, <3>1
  <2>3. CASE call.op = "delPostById"
    <3>1. /\ db.owner[call.post] = call.user
          /\ db'.owner = [db.owner EXCEPT ![call.post] = Null]
          /\ db'.likes = {l \in db.likes : l[1] # call.post}
      BY <2>1, <2>3 DEF Performed
    <3>2. call.post \in PostIds
      BY <2>1, <2>3 DEF Finished, CanLike, Liking, CanUnlike, CanDelete,
                        Deleting, CanAdd, Adding
    <3> QED
      BY <2>1, <2>3, <3>1, <3>2 DEF Tables
  <2>4. CASE call.op = "addNewPost"
    <3>1. PICK p \in PostIds :
             /\ db.owner[p] = Null
             /\ db'.owner = [db.owner EXCEPT ![p] = call.user]
      BY <2>1, <2>4 DEF Performed
    <3>2. db'.likes = db.likes
      BY <2>1, <2>4 DEF Performed
    <3> QED
      BY <2>1, <3>1, <3>2 DEF Tables
  <2> QED
    BY <2>1, <2>2, <2>3, <2>4 DEF Performed
<1> QED
  BY <1>1, StoreInvariant, PTL DEF Spec, OnlyOwnRows

(* Counting means the same in PostBoard and here. *)
LEMMA SameCardinality == \A S : Board!Cardinality(S) = Cardinality(S)
<1> QED
  BY Zenon DEF Cardinality, Board!Cardinality

(* Seen through its committed tables, the store takes only PostBoard's     *)
(* atomic steps: publish, remove by the author, toggle one's like.         *)
THEOREM ImplementsBoard == Spec => BoardSpec
<1>1. Init => Board!Init
  BY DEF Init, Board!Init, Coalesce
<1>2. IndInv /\ [Next]_vars => [Board!Next]_(Board!boardVars)
  <2> SUFFICES ASSUME IndInv, stage = "commit", db' = work
               PROVE  Board!Next
    BY TablesChangeAtCommit DEF Board!boardVars
  <2>1. db \in Tables /\ call \in Calls /\ Consistent(db) /\ Finished(work)
        /\ spentPosts \subseteq PostIds
    BY DEF IndInv, ExecutedSoFar, TypeOK
  <2>2. work \in Tables /\ Consistent(work) /\ Performed(db, call, db')
    BY FinishedEffect, <2>1
  <2> DEFINE shown == [p \in PostIds |-> Coalesce(db.like_count[p])]
  <2>3. \A p \in PostIds : shown'[p] = Cardinality(Likers(work, p))
    BY <2>2 DEF Consistent, CountExact
  <2>4. \A p \in PostIds : shown[p] = Cardinality(Likers(db, p))
    BY <2>1 DEF Consistent, CountExact
  <2>5. \A p \in PostIds : Board!FansOf(p, db'.likes) = Likers(work, p)
    BY DEF Board!FansOf, Likers
  <2>6. CASE CanLike \/ CanUnlike
    <3>1. PICK p \in PostIds, u \in Users :
             p = call.post /\ u = call.user /\ call.op = "likeClicked"
      BY <2>6 DEF CanLike, CanUnlike, Liking
    <3>2. /\ db.owner[p] # Null /\ db'.owner = db.owner
          /\ db'.likes = (db.likes \cup {<<p, u>>}) \ (db.likes \cap {<<p, u>>})
      BY <2>2, <3>1 DEF Performed
    <3>3. db'.likes = IF <<p, u>> \in db.likes THEN db.likes \ {<<p, u>>}
                                              ELSE db.likes \cup {<<p, u>>}
      BY <3>2
    <3>4. \A q \in PostIds : q # p => Likers(work, q) = Likers(db, q)
      BY <3>3 DEF Likers
    <3>5. shown' = [shown EXCEPT ![p] = Board!Cardinality(Board!FansOf(p, db'.likes))]
      <4>1. \A q \in PostIds :
               shown'[q] = [shown EXCEPT ![p] = Board!Cardinality(Board!FansOf(p, db'.likes))][q]
        BY <2>3, <2>4, <2>5, <3>1, <3>4, SameCardinality
      <4> QED
        BY <4>1
    <3>6. Board!Toggle(p, u)
      BY <3>2, <3>3, <3>5 DEF Board!Toggle
    <3> QED
      BY <3>1, <3>6 DEF Board!Next
  <2>7. CASE CanDelete
    <3>1. PICK p \in PostIds, u \in Users :
             p = call.post /\ u = call.user /\ call.op = "delPostById"
      BY <2>7 DEF CanDelete, Deleting
    <3>2. /\ db.owner[p] = u /\ db'.owner = [db.owner EXCEPT ![p] = Null]
          /\ db'.likes = {l \in db.likes : l[1] # p}
      BY <2>2, <3>1 DEF Performed
    <3>3. \A q \in PostIds : Likers(work, q) = IF q = p THEN {} ELSE Likers(db, q)
      BY <3>2 DEF Likers
    <3>4. shown' = [shown EXCEPT ![p] = 0]
      <4>1. \A q \in PostIds : shown'[q] = [shown EXCEPT ![p] = 0][q]
        BY <2>3, <2>4, <3>1, <3>3, FS_EmptySet, ZenonT(60)
      <4> QED
        BY <4>1
    <3>5. Board!Remove(p, u)
      BY <3>2, <3>4 DEF Board!Remove
    <3> QED
      BY <3>1, <3>5 DEF Board!Next
  <2>8. CASE CanAdd
    <3>1. call.op = "addNewPost" /\ call.user \in Users
      BY <2>8 DEF CanAdd, Adding
    <3>2. PICK p \in PostIds : /\ db.owner[p] = Null
                              /\ db'.owner = [db.owner EXCEPT ![p] = call.user]
      BY <2>2, <3>1 DEF Performed
    <3>3. db'.likes = db.likes
      BY <2>2, <3>1 DEF Performed
    <3>4. \A q \in PostIds : Likers(work, q) = Likers(db, q)
      BY <3>3 DEF Likers
    <3>5. \A q \in PostIds : shown'[q] = shown[q]
      BY <2>3, <2>4, <3>4
    <3>6. shown' = shown
      BY <3>5
    <3>7. Board!Publish(p, call.user)
      BY <3>2, <3>3, <3>6 DEF Board!Publish
    <3> QED
      BY <3>1, <3>7 DEF Board!Next
  <2> QED
    BY <2>1, <2>6, <2>7, <2>8 DEF Finished
<1> QED
  BY <1>1, <1>2, StoreInvariant, PTL DEF Spec, BoardSpec, Board!Spec
=============================================================================
