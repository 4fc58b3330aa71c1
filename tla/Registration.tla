---------------------------- MODULE Registration ----------------------------
(***************************************************************************)
(* WorkWithPostgreSQL::addNewUser and the other writers of table users:    *)
(* every client of the auth server has its thread and its own database     *)
(* session.  A registration is three transactions (the row of users, the   *)
(* picture, the link between them); when one throws, addNewUser undoes the *)
(* earlier ones with two more.  Between any two of them other threads see  *)
(* and use the half-registered user.                                       *)
(*                                                                         *)
(* A transaction is one step that commits, rolls back, or is in doubt: it  *)
(* has committed but the confirmation is lost and libpqxx throws.          *)
(***************************************************************************)
EXTENDS Integers, FiniteSets

CONSTANTS
    Workers,      \* threads running WorkWithClient::run
    Nicknames,    \* values of the unique key; email behaves in the same way
    UserIds,      \* serial values of users
    PhotoIds,     \* serial values of profile_picture
    Null,
    Schemas,      \* subset of BOOLEAN: the values of foreignKeys
    Faults        \* subset of {"rollback", "in doubt", "crash"}

ASSUME SchemasAssumption == Schemas \subseteq BOOLEAN
ASSUME FreshNullAssumption == Null \notin Nicknames \cup UserIds \cup PhotoIds

VARIABLES
    foreignKeys,  \* are users.photo_id and the columns of friends references?
    users,        \* users[u]: nickname and photo_id; nickname Null means no row
    pictures,     \* profile_picture: whose picture a row holds; Null means no row
    friends,      \* rows <<user_id, friend_id>>
    worker,       \* the registration each thread works on
    spent,        \* serial values already drawn
    acked,        \* users whose registration has been answered with 200
    leftBehind    \* rows that a fault or a reference has kept from being undone

tables == <<users, pictures, friends>>
vars == <<foreignKeys, users, pictures, friends, worker, spent, acked, leftBehind>>

Rows == [nickname : Nicknames \cup {Null}, photo : PhotoIds \cup {Null}]
NoRow == [nickname |-> Null, photo |-> Null]

Stages == {"idle", "addProperties", "addNewPhoto", "connectPropertiesAndPhoto",
           "deletePhoto", "deleteRow"}

(* user and photo are the local userId and photoId; they are set exactly   *)
(* when isAddProperties and isAddPhoto are.                                *)
Registrations == [stage : Stages, nickname : Nicknames \cup {Null},
                  user : UserIds \cup {Null}, photo : PhotoIds \cup {Null}]
NoRegistration == [stage |-> "idle", nickname |-> Null, user |-> Null, photo |-> Null]

-----------------------------------------------------------------------------
HasRow(u) == users[u].nickname # Null
HasPicture(f) == f # Null /\ pictures[f] # Null
Taken(n, except) == \E v \in UserIds \ {except} : users[v].nickname = n
Linked(f) == \E u \in UserIds : HasRow(u) /\ users[u].photo = f
Befriended(u) == \E r \in friends : u \in {r[1], r[2]}

InsertUser(u, n) == users' = [users EXCEPT ![u] = [nickname |-> n, photo |-> Null]]
DeleteUser(u) == users' = [users EXCEPT ![u] = NoRow]
InsertPicture(f, u) == pictures' = [pictures EXCEPT ![f] = u]
DeletePicture(f) == pictures' = [pictures EXCEPT ![f] = Null]

Init ==
    /\ foreignKeys \in Schemas
    /\ users = [u \in UserIds |-> NoRow]
    /\ pictures = [f \in PhotoIds |-> Null] /\ friends = {}
    /\ worker = [w \in Workers |-> NoRegistration]
    /\ spent = {} /\ acked = {} /\ leftBehind = {}

Goto(w, stage) == worker' = [worker EXCEPT ![w].stage = stage]
AnswerError(w) == worker' = [worker EXCEPT ![w] = NoRegistration]

(* The catch block of addNewUser: undo what is known to have been added,   *)
(* the picture before the row, then throw on to be answered with an error. *)
Catch(w) ==
    IF worker[w].photo # Null THEN Goto(w, "deletePhoto")
    ELSE IF worker[w].user # Null THEN Goto(w, "deleteRow")
    ELSE AnswerError(w)

-----------------------------------------------------------------------------
(* addNewUser. *)

registration(w, n) ==
    /\ worker[w].stage = "idle"
    /\ worker' = [worker EXCEPT ![w] = [NoRegistration EXCEPT
                     !.stage = "addProperties", !.nickname = n]]
    /\ UNCHANGED <<tables, spent, acked, leftBehind>>

(* users_nickname_key or users_email_key refuses the row, or it rolls back. *)
addPropertiesThrows(w) ==
    /\ worker[w].stage = "addProperties"
    /\ Taken(worker[w].nickname, Null) \/ "rollback" \in Faults
    /\ Catch(w)
    /\ UNCHANGED <<tables, spent, acked, leftBehind>>

addProperties(w) == \E u \in UserIds \ spent :
    /\ worker[w].stage = "addProperties"
    /\ ~Taken(worker[w].nickname, Null)
    /\ InsertUser(u, worker[w].nickname)
    /\ spent' = spent \cup {u}
    /\ \/ /\ worker' = [worker EXCEPT ![w].stage = "addNewPhoto", ![w].user = u]
          /\ UNCHANGED leftBehind
       \/ /\ "in doubt" \in Faults
          /\ Catch(w)
          /\ leftBehind' = leftBehind \cup {u}
    /\ UNCHANGED <<pictures, friends, acked>>

addNewPhotoThrows(w) ==
    /\ worker[w].stage = "addNewPhoto"
    /\ "rollback" \in Faults
    /\ Catch(w)
    /\ UNCHANGED <<tables, spent, acked, leftBehind>>

(* A possible slip: the newest picture is taken for the one inserted. *)
addNewPhotoNewest(w) == \E f \in PhotoIds \ spent : \E newest \in PhotoIds :
    /\ worker[w].stage = "addNewPhoto"
    /\ HasPicture(newest) \/ newest = f
    /\ InsertPicture(f, worker[w].user)
    /\ spent' = spent \cup {f}
    /\ worker' = [worker EXCEPT ![w].stage = "connectPropertiesAndPhoto",
                                ![w].photo = newest]
    /\ UNCHANGED <<users, friends, acked, leftBehind>>

addNewPhoto(w) == \E f \in PhotoIds \ spent :
    /\ worker[w].stage = "addNewPhoto"
    /\ InsertPicture(f, worker[w].user)
    /\ spent' = spent \cup {f}
    /\ \/ /\ worker' = [worker EXCEPT ![w].stage = "connectPropertiesAndPhoto",
                                      ![w].photo = f]
          /\ UNCHANGED leftBehind
       \/ /\ "in doubt" \in Faults
          /\ Catch(w)
          /\ leftBehind' = leftBehind \cup {f}
    /\ UNCHANGED <<users, friends, acked>>

(* A possible slip: the failed link is only logged, and the answer is 200. *)
connectSwallows(w) ==
    /\ worker[w].stage = "connectPropertiesAndPhoto"
    /\ "rollback" \in Faults
    /\ AnswerError(w)
    /\ acked' = acked \cup {worker[w].user}
    /\ UNCHANGED <<tables, spent, leftBehind>>

connectThrows(w) ==
    /\ worker[w].stage = "connectPropertiesAndPhoto"
    /\ "rollback" \in Faults
    /\ Catch(w)
    /\ UNCHANGED <<tables, spent, acked, leftBehind>>

(* A possible slip: the user's own id is written in the place of the       *)
(* picture's.                                                              *)
connectToItself(w) ==
    /\ worker[w].stage = "connectPropertiesAndPhoto"
    /\ users' = [users EXCEPT ![worker[w].user].photo = worker[w].user]
    /\ worker' = [worker EXCEPT ![w] = NoRegistration]
    /\ acked' = acked \cup {worker[w].user}
    /\ UNCHANGED <<pictures, friends, spent, leftBehind>>

connectPropertiesAndPhoto(w) ==
    /\ worker[w].stage = "connectPropertiesAndPhoto"
    /\ users' = [users EXCEPT ![worker[w].user].photo = worker[w].photo]
    /\ \/ /\ worker' = [worker EXCEPT ![w] = NoRegistration]
          /\ acked' = acked \cup {worker[w].user}
       \/ /\ "in doubt" \in Faults
          /\ Catch(w)
          /\ UNCHANGED acked
    /\ UNCHANGED <<pictures, friends, spent, leftBehind>>

-----------------------------------------------------------------------------
(* The compensation.  Both calls swallow their exceptions.  A reference    *)
(* from another row makes the database refuse the deletion.                *)

(* A possible slip: the row is forgotten once the picture is gone. *)
deletePhotoOnly(w) ==
    /\ worker[w].stage = "deletePhoto"
    /\ ~(foreignKeys /\ Linked(worker[w].photo))
    /\ DeletePicture(worker[w].photo)
    /\ AnswerError(w)
    /\ UNCHANGED <<users, friends, spent, acked, leftBehind>>

deletePhoto(w) ==
    /\ worker[w].stage = "deletePhoto"
    /\ ~(foreignKeys /\ Linked(worker[w].photo))
    /\ DeletePicture(worker[w].photo)
    /\ Goto(w, "deleteRow")
    /\ UNCHANGED <<users, friends, spent, acked, leftBehind>>

deletePhotoFails(w) ==
    /\ worker[w].stage = "deletePhoto"
    /\ "rollback" \in Faults \/ (foreignKeys /\ Linked(worker[w].photo))
    /\ Goto(w, "deleteRow")
    /\ leftBehind' = leftBehind \cup {worker[w].photo}
    /\ UNCHANGED <<tables, spent, acked>>

deleteRow(w) ==
    /\ worker[w].stage = "deleteRow"
    /\ ~(foreignKeys /\ Befriended(worker[w].user))
    /\ DeleteUser(worker[w].user)
    /\ AnswerError(w)
    /\ UNCHANGED <<pictures, friends, spent, acked, leftBehind>>

(* A possible slip: the whole compensation is tried again. *)
deleteRowRetried(w) ==
    /\ worker[w].stage = "deleteRow"
    /\ "rollback" \in Faults \/ (foreignKeys /\ Befriended(worker[w].user))
    /\ Catch(w)
    /\ leftBehind' = leftBehind \cup {worker[w].user}
    /\ UNCHANGED <<tables, spent, acked>>

deleteRowFails(w) ==
    /\ worker[w].stage = "deleteRow"
    /\ "rollback" \in Faults \/ (foreignKeys /\ Befriended(worker[w].user))
    /\ AnswerError(w)
    /\ leftBehind' = leftBehind \cup {worker[w].user}
    /\ UNCHANGED <<tables, spent, acked>>

-----------------------------------------------------------------------------
(* The other writers, one transaction each; any thread may run them for a  *)
(* user who once had a row: a token outlives the row it was issued for.    *)

updateData(u, n) ==
    /\ u \in spent /\ ~Taken(n, u)
    /\ HasRow(u) /\ users' = [users EXCEPT ![u].nickname = n]
    /\ UNCHANGED <<pictures, friends, worker, spent, acked, leftBehind>>

(* An UPDATE of the row that the user's row names; if there is none, it    *)
(* changes nothing and is answered 200 all the same.                       *)
updatePhoto(u) ==
    /\ u \in spent
    /\ HasRow(u) /\ HasPicture(users[u].photo)
    /\ InsertPicture(users[u].photo, u)
    /\ UNCHANGED <<users, friends, worker, spent, acked, leftBehind>>

makeFriend(u, v) ==
    /\ {u, v} \subseteq spent
    /\ foreignKeys => HasRow(u) /\ HasRow(v)
    /\ friends' = friends \cup {<<u, v>>}
    /\ UNCHANGED <<users, pictures, worker, spent, acked, leftBehind>>

deleteFriend(u, v) ==
    /\ friends' = friends \ {<<u, v>>}
    /\ UNCHANGED <<users, pictures, worker, spent, acked, leftBehind>>

(* An exception leaves WorkWithClient::run in some thread: std::terminate  *)
(* ends the process with all its threads.  It is started again.            *)
Terminate ==
    /\ "crash" \in Faults
    /\ \E w \in Workers : worker[w].stage # "idle"
    /\ worker' = [w \in Workers |-> NoRegistration]
    /\ leftBehind' = leftBehind
           \cup ({worker[w].user : w \in Workers} \ {Null})
           \cup ({worker[w].photo : w \in Workers} \ {Null})
    /\ UNCHANGED <<tables, spent, acked>>

(* The next statement of the registration that thread w works on. *)
Step(w) ==
    /\ \/ addProperties(w) \/ addPropertiesThrows(w)
       \/ addNewPhoto(w) \/ addNewPhotoThrows(w)
       \/ connectPropertiesAndPhoto(w) \/ connectThrows(w)
       \/ deletePhoto(w) \/ deletePhotoFails(w)
       \/ deleteRow(w) \/ deleteRowFails(w)
    /\ UNCHANGED foreignKeys

Others ==
    /\ \/ \E w \in Workers, n \in Nicknames : registration(w, n)
       \/ \E u \in UserIds, n \in Nicknames : updateData(u, n)
       \/ \E u \in UserIds : updatePhoto(u)
       \/ \E u, v \in UserIds : makeFriend(u, v) \/ deleteFriend(u, v)
       \/ Terminate
    /\ UNCHANGED foreignKeys

Next == (\E w \in Workers : Step(w)) \/ Others

(* A thread whose transaction can run or fail goes on: the operating       *)
(* system schedules every thread and the database answers or breaks off.   *)
Spec == Init /\ [][Next]_vars /\ \A w \in Workers : WF_vars(Step(w))

-----------------------------------------------------------------------------
(* Rows, registrations and drawn serial values are of their kinds; only    *)
(* rows that once existed can be left behind.                              *)
TypeOK ==
    /\ foreignKeys \in Schemas
    /\ users \in [UserIds -> Rows]
    /\ pictures \in [PhotoIds -> UserIds \cup {Null}]
    /\ friends \subseteq UserIds \X UserIds
    /\ worker \in [Workers -> Registrations]
    /\ spent \subseteq UserIds \cup PhotoIds
    /\ acked \subseteq UserIds
    /\ leftBehind \subseteq spent

Whole(u) == HasRow(u) /\ HasPicture(users[u].photo)

(* A registration answered with 200 is complete and stays so: the user has *)
(* a row and that row a picture, whatever other registrations fail, are    *)
(* undone or are cut off at the same time.                                 *)
AckedComplete == \A u \in acked : Whole(u)

(* Who is told that his registration failed is not registered, and leaves  *)
(* no picture, unless a fault, or a friend made in the meantime, has kept  *)
(* addNewUser from undoing it: a user whose registration was not answered  *)
(* with 200, or a picture without a user, belongs to a registration under  *)
(* way or is left behind.                                                  *)
ResidueExplained ==
    /\ \A u \in UserIds : HasRow(u) /\ u \notin acked =>
          u \in leftBehind \/ \E w \in Workers : worker[w].user = u
    /\ \A f \in PhotoIds : HasPicture(f) /\ ~Linked(f) =>
          f \in leftBehind \/ \E w \in Workers : worker[w].photo = f

(* The picture that a user's row names is one that he has stored, at his   *)
(* registration or later, and nobody else's row names it.                  *)
PictureOwn == \A u \in UserIds :
    LET f == users[u].photo IN
    f # Null => /\ HasPicture(f) => pictures[f] = u
                /\ \A v \in UserIds \ {u} : users[v].photo # f

(* Every registration is answered, or its process ends. *)
Answered == \A w \in Workers : worker[w].stage # "idle" ~> worker[w].stage = "idle"
=============================================================================
