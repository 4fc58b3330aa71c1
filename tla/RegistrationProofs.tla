------------------------- MODULE RegistrationProofs -------------------------
(***************************************************************************)
(* Proofs about Registration, for all sets of threads, nicknames and       *)
(* serial values, all faults, with and without foreign keys.               *)
(***************************************************************************)
EXTENDS Registration, TLAPS

(* What the stage says of the locals userId and photoId and of the picture *)
(* that has been stored.                                                   *)
Staged == \A w \in Workers :
    LET o == worker[w] IN
    /\ o.stage \in {"idle", "addProperties"} => o.user = Null
    /\ o.stage \in {"idle", "addProperties", "addNewPhoto"} => o.photo = Null
    /\ o.stage \notin {"idle", "addProperties"} => o.user # Null
    /\ o.stage \in {"connectPropertiesAndPhoto", "deletePhoto"} => o.photo # Null
    /\ o.stage = "connectPropertiesAndPhoto" => HasPicture(o.photo)
    /\ o.stage = "deleteRow" /\ HasPicture(o.photo) => o.photo \in leftBehind
    /\ o.stage = "addProperties" => o.nickname # Null

(* The row that a registration works on is there, was not answered for,    *)
(* and links no picture but the registration's own.                        *)
RowHeld == \A w \in Workers :
    LET o == worker[w] IN
    o.user # Null =>
        /\ HasRow(o.user) /\ o.user \in spent \ acked
        /\ users[o.user].photo \in {Null, o.photo}

(* Its picture, if it is there, is stored as that user's, and no other row *)
(* links it.                                                               *)
PictureHeld == \A w \in Workers :
    LET o == worker[w] IN
    o.photo # Null =>
        /\ o.photo \in spent /\ o.user # Null
        /\ HasPicture(o.photo) => pictures[o.photo] = o.user
        /\ \A u \in UserIds : users[u].photo = o.photo => u = o.user

(* Two threads never work on the same row. *)
Apart == \A v, w \in Workers : v # w =>
    /\ worker[v].user # Null => worker[v].user # worker[w].user
    /\ worker[v].photo # Null => worker[v].photo # worker[w].photo

(* Serial values in the tables have been drawn. *)
Drawn == \A u \in UserIds :
    /\ HasRow(u) => u \in spent
    /\ ~HasRow(u) => users[u].photo = Null
    /\ users[u].photo # Null => users[u].photo \in spent

RegInv ==
    /\ TypeOK /\ Staged /\ RowHeld /\ PictureHeld /\ Apart /\ Drawn
    /\ AckedComplete /\ PictureOwn /\ ResidueExplained

(* The tables are empty and no thread has begun.                           *)
LEMMA InitReg == Init => RegInv
BY FreshNullAssumption DEF Init, RegInv, TypeOK, Staged, RowHeld, PictureHeld, Apart, Drawn,
   AckedComplete, PictureOwn, ResidueExplained, NoRow, NoRegistration, Rows,
   Registrations, Stages, HasRow, HasPicture, Linked, Whole

(* The new row belongs to its thread alone, as its id is fresh.            *)
LEMMA addPropertiesReg ==
    ASSUME RegInv, NEW w \in Workers, addProperties(w), UNCHANGED foreignKeys
    PROVE  RegInv'
<1> USE FreshNullAssumption
<1>1. PICK u \in UserIds \ spent :
         /\ worker[w].stage = "addProperties"
         /\ InsertUser(u, worker[w].nickname)
         /\ spent' = spent \cup {u}
         /\ \/ /\ worker' = [worker EXCEPT ![w].stage = "addNewPhoto", ![w].user = u]
               /\ UNCHANGED leftBehind
            \/ /\ Catch(w)
               /\ leftBehind' = leftBehind \cup {u}
         /\ UNCHANGED <<pictures, friends, acked>>
  BY DEF addProperties
<1>2. \/ worker' = [worker EXCEPT ![w].stage = "addNewPhoto", ![w].user = u] /\ leftBehind' = leftBehind
      \/ worker' = [worker EXCEPT ![w] = NoRegistration] /\ leftBehind' = leftBehind \cup {u}
  BY <1>1 DEF RegInv, Staged, Catch, AnswerError
<1>3. /\ users' = [users EXCEPT ![u] = [nickname |-> worker[w].nickname, photo |-> Null]]
      /\ worker[w].nickname \in Nicknames /\ worker[w].user = Null /\ worker[w].photo = Null
      /\ users \in [UserIds -> Rows] /\ worker \in [Workers -> Registrations]
      /\ u \notin spent
  BY <1>1 DEF RegInv, TypeOK, Staged, InsertUser, Registrations
<1>4. /\ users'[u].nickname = worker[w].nickname /\ users'[u].photo = Null
      /\ \A v \in UserIds \ {u} : users'[v] = users[v]
      /\ ~HasRow(u) /\ users[u].photo = Null /\ HasRow(u)'
  BY <1>3 DEF RegInv, Drawn, Rows, HasRow
<1>5. /\ worker'[w].photo = Null
      /\ \/ worker'[w].stage = "addNewPhoto" /\ worker'[w].user = u /\ leftBehind' = leftBehind
         \/ worker'[w].stage = "idle" /\ worker'[w].user = Null /\ u \in leftBehind'
      /\ \A v \in Workers \ {w} : worker'[v] = worker[v]
      /\ leftBehind \subseteq leftBehind'
  BY <1>2, <1>3 DEF Registrations, NoRegistration
<1>6. TypeOK'
  <2>1. users' \in [UserIds -> Rows]
    BY <1>3 DEF Rows
  <2>2. worker' \in [Workers -> Registrations]
    BY <1>2, <1>3 DEF Registrations, NoRegistration, Stages
  <2>3. spent' \subseteq UserIds \cup PhotoIds /\ leftBehind' \subseteq spent'
    BY <1>1, <1>2 DEF RegInv, TypeOK
  <2> QED
    BY <1>1, <2>1, <2>2, <2>3 DEF RegInv, TypeOK
<1>7. Staged'
  BY <1>1, <1>5 DEF RegInv, Staged, HasPicture
<1>8. RowHeld'
  BY <1>1, <1>3, <1>4, <1>5 DEF RegInv, RowHeld, TypeOK, Registrations, HasRow, AckedComplete, Whole
<1>9. PictureHeld'
  BY <1>1, <1>4, <1>5 DEF RegInv, PictureHeld, HasPicture
<1>10. Apart'
  BY <1>3, <1>5 DEF RegInv, RowHeld, Apart
<1>11. Drawn'
  BY <1>1, <1>4 DEF RegInv, Drawn, HasRow
<1>12. AckedComplete'
  BY <1>1, <1>4 DEF RegInv, AckedComplete, HasRow, HasPicture, Whole, TypeOK
<1>13. PictureOwn'
  BY <1>1, <1>4 DEF RegInv, PictureOwn, HasPicture
<1>14. ASSUME NEW v \in UserIds, HasRow(v)', v \notin acked'
       PROVE  v \in leftBehind' \/ \E x \in Workers : worker'[x].user = v
  BY <1>1, <1>3, <1>4, <1>5, <1>14 DEF RegInv, ResidueExplained, HasRow
<1>15. ASSUME NEW f \in PhotoIds, HasPicture(f)', ~Linked(f)'
       PROVE  f \in leftBehind' \/ \E x \in Workers : worker'[x].photo = f
  <2>1. HasPicture(f) /\ ~Linked(f)
    BY <1>1, <1>4, <1>15 DEF HasPicture, Linked, HasRow
  <2> QED
    BY <2>1, <1>3, <1>5 DEF RegInv, ResidueExplained, HasPicture
<1>16. ResidueExplained'
  BY <1>14, <1>15 DEF ResidueExplained
<1> QED
  BY <1>6, <1>7, <1>8, <1>9, <1>10, <1>11, <1>12, <1>13, <1>16 DEF RegInv
(* A step that leaves the tables alone: each thread keeps what it has in   *)
(* hand, or lets go of it and it is left behind.                           *)
LEMMA QuietStep ==
    ASSUME RegInv, UNCHANGED <<foreignKeys, tables, spent, acked>>,
           worker' \in [Workers -> Registrations], Staged',
           leftBehind \subseteq leftBehind', leftBehind' \subseteq spent,
           \A v \in Workers :
              \/ /\ worker'[v].user = worker[v].user
                 /\ worker'[v].photo = worker[v].photo
              \/ /\ worker'[v].user = Null /\ worker'[v].photo = Null
                 /\ worker[v].user # Null => worker[v].user \in leftBehind'
                 /\ HasPicture(worker[v].photo) => worker[v].photo \in leftBehind'
    PROVE  RegInv'
<1>1. /\ TypeOK'
      /\ Drawn' /\ AckedComplete' /\ PictureOwn'
  BY DEF RegInv, tables, TypeOK, Drawn, AckedComplete, PictureOwn, HasRow, HasPicture, Whole
<1>2. RowHeld' /\ PictureHeld' /\ Apart'
  BY DEF RegInv, tables, RowHeld, PictureHeld, Apart, HasRow, HasPicture
<1>3. ASSUME NEW u \in UserIds, HasRow(u)', u \notin acked'
      PROVE  u \in leftBehind' \/ \E w \in Workers : worker'[w].user = u
  <2>1. u \in leftBehind \/ \E w \in Workers : worker[w].user = u
    BY <1>3 DEF RegInv, tables, ResidueExplained, HasRow
  <2> QED
    BY <1>3, <2>1, FreshNullAssumption
<1>4. ASSUME NEW f \in PhotoIds, HasPicture(f)', ~Linked(f)'
      PROVE  f \in leftBehind' \/ \E w \in Workers : worker'[w].photo = f
  <2>1. HasPicture(f) /\ ~Linked(f)
    BY <1>4 DEF tables, HasPicture, Linked, HasRow
  <2>2. f \in leftBehind \/ \E w \in Workers : worker[w].photo = f
    BY <2>1 DEF RegInv, ResidueExplained
  <2> QED
    BY <2>1, <2>2
<1> QED
  BY <1>1, <1>2, <1>3, <1>4 DEF RegInv, ResidueExplained

(* A thread begins, with nothing in hand.                                  *)
LEMMA registrationReg ==
    ASSUME RegInv, NEW w \in Workers, NEW n \in Nicknames,
           registration(w, n), UNCHANGED foreignKeys
    PROVE  RegInv'
<1> USE FreshNullAssumption
<1>1. /\ worker \in [Workers -> Registrations] /\ worker[w].stage = "idle"
      /\ worker' = [worker EXCEPT ![w] = [NoRegistration EXCEPT
                         !.stage = "addProperties", !.nickname = n]]
      /\ worker[w].user = Null /\ worker[w].photo = Null
      /\ leftBehind' = leftBehind
  BY DEF registration, RegInv, TypeOK, Staged
<1>2. /\ worker' \in [Workers -> Registrations]
      /\ worker'[w].stage = "addProperties" /\ worker'[w].nickname = n
      /\ worker'[w].user = Null /\ worker'[w].photo = Null
      /\ \A v \in Workers \ {w} : worker'[v] = worker[v]
  BY <1>1 DEF NoRegistration, Registrations, Stages
<1>3. Staged'
  BY <1>1, <1>2 DEF RegInv, registration, tables, Staged, HasPicture
<1> QED
  BY <1>1, <1>2, <1>3, QuietStep DEF registration, RegInv, TypeOK

(* A transaction that fails takes its thread to what is to be undone. *)
LEMMA ThrowsReg ==
    ASSUME RegInv, NEW w \in Workers, UNCHANGED foreignKeys,
           \/ addPropertiesThrows(w) \/ addNewPhotoThrows(w) \/ connectThrows(w)
    PROVE  RegInv'
<1> USE FreshNullAssumption
<1>1. /\ worker \in [Workers -> Registrations]
      /\ UNCHANGED <<tables, spent, acked, leftBehind>>
      /\ \/ /\ worker[w].user = Null /\ worker[w].photo = Null
            /\ worker' = [worker EXCEPT ![w] = NoRegistration]
         \/ /\ worker[w].user # Null /\ worker[w].photo = Null
            /\ worker' = [worker EXCEPT ![w].stage = "deleteRow"]
         \/ /\ worker[w].user # Null /\ worker[w].photo # Null
            /\ worker' = [worker EXCEPT ![w].stage = "deletePhoto"]
  BY DEF RegInv, TypeOK, Staged, addPropertiesThrows, addNewPhotoThrows, connectThrows,
         Catch, AnswerError, Goto
<1>2. /\ worker' \in [Workers -> Registrations]
      /\ worker'[w].user = worker[w].user /\ worker'[w].photo = worker[w].photo
      /\ \/ worker'[w].stage = "idle" /\ worker[w].user = Null /\ worker[w].photo = Null
         \/ worker'[w].stage = "deleteRow" /\ worker[w].user # Null /\ worker[w].photo = Null
         \/ worker'[w].stage = "deletePhoto" /\ worker[w].user # Null /\ worker[w].photo # Null
      /\ \A v \in Workers \ {w} : worker'[v] = worker[v]
  BY <1>1 DEF NoRegistration, Registrations, Stages
<1>3. Staged'
  BY <1>1, <1>2 DEF RegInv, tables, Staged, HasPicture
<1> QED
  BY <1>1, <1>2, <1>3, QuietStep DEF RegInv, TypeOK

(* What cannot be undone is left behind. *)
LEMMA UndoFailsReg ==
    ASSUME RegInv, NEW w \in Workers, UNCHANGED foreignKeys,
           deletePhotoFails(w) \/ deleteRowFails(w)
    PROVE  RegInv'
<1> USE FreshNullAssumption
<1>1. CASE deletePhotoFails(w)
  <2>1. /\ worker \in [Workers -> Registrations]
        /\ worker[w].user # Null /\ worker[w].photo # Null
        /\ worker[w].photo \in spent
        /\ worker' = [worker EXCEPT ![w].stage = "deleteRow"]
        /\ leftBehind' = leftBehind \cup {worker[w].photo}
        /\ UNCHANGED <<tables, spent, acked>>
    BY <1>1 DEF RegInv, TypeOK, Staged, PictureHeld, deletePhotoFails, Goto
  <2>2. /\ worker' \in [Workers -> Registrations]
        /\ worker'[w].stage = "deleteRow"
        /\ worker'[w].user = worker[w].user /\ worker'[w].photo = worker[w].photo
        /\ \A v \in Workers \ {w} : worker'[v] = worker[v]
    BY <2>1 DEF Registrations, Stages
  <2>3. Staged'
    BY <2>1, <2>2 DEF RegInv, tables, Staged, HasPicture
  <2> QED
    BY <2>1, <2>2, <2>3, QuietStep DEF RegInv, TypeOK
<1>2. CASE deleteRowFails(w)
  <2>1. /\ worker \in [Workers -> Registrations]
        /\ worker[w].user \in spent
        /\ HasPicture(worker[w].photo) => worker[w].photo \in leftBehind
        /\ worker' = [worker EXCEPT ![w] = NoRegistration]
        /\ leftBehind' = leftBehind \cup {worker[w].user}
        /\ UNCHANGED <<tables, spent, acked>>
    BY <1>2 DEF RegInv, TypeOK, Staged, RowHeld, deleteRowFails, AnswerError
  <2>2. /\ worker' \in [Workers -> Registrations]
        /\ worker'[w].stage = "idle"
        /\ worker'[w].user = Null /\ worker'[w].photo = Null
        /\ \A v \in Workers \ {w} : worker'[v] = worker[v]
    BY <2>1 DEF NoRegistration, Registrations, Stages
  <2>3. Staged'
    BY <2>1, <2>2 DEF RegInv, tables, Staged, HasPicture
  <2> QED
    BY <2>1, <2>2, <2>3, QuietStep DEF RegInv, TypeOK
<1> QED
  BY <1>1, <1>2

(* The end of the process leaves behind what threads had in hand.          *)
LEMMA TerminateReg ==
    ASSUME RegInv, Terminate, UNCHANGED foreignKeys
    PROVE  RegInv'
<1> USE FreshNullAssumption
<1>1. /\ worker' = [w \in Workers |-> NoRegistration]
      /\ leftBehind' = leftBehind
             \cup ({worker[w].user : w \in Workers} \ {Null})
             \cup ({worker[w].photo : w \in Workers} \ {Null})
      /\ UNCHANGED <<tables, spent, acked>>
  BY DEF Terminate
<1>2. /\ worker' \in [Workers -> Registrations]
      /\ \A v \in Workers : /\ worker'[v].stage = "idle"
                            /\ worker'[v].user = Null /\ worker'[v].photo = Null
  BY <1>1 DEF NoRegistration, Registrations, Stages
<1>3. Staged'
  BY <1>2 DEF Staged
<1>4. leftBehind' \subseteq spent
  BY <1>1 DEF RegInv, TypeOK, RowHeld, PictureHeld
<1>5. \A v \in Workers :
         /\ worker[v].user # Null => worker[v].user \in leftBehind'
         /\ HasPicture(worker[v].photo) => worker[v].photo \in leftBehind'
  BY <1>1 DEF HasPicture
<1> QED
  BY <1>1, <1>2, <1>3, <1>4, <1>5, QuietStep
-----------------------------------------------------------------------------
(* The steps of a registration that change the tables.                     *)

(* The new picture belongs to its thread alone.                            *)
LEMMA addNewPhotoReg ==
    ASSUME RegInv, NEW w \in Workers, addNewPhoto(w), UNCHANGED foreignKeys
    PROVE  RegInv'
<1> USE FreshNullAssumption
<1>1. PICK f \in PhotoIds \ spent :
         /\ worker[w].stage = "addNewPhoto"
         /\ InsertPicture(f, worker[w].user)
         /\ spent' = spent \cup {f}
         /\ \/ /\ worker' = [worker EXCEPT ![w].stage = "connectPropertiesAndPhoto",
                                            ![w].photo = f]
               /\ UNCHANGED leftBehind
            \/ /\ Catch(w)
               /\ leftBehind' = leftBehind \cup {f}
         /\ UNCHANGED <<users, friends, acked>>
  BY DEF addNewPhoto
<1> DEFINE user == worker[w].user
<1>2. /\ user \in UserIds /\ user # Null /\ worker[w].photo = Null /\ f # Null
      /\ worker \in [Workers -> Registrations]
      /\ pictures \in [PhotoIds -> UserIds \cup {Null}]
      /\ f \notin spent /\ \A u \in UserIds : users[u].photo # f
      /\ \A v \in Workers : worker[v].photo # f
  BY <1>1 DEF RegInv, TypeOK, Staged, Drawn, PictureHeld, Registrations
<1>3. /\ pictures' \in [PhotoIds -> UserIds \cup {Null}]
      /\ pictures'[f] = user /\ HasPicture(f)'
      /\ \A g \in PhotoIds \ {f} : pictures'[g] = pictures[g]
  BY <1>1, <1>2 DEF InsertPicture, HasPicture
<1>4. /\ worker' \in [Workers -> Registrations]
      /\ worker'[w].user = user
      /\ \/ /\ worker'[w].stage = "connectPropertiesAndPhoto" /\ worker'[w].photo = f
            /\ leftBehind' = leftBehind
         \/ /\ worker'[w].stage = "deleteRow" /\ worker'[w].photo = Null
            /\ leftBehind' = leftBehind \cup {f}
      /\ \A v \in Workers \ {w} : worker'[v] = worker[v]
  BY <1>1, <1>2 DEF Catch, Goto, Registrations, Stages
<1>5. TypeOK'
  BY <1>1, <1>3, <1>4 DEF RegInv, TypeOK
<1>7. Staged'
  <2>1. ASSUME NEW v \in Workers \ {w}, worker[v].photo # Null
        PROVE  pictures'[worker[v].photo] = pictures[worker[v].photo]
    BY <1>2, <1>3, <2>1 DEF Registrations
  <2> QED
    BY <1>1, <1>2, <1>3, <1>4, <2>1 DEF RegInv, Staged, HasPicture
<1>8. RowHeld'
  BY <1>1, <1>2, <1>4 DEF RegInv, RowHeld, HasRow
<1>9. PictureHeld'
  <2>1. ASSUME NEW v \in Workers \ {w}, worker[v].photo # Null
        PROVE  pictures'[worker[v].photo] = pictures[worker[v].photo]
    BY <1>2, <1>3, <2>1 DEF Registrations
  <2> QED
    BY <1>1, <1>2, <1>3, <1>4, <2>1 DEF RegInv, PictureHeld, HasPicture
<1>10. Apart'
  BY <1>2, <1>4 DEF RegInv, Apart
<1>11. Drawn'
  BY <1>1 DEF RegInv, Drawn, HasRow
<1>12. AckedComplete'
  BY <1>1, <1>2, <1>3 DEF RegInv, TypeOK, Rows, AckedComplete, HasRow, HasPicture, Whole
<1>13. PictureOwn'
  BY <1>1, <1>2, <1>3 DEF RegInv, TypeOK, Rows, PictureOwn, HasPicture
<1>14. ASSUME NEW u \in UserIds, HasRow(u)', u \notin acked'
       PROVE  u \in leftBehind' \/ \E x \in Workers : worker'[x].user = u
  BY <1>1, <1>4, <1>14 DEF RegInv, ResidueExplained, HasRow
<1>15. ASSUME NEW g \in PhotoIds, HasPicture(g)', ~Linked(g)'
       PROVE  g \in leftBehind' \/ \E x \in Workers : worker'[x].photo = g
  <2>1. CASE g = f
    BY <1>4, <2>1
  <2>2. CASE g # f
    <3>1. HasPicture(g) /\ ~Linked(g) /\ g # Null
      BY <1>1, <1>3, <1>15, <2>2 DEF HasPicture, Linked, HasRow
    <3> QED
      BY <1>2, <1>4, <3>1 DEF RegInv, ResidueExplained
  <2> QED
    BY <2>1, <2>2
<1> QED
  BY <1>5, <1>7, <1>8, <1>9, <1>10, <1>11, <1>12, <1>13, <1>14, <1>15
     DEF RegInv, ResidueExplained

(* Linking completes the row in hand, whether or not the thread learns of  *)
(* it.                                                                     *)
LEMMA connectReg ==
    ASSUME RegInv, NEW w \in Workers, connectPropertiesAndPhoto(w), UNCHANGED foreignKeys
    PROVE  RegInv'
<1> USE FreshNullAssumption
<1> DEFINE user == worker[w].user
           photo == worker[w].photo
<1>1. /\ worker[w].stage = "connectPropertiesAndPhoto"
      /\ user \in UserIds /\ user # Null /\ photo \in PhotoIds /\ photo # Null
      /\ worker \in [Workers -> Registrations] /\ users \in [UserIds -> Rows]
      /\ user \in spent /\ photo \in spent
      /\ HasRow(user) /\ users[user].photo \in {Null, photo}
      /\ HasPicture(photo) /\ pictures[photo] = user
      /\ \A u \in UserIds \ {user} : users[u].photo # photo
      /\ UNCHANGED <<foreignKeys, pictures, friends, spent, leftBehind>>
  <2>1. /\ worker[w].stage = "connectPropertiesAndPhoto"
        /\ UNCHANGED <<foreignKeys, pictures, friends, spent, leftBehind>>
    BY DEF connectPropertiesAndPhoto
  <2>2. /\ worker \in [Workers -> Registrations] /\ users \in [UserIds -> Rows]
        /\ user \in UserIds \cup {Null} /\ photo \in PhotoIds \cup {Null}
    BY DEF RegInv, TypeOK, Registrations
  <2>3. user # Null /\ photo # Null /\ HasPicture(photo)
    BY <2>1 DEF RegInv, Staged
  <2>4. /\ user \in spent /\ HasRow(user) /\ users[user].photo \in {Null, photo}
    BY <2>1, <2>3 DEF RegInv, RowHeld
  <2>5. /\ photo \in spent /\ pictures[photo] = user
        /\ \A u \in UserIds \ {user} : users[u].photo # photo
    BY <2>1, <2>2, <2>3 DEF RegInv, PictureHeld
  <2> QED
    BY <2>1, <2>2, <2>3, <2>4, <2>5
<1>2. /\ users' \in [UserIds -> Rows]
      /\ users'[user].nickname = users[user].nickname /\ users'[user].photo = photo
      /\ \A u \in UserIds \ {user} : users'[u] = users[u]
  BY <1>1 DEF connectPropertiesAndPhoto, Rows
<1>3. \/ worker' = [worker EXCEPT ![w] = NoRegistration] /\ acked' = acked \cup {user}
      \/ worker' = [worker EXCEPT ![w].stage = "deletePhoto"] /\ acked' = acked
  BY <1>1 DEF connectPropertiesAndPhoto, Catch, Goto
<1>4. /\ worker' \in [Workers -> Registrations]
      /\ \/ /\ worker'[w].stage = "idle" /\ worker'[w].user = Null /\ worker'[w].photo = Null
            /\ acked' = acked \cup {user}
         \/ /\ worker'[w].stage = "deletePhoto"
            /\ worker'[w].user = user /\ worker'[w].photo = photo
            /\ acked' = acked
      /\ \A v \in Workers \ {w} : worker'[v] = worker[v]
  BY <1>1, <1>3 DEF NoRegistration, Registrations, Stages
<1>5. TypeOK'
  BY <1>1, <1>2, <1>4 DEF RegInv, TypeOK
<1>6. Staged'
  BY <1>1, <1>4 DEF RegInv, Staged, HasPicture
<1>7. \A u \in UserIds : HasRow(u)' <=> HasRow(u)
  BY <1>2 DEF HasRow
<1>8. RowHeld'
  <2>1. \A v \in Workers \ {w} : worker[v].user # Null =>
            worker[v].user # user /\ worker[v].user \in UserIds
    BY <1>1 DEF RegInv, Apart, Registrations
  <2> QED
    BY <1>1, <1>2, <1>4, <1>7, <2>1 DEF RegInv, RowHeld
<1>9. PictureHeld'
  <2>1. \A v \in Workers \ {w} : worker[v].photo # Null => worker[v].photo # photo
    BY <1>1 DEF RegInv, Apart
  <2> QED
    BY <1>1, <1>2, <1>4, <2>1 DEF RegInv, PictureHeld, HasPicture
<1>10. Apart'
  BY <1>4 DEF RegInv, Apart
<1>11. Drawn'
  BY <1>1, <1>2, <1>7 DEF RegInv, Drawn
<1>12. AckedComplete'
  BY <1>1, <1>2, <1>4, <1>7 DEF RegInv, TypeOK, AckedComplete, HasPicture, Whole
<1>13. PictureOwn'
  BY <1>1, <1>2 DEF RegInv, PictureOwn, HasPicture
<1>14. ASSUME NEW u \in UserIds, HasRow(u)', u \notin acked'
       PROVE  u \in leftBehind' \/ \E x \in Workers : worker'[x].user = u
  BY <1>1, <1>4, <1>7, <1>14 DEF RegInv, ResidueExplained
<1>15. ASSUME NEW f \in PhotoIds, HasPicture(f)', ~Linked(f)'
       PROVE  f \in leftBehind' \/ \E x \in Workers : worker'[x].photo = f
  <2>1. f # photo
    BY <1>1, <1>2, <1>7, <1>15 DEF Linked
  <2>2. HasPicture(f) /\ ~Linked(f)
    BY <1>1, <1>2, <1>7, <1>15, <2>1 DEF HasPicture, Linked
  <2> QED
    BY <1>1, <1>4, <2>1, <2>2 DEF RegInv, ResidueExplained
<1> QED
  BY <1>5, <1>6, <1>8, <1>9, <1>10, <1>11, <1>12, <1>13, <1>14, <1>15
     DEF RegInv, ResidueExplained

(* Nothing but the row in hand links the picture that is deleted.          *)
LEMMA deletePhotoReg ==
    ASSUME RegInv, NEW w \in Workers, deletePhoto(w), UNCHANGED foreignKeys
    PROVE  RegInv'
<1> USE FreshNullAssumption
<1> DEFINE user == worker[w].user
           photo == worker[w].photo
<1>1. /\ user # Null /\ photo \in PhotoIds /\ photo # Null
      /\ user \notin acked
      /\ worker \in [Workers -> Registrations]
      /\ pictures \in [PhotoIds -> UserIds \cup {Null}]
      /\ \A u \in UserIds : users[u].photo = photo => u = user
      /\ UNCHANGED <<foreignKeys, users, friends, spent, acked, leftBehind>>
  BY DEF RegInv, TypeOK, Staged, RowHeld, PictureHeld, Registrations, deletePhoto
<1>2. /\ pictures' \in [PhotoIds -> UserIds \cup {Null}]
      /\ pictures'[photo] = Null
      /\ \A f \in PhotoIds \ {photo} : pictures'[f] = pictures[f]
  BY <1>1 DEF deletePhoto, DeletePicture, HasPicture
<1>3. /\ worker' \in [Workers -> Registrations]
      /\ worker'[w].stage = "deleteRow"
      /\ worker'[w].user = user /\ worker'[w].photo = photo
      /\ \A v \in Workers \ {w} : worker'[v] = worker[v]
  BY <1>1 DEF deletePhoto, Goto, Registrations, Stages
<1>4. \A v \in Workers \ {w} : worker[v].photo # Null =>
         pictures'[worker[v].photo] = pictures[worker[v].photo]
  BY <1>1, <1>2 DEF RegInv, Apart, Registrations
<1>5. TypeOK'
  BY <1>1, <1>2, <1>3 DEF RegInv, TypeOK
<1>6. Staged'
  BY <1>1, <1>2, <1>3, <1>4 DEF RegInv, Staged, HasPicture
<1>7. RowHeld'
  BY <1>1, <1>3 DEF RegInv, RowHeld, HasRow
<1>8. PictureHeld'
  BY <1>1, <1>2, <1>3, <1>4 DEF RegInv, PictureHeld, HasPicture
<1>9. Apart'
  BY <1>3 DEF RegInv, Apart
<1>10. Drawn'
  BY <1>1 DEF RegInv, Drawn, HasRow
<1>11. AckedComplete'
  BY <1>1, <1>2 DEF RegInv, TypeOK, Rows, AckedComplete, HasRow, HasPicture, Whole
<1>12. PictureOwn'
  BY <1>1, <1>2 DEF RegInv, TypeOK, Rows, PictureOwn, HasPicture
<1>13. ASSUME NEW u \in UserIds, HasRow(u)', u \notin acked'
       PROVE  u \in leftBehind' \/ \E x \in Workers : worker'[x].user = u
  BY <1>1, <1>3, <1>13 DEF RegInv, ResidueExplained, HasRow
<1>14. ASSUME NEW f \in PhotoIds, HasPicture(f)', ~Linked(f)'
       PROVE  f \in leftBehind' \/ \E x \in Workers : worker'[x].photo = f
  <2>1. HasPicture(f) /\ ~Linked(f)
    BY <1>1, <1>2, <1>14 DEF HasPicture, Linked, HasRow
  <2> QED
    BY <1>1, <1>3, <2>1 DEF RegInv, ResidueExplained
<1> QED
  BY <1>5, <1>6, <1>7, <1>8, <1>9, <1>10, <1>11, <1>12, <1>13, <1>14
     DEF RegInv, ResidueExplained

(* The row in hand is not acknowledged, so it may go.                      *)
LEMMA deleteRowReg ==
    ASSUME RegInv, NEW w \in Workers, deleteRow(w), UNCHANGED foreignKeys
    PROVE  RegInv'
<1> USE FreshNullAssumption
<1> DEFINE user == worker[w].user
           photo == worker[w].photo
<1>1. /\ user \in UserIds /\ user # Null /\ user \notin acked
      /\ worker \in [Workers -> Registrations] /\ users \in [UserIds -> Rows]
      /\ users[user].photo \in {Null, photo}
      /\ HasPicture(photo) => photo \in leftBehind
      /\ UNCHANGED <<foreignKeys, pictures, friends, spent, acked, leftBehind>>
  BY DEF RegInv, TypeOK, Staged, RowHeld, Registrations, deleteRow
<1>2. /\ users' \in [UserIds -> Rows]
      /\ users'[user].nickname = Null /\ users'[user].photo = Null
      /\ \A u \in UserIds \ {user} : users'[u] = users[u]
  BY <1>1 DEF deleteRow, DeleteUser, NoRow, Rows, HasRow
<1>3. /\ worker' \in [Workers -> Registrations]
      /\ worker'[w].stage = "idle" /\ worker'[w].user = Null /\ worker'[w].photo = Null
      /\ \A v \in Workers \ {w} : worker'[v] = worker[v]
  BY <1>1 DEF deleteRow, AnswerError, NoRegistration, Registrations, Stages
<1>4. TypeOK'
  BY <1>1, <1>2, <1>3 DEF RegInv, TypeOK
<1>5. Staged'
  BY <1>1, <1>3 DEF RegInv, Staged, HasPicture
<1>6. RowHeld'
  <2>1. \A v \in Workers \ {w} : worker[v].user # Null =>
            worker[v].user # user /\ worker[v].user \in UserIds
    BY <1>1 DEF RegInv, Apart, Registrations
  <2> QED
    BY <1>1, <1>2, <1>3, <2>1 DEF RegInv, RowHeld, HasRow
<1>7. PictureHeld'
  BY <1>1, <1>2, <1>3 DEF RegInv, PictureHeld, HasPicture
<1>8. Apart'
  BY <1>3 DEF RegInv, Apart
<1>9. Drawn'
  BY <1>1, <1>2 DEF RegInv, Drawn, HasRow
<1>10. AckedComplete'
  BY <1>1, <1>2 DEF RegInv, TypeOK, AckedComplete, HasRow, HasPicture, Whole
<1>11. PictureOwn'
  BY <1>1, <1>2 DEF RegInv, PictureOwn, HasPicture
<1>12. ASSUME NEW u \in UserIds, HasRow(u)', u \notin acked'
       PROVE  u \in leftBehind' \/ \E x \in Workers : worker'[x].user = u
  BY <1>1, <1>2, <1>3, <1>12 DEF RegInv, ResidueExplained, HasRow
<1>13. ASSUME NEW f \in PhotoIds, HasPicture(f)', ~Linked(f)'
       PROVE  f \in leftBehind' \/ \E x \in Workers : worker'[x].photo = f
  <2>1. HasPicture(f) /\ f # Null
    BY <1>1, <1>13 DEF HasPicture
  <2>2. CASE f = photo
    BY <1>1, <2>1, <2>2
  <2>3. CASE f # photo
    <3>1. ~Linked(f)
      BY <1>1, <1>2, <1>13, <2>1, <2>3 DEF Linked, HasRow
    <3> QED
      BY <1>1, <1>3, <2>1, <2>3, <3>1 DEF RegInv, ResidueExplained
  <2> QED
    BY <2>2, <2>3
<1> QED
  BY <1>4, <1>5, <1>6, <1>7, <1>8, <1>9, <1>10, <1>11, <1>12, <1>13
     DEF RegInv, ResidueExplained

-----------------------------------------------------------------------------
(* The other writers.                                                      *)

(* A new nickname for a row changes nothing the invariant says of it but   *)
(* the key.                                                                *)
LEMMA updateDataReg ==
    ASSUME RegInv, NEW u \in UserIds, NEW n \in Nicknames, updateData(u, n),
           UNCHANGED foreignKeys
    PROVE  RegInv'
<1> USE FreshNullAssumption
<1>1. /\ users \in [UserIds -> Rows] /\ HasRow(u)
      /\ users' = [users EXCEPT ![u].nickname = n]
      /\ UNCHANGED <<foreignKeys, pictures, friends, worker, spent, acked, leftBehind>>
  BY DEF RegInv, TypeOK, updateData
<1>2. /\ users' \in [UserIds -> Rows]
      /\ \A v \in UserIds : users'[v].photo = users[v].photo /\ (HasRow(v)' <=> HasRow(v))
  BY <1>1 DEF Rows, HasRow
<1>3. TypeOK' /\ Staged' /\ Apart'
  BY <1>1, <1>2 DEF RegInv, TypeOK, Staged, Apart, HasPicture
<1>4. RowHeld'
  BY <1>1, <1>2 DEF RegInv, TypeOK, RowHeld, Registrations
<1>5. PictureHeld' /\ Drawn'
  BY <1>1, <1>2 DEF RegInv, PictureHeld, Drawn, HasPicture
<1>6. AckedComplete' /\ PictureOwn'
  BY <1>1, <1>2 DEF RegInv, TypeOK, AckedComplete, PictureOwn, HasPicture, Whole
<1>7. ResidueExplained'
  BY <1>1, <1>2 DEF RegInv, ResidueExplained, HasPicture, Linked
<1> QED
  BY <1>3, <1>4, <1>5, <1>6, <1>7 DEF RegInv

(* updatePhoto writes the picture its owner has already; friends decide    *)
(* only what can be undone.                                                *)
LEMMA SidelineReg ==
    ASSUME RegInv, NEW u \in UserIds, NEW v \in UserIds,
           updatePhoto(u) \/ makeFriend(u, v) \/ deleteFriend(u, v),
           UNCHANGED foreignKeys
    PROVE  RegInv'
<1> USE FreshNullAssumption
<1>1. /\ UNCHANGED <<foreignKeys, users, worker, spent, acked, leftBehind>>
      /\ friends' \subseteq UserIds \X UserIds
  BY DEF RegInv, TypeOK, updatePhoto, makeFriend, deleteFriend
<1>2. pictures' = pictures
  <2>1. CASE updatePhoto(u)
    <3>1. pictures[users[u].photo] = u
      BY <2>1 DEF RegInv, PictureOwn, updatePhoto, HasPicture
    <3> QED
      BY <2>1, <3>1 DEF RegInv, TypeOK, updatePhoto, InsertPicture
  <2> QED
    BY <2>1 DEF makeFriend, deleteFriend
<1>3. TypeOK' /\ Staged' /\ RowHeld' /\ PictureHeld' /\ Apart' /\ Drawn'
  BY <1>1, <1>2 DEF RegInv, TypeOK, Staged, RowHeld, PictureHeld, Apart, Drawn,
                    HasRow, HasPicture
<1>4. AckedComplete' /\ PictureOwn' /\ ResidueExplained'
  BY <1>1, <1>2 DEF RegInv, AckedComplete, PictureOwn, ResidueExplained,
                    HasRow, HasPicture, Linked, Whole
<1> QED
  BY <1>3, <1>4 DEF RegInv

-----------------------------------------------------------------------------
(* RegInv is inductive.                                                    *)
LEMMA NextReg == RegInv /\ [Next]_vars => RegInv'
<1> SUFFICES ASSUME RegInv, [Next]_vars PROVE RegInv'
  OBVIOUS
<1>1. ASSUME NEW w \in Workers, Step(w) PROVE RegInv'
  BY <1>1, addPropertiesReg, addNewPhotoReg, connectReg, deletePhotoReg, deleteRowReg,
     ThrowsReg, UndoFailsReg DEF Step
<1>2. CASE Others
  BY <1>2, registrationReg, updateDataReg, SidelineReg, TerminateReg DEF Others
<1>3. CASE UNCHANGED vars
  BY <1>3 DEF vars, RegInv, TypeOK, Staged, RowHeld, PictureHeld, Apart, Drawn,
     AckedComplete, PictureOwn, ResidueExplained, HasRow, HasPicture, Linked, Whole
<1> QED
  BY <1>1, <1>2, <1>3 DEF Next

(* Every reachable state has all the parts of RegInv. *)
THEOREM RegistrationInvariant == Spec => []RegInv
BY InitReg, NextReg, PTL DEF Spec

(* TypeOK: rows, registrations and serial values are of their kinds.       *)
THEOREM TypeCorrect == Spec => []TypeOK
<1>1. RegInv => TypeOK
  BY DEF RegInv
<1> QED
  BY <1>1, RegistrationInvariant, PTL

(* AckedComplete: no registration, undoing itself, takes a row or picture  *)
(* from a user whose registration was answered with 200.                   *)
THEOREM AckedUsersComplete == Spec => []AckedComplete
<1>1. RegInv => AckedComplete
  BY DEF RegInv
<1> QED
  BY <1>1, RegistrationInvariant, PTL

(* ResidueExplained: what remains of a registration that was not answered  *)
(* with 200 is still being worked on, or a fault or a friend has kept      *)
(* addNewUser from undoing it.                                             *)
THEOREM ResiduesExplained == Spec => []ResidueExplained
<1>1. RegInv => ResidueExplained
  BY DEF RegInv
<1> QED
  BY <1>1, RegistrationInvariant, PTL

(* PictureOwn: however registrations and updates of pictures overlap, a    *)
(* user's row names a picture of his own.                                  *)
THEOREM PicturesOwn == Spec => []PictureOwn
<1>1. RegInv => PictureOwn
  BY DEF RegInv
<1> QED
  BY <1>1, RegistrationInvariant, PTL
=============================================================================
