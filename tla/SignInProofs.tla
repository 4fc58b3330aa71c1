---------------------------- MODULE SignInProofs ----------------------------
(***************************************************************************)
(* Proofs about SignIn, for all sets of users, addresses, spellings and    *)
(* passwords, all lives of tokens and every bound of the clock.            *)
(***************************************************************************)
EXTENDS SignIn, TLAPS

(* What table users guarantees: rows of their kind, and its key.           *)
TableOK ==
    /\ rows \in [Ids -> Rows \cup {NoRow}]
    /\ \A u, v \in Ids : u # v /\ HasRow(u) /\ HasRow(v) =>
          ~Equal(rows[u].mail, rows[v].mail)

(* What the client's tokens are worth: the refresh token is dated from the *)
(* login, the access token from the last renewal, and what the cookie      *)
(* carries is one of them or an access token from before.                  *)
TokensOK ==
    /\ now \in Nat /\ since \in Nat /\ renewed \in Nat /\ renewed <= now
    /\ refresh \in Nat /\ access \in Nat /\ carried \in Nat
    /\ id # Null =>
          /\ refresh = since + RefreshLife /\ access = renewed + AccessLife
          /\ carried = refresh \/ carried <= access

LoginInv == TableOK /\ TokensOK

-----------------------------------------------------------------------------
(* Equal addresses can be named in either order.                           *)
LEMMA EqualSymmetric ==
    ASSUME NEW m, NEW n, Equal(m, n)
    PROVE  Equal(n, m)
BY DEF Equal

(* A row written under a free key keeps the key unique, whoever's it is.   *)
LEMMA WrittenRowUnique ==
    ASSUME TableOK, NEW u \in Ids, NEW row \in Rows, Free(row.mail, u),
           rows' = [rows EXCEPT ![u] = row]
    PROVE  TableOK'
<1>1. rows' \in [Ids -> Rows \cup {NoRow}]
  BY DEF TableOK
<1>2. ASSUME NEW v \in Ids, NEW w \in Ids, v # w, HasRow(v)', HasRow(w)'
      PROVE  ~Equal(rows'[v].mail, rows'[w].mail)
  <2>1. \A x \in Ids \ {u} : rows'[x] = rows[x]
    BY DEF TableOK
  <2>2. rows'[u].mail = row.mail
    BY DEF TableOK
  <2>3. CASE v = u
    <3>1. rows'[w] = rows[w] /\ HasRow(w) /\ w \in Ids \ {u}
      BY <1>2, <2>1, <2>3 DEF HasRow
    <3>2. ~Equal(rows[w].mail, row.mail)
      BY <3>1 DEF Free
    <3> QED
      BY <2>2, <2>3, <3>1, <3>2, EqualSymmetric
  <2>4. CASE w = u
    <3>1. rows'[v] = rows[v] /\ HasRow(v) /\ v \in Ids \ {u}
      BY <1>2, <2>1, <2>4 DEF HasRow
    <3>2. ~Equal(rows[v].mail, row.mail)
      BY <3>1 DEF Free
    <3> QED
      BY <2>2, <2>4, <3>1, <3>2
  <2>5. CASE v # u /\ w # u
    <3>1. rows'[v] = rows[v] /\ rows'[w] = rows[w]
      BY <2>1, <2>5
    <3>2. HasRow(v) /\ HasRow(w)
      BY <1>2, <3>1 DEF HasRow
    <3> QED
      BY <1>2, <3>1, <3>2 DEF TableOK
  <2> QED
    BY <2>3, <2>4, <2>5
<1> QED
  BY <1>1, <1>2 DEF TableOK, Equal, HasRow, NoRow

(* Nobody is signed in and the table is empty.                             *)
LEMMA InitInv == Init => LoginInv
<1> SUFFICES ASSUME Init PROVE LoginInv
  OBVIOUS
<1>1. \A u \in Ids : ~HasRow(u)
  BY DEF Init, HasRow
<1> QED
  BY <1>1 DEF Init, LoginInv, TableOK, TokensOK

(* The writers of users keep the table; they do not touch a token. *)
LEMMA TableStep ==
    ASSUME TableOK, [Next]_vars
    PROVE  TableOK'
<1>1. ASSUME UNCHANGED rows
      PROVE  TableOK'
  BY <1>1 DEF TableOK, HasRow, Equal, NoRow
<1>2. ASSUME NEW u \in Ids, NEW m \in Mails, NEW password \in Passwords \cup {Null},
             addNewUser(u, m, password)
      PROVE  TableOK'
  <2> DEFINE row == [mail |-> m, password |-> password]
  <2>1. row \in Rows /\ row.mail = m
    BY DEF Rows
  <2>2. Free(row.mail, u) /\ rows' = [rows EXCEPT ![u] = row]
    BY <1>2, <2>1 DEF addNewUser
  <2> QED
    BY <2>1, <2>2, WrittenRowUnique
<1>3. ASSUME NEW u \in Ids, deleteRow(u)
      PROVE  TableOK'
  <2>1. rows' \in [Ids -> Rows \cup {NoRow}]
    BY <1>3 DEF TableOK, deleteRow
  <2>2. ~HasRow(u)' /\ \A x \in Ids \ {u} : rows'[x] = rows[x]
    BY <1>3 DEF TableOK, deleteRow, HasRow, NoRow
  <2>3. ASSUME NEW v \in Ids, NEW w \in Ids, v # w, HasRow(v)', HasRow(w)'
        PROVE  ~Equal(rows'[v].mail, rows'[w].mail)
    BY <2>2, <2>3 DEF TableOK, HasRow, NoRow
  <2> QED
    BY <2>1, <2>3 DEF TableOK, HasRow, Equal, NoRow
<1>4. ASSUME NEW u \in Ids, NEW m \in Mails, updateProfileData(u, m)
      PROVE  TableOK'
  <2> DEFINE row == [rows[u] EXCEPT !.mail = m]
  <2>1. rows[u] \in Rows
    BY <1>4 DEF TableOK, updateProfileData, HasRow
  <2>2. row \in Rows /\ row.mail = m
    BY <2>1 DEF Rows
  <2>3. Free(row.mail, u) /\ rows' = [rows EXCEPT ![u] = row]
    BY <1>4, <2>2 DEF updateProfileData
  <2> QED
    BY <2>2, <2>3, WrittenRowUnique
<1>5. ASSUME NEW u \in Ids, NEW password \in Passwords \cup {Null},
             updateProfilePassword(u, password)
      PROVE  TableOK'
  <2> DEFINE row == [rows[u] EXCEPT !.password = password]
  <2>1. rows[u] \in Rows /\ HasRow(u)
    BY <1>5 DEF TableOK, updateProfilePassword, HasRow
  <2>2. row \in Rows /\ row.mail = rows[u].mail
    BY <2>1 DEF Rows
  <2>3. Free(row.mail, u)
    BY <2>1, <2>2 DEF TableOK, Free
  <2>4. rows' = [rows EXCEPT ![u] = row]
    BY <1>5 DEF updateProfilePassword
  <2> QED
    BY <2>2, <2>3, <2>4, WrittenRowUnique
<1>6. ASSUME NEW m \in Mails, NEW password \in Passwords, login(m, password)
      PROVE  UNCHANGED rows
  BY <1>6 DEF login
<1>7. ASSUME \/ \E token \in Presentable : getNewToken(token) \/ checkAccesstoken(token)
             \/ Turn \/ Tick \/ UNCHANGED vars
      PROVE  UNCHANGED rows
  BY <1>7
     DEF getNewToken, RenewalInto, RenewalRefused, checkAccesstoken, Turn, Tick, vars
<1> QED
  BY <1>1, <1>2, <1>3, <1>4, <1>5, <1>6, <1>7 DEF Next

(* Every step keeps the dates of the tokens.                               *)
LEMMA TokensStep ==
    ASSUME TokensOK, [Next]_vars
    PROVE  TokensOK'
<1> USE LifeAssumption
<1>1. ASSUME UNCHANGED <<now, tokens>>
      PROVE  TokensOK'
  BY <1>1 DEF TokensOK, tokens
<1>2. ASSUME NEW m \in Mails, NEW password \in Passwords, login(m, password)
      PROVE  TokensOK'
  <2>1. CASE UNCHANGED <<now, tokens>>
    BY <1>1, <2>1
  <2>2. CASE /\ since' = now /\ renewed' = now
             /\ refresh' = now + RefreshLife /\ access' = now + AccessLife
             /\ carried' = refresh' /\ now' = now
    BY <2>2 DEF TokensOK
  <2> QED
    BY <1>2, <2>1, <2>2 DEF login
<1>3. ASSUME NEW token \in Presentable, getNewToken(token)
      PROVE  TokensOK'
  <2>1. CASE RenewalRefused(token)
    BY <1>1, <2>1 DEF RenewalRefused
  <2>2. CASE RenewalInto(token, token)
    <3>1. /\ renewed' = now /\ access' = now + AccessLife /\ carried' = token
          /\ now' = now /\ since' = since /\ refresh' = refresh /\ id' = id
      BY <2>2 DEF RenewalInto
    <3>2. id # Null /\ token \in {refresh, access, carried}
      BY <1>3 DEF Presentable
    <3>3. access <= now + AccessLife
      BY <3>2 DEF TokensOK
    <3>4. token \in Nat /\ (token = refresh \/ token <= now + AccessLife)
      BY <3>2, <3>3 DEF TokensOK
    <3> QED
      BY <3>1, <3>2, <3>4 DEF TokensOK
  <2> QED
    BY <1>3, <2>1, <2>2 DEF getNewToken
<1>4. CASE Tick
  BY <1>4 DEF TokensOK, Tick, tokens
<1>5. ASSUME \/ \E u \in Ids, m \in Mails, password \in Passwords \cup {Null} :
                   addNewUser(u, m, password)
             \/ \E u \in Ids : deleteRow(u)
             \/ \E u \in Ids, m \in Mails : updateProfileData(u, m)
             \/ \E u \in Ids, password \in Passwords \cup {Null} :
                   updateProfilePassword(u, password)
             \/ \E token \in Presentable : checkAccesstoken(token)
             \/ Turn
             \/ UNCHANGED vars
      PROVE  UNCHANGED <<now, tokens>>
  BY <1>5 DEF addNewUser, deleteRow, updateProfileData, updateProfilePassword,
              checkAccesstoken, Turn, vars, tokens
<1> QED
  BY <1>1, <1>2, <1>3, <1>4, <1>5 DEF Next

(* Rows and tokens are as they should be in every reachable state. *)
THEOREM LoginInvariant == Spec => []LoginInv
<1>1. LoginInv /\ [Next]_vars => LoginInv'
  BY TableStep, TokensStep DEF LoginInv
<1> QED
  BY InitInv, <1>1, PTL DEF Spec

-----------------------------------------------------------------------------
(* Whatever the client presents as what, nothing lets it in after the life *)
(* of its login's refresh token and a pause of more than the life of an    *)
(* access token: LoginLasts, from the dates that TokensOK gives.           *)
THEOREM LoginsLast == Spec => LoginLasts
<1> DEFINE Lasts ==
        \A token \in Presentable :
          /\ \/ checkAccesstoken(token) /\ answer' = "admitted"
             \/ getNewToken(token) /\ answer' = "renewed"
             => now <= since + RefreshLife \/ now <= renewed + AccessLife
          /\ getNewToken(token) /\ answer' = "renewal refused" /\ token = refresh
             => now > since + RefreshLife \/ ~HasRow(id) \/ ~works
<1>1. ASSUME LoginInv PROVE Lasts
  <2> USE LifeAssumption
  <2> SUFFICES ASSUME NEW token \in Presentable
               PROVE  /\ \/ checkAccesstoken(token) /\ answer' = "admitted"
                         \/ getNewToken(token) /\ answer' = "renewed"
                         => now <= since + RefreshLife \/ now <= renewed + AccessLife
                      /\ /\ getNewToken(token) /\ answer' = "renewal refused"
                         /\ token = refresh
                         => now > since + RefreshLife \/ ~HasRow(id) \/ ~works
    OBVIOUS
  <2>1. id # Null /\ token \in {refresh, access, carried}
    BY DEF Presentable
  <2>2. /\ now \in Nat /\ since \in Nat /\ renewed \in Nat
        /\ refresh = since + RefreshLife /\ access = renewed + AccessLife
        /\ carried \in Nat /\ (carried = refresh \/ carried <= access)
    BY <1>1, <2>1 DEF LoginInv, TokensOK
  <2>3. token \in Nat /\ (token = since + RefreshLife \/ token <= renewed + AccessLife)
    BY <2>1, <2>2
  <2>4. ASSUME \/ checkAccesstoken(token) /\ answer' = "admitted"
               \/ getNewToken(token) /\ answer' = "renewed"
        PROVE  now <= since + RefreshLife \/ now <= renewed + AccessLife
    <3>1. now <= token
      BY <2>4 DEF checkAccesstoken, getNewToken, RenewalInto, RenewalRefused, Alive
    <3> QED
      BY <2>2, <2>3, <3>1
  <2>5. ASSUME getNewToken(token), answer' = "renewal refused", token = refresh
        PROVE  now > since + RefreshLife \/ ~HasRow(id) \/ ~works
    <3>1. ~(now <= refresh) \/ ~HasRow(id) \/ ~works
      BY <2>5 DEF getNewToken, RenewalInto, RenewalRefused, Alive
    <3> QED
      BY <2>2, <3>1
  <2> QED
    BY <2>4, <2>5
<1> QED
  BY LoginInvariant, <1>1, PTL DEF LoginLasts

(* Who gives the right email and password is refused only by a database    *)
(* that fails, for want of user 18's row or for another row with the same  *)
(* address in other letters: LoginExplained, since the key admits no other *)
(* two rows.                                                               *)
THEOREM LoginsExplained == Spec => LoginExplained
<1> DEFINE Explained ==
        \A u \in Ids, password \in Passwords :
          /\ HasRow(u) /\ rows[u].password = password
          /\ login(rows[u].mail, password) /\ answer' = "login refused"
          => \/ ~works \/ ~HasRow(Probe)
             \/ ~KeyIgnoresCase /\ \E v \in Ids \ {u} :
                    HasRow(v) /\ rows[v].mail[1] = rows[u].mail[1]
<1>1. ASSUME LoginInv PROVE Explained
  <2> SUFFICES ASSUME NEW u \in Ids, NEW password \in Passwords,
                      HasRow(u), rows[u].password = password,
                      login(rows[u].mail, password), answer' = "login refused",
                      works, HasRow(Probe)
               PROVE  ~KeyIgnoresCase /\ \E v \in Ids \ {u} :
                          HasRow(v) /\ rows[v].mail[1] = rows[u].mail[1]
    OBVIOUS
  <2>1. checkPassword(rows[u].mail, password) = {}
    BY DEF login
  <2>2. u \in getHashPassword(rows[u].mail)
    BY DEF getHashPassword
  <2>3. getHashPassword(rows[u].mail) # {u}
    BY <2>1, <2>2 DEF checkPassword
  <2>4. PICK v \in Ids \ {u} : HasRow(v) /\ upper(rows[v].mail) = upper(rows[u].mail)
    <3>1. PICK v : v \in getHashPassword(rows[u].mail) /\ v # u
      BY <2>2, <2>3
    <3> QED
      BY <3>1 DEF getHashPassword
  <2>5. rows[v].mail[1] = rows[u].mail[1]
    BY <2>4 DEF upper
  <2>6. ~Equal(rows[u].mail, rows[v].mail)
    BY <1>1, <2>4 DEF LoginInv, TableOK
  <2> QED
    BY <2>4, <2>5, <2>6 DEF Equal
<1> QED
  BY LoginInvariant, <1>1, PTL DEF LoginExplained
=============================================================================
