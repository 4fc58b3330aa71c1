------------------------------- MODULE SignIn -------------------------------
(***************************************************************************)
(* Who is let in and for how long: the rows of users as far as a login     *)
(* reads them, the tokens JwtToken creates and checks, and the cookie that *)
(* carries the refresh token.  One client; several do not affect each      *)
(* other but through the rows.                                             *)
(*                                                                         *)
(* A token is its subject and its expiry.  checkAccessToken and            *)
(* checkRefreshToken accept the same tokens, so nothing else tells the two *)
(* kinds apart, and the client presents what it has wherever it likes.  Of *)
(* its access tokens only the last matters: the others expire before it.   *)
(***************************************************************************)
EXTENDS Integers, FiniteSets

CONSTANTS
    Ids,          \* serial values of users
    Probe,        \* the id whose nickname checkPassword reads first: 18
    Addresses,    \* email addresses up to the case of their letters
    Spellings,    \* ways to write one
    Upper,        \* the one in capital letters
    Passwords,
    Null,
    KeyIgnoresCase,  \* does users_email_key? The schema is not known
    RefreshLife,  \* 7 days
    AccessLife,   \* 15 minutes
    MaxTime       \* bounds the clock

ASSUME LifeAssumption ==
    RefreshLife \in Nat /\ AccessLife \in Nat /\ AccessLife < RefreshLife
ASSUME ProbeAssumption == Probe \in Ids
ASSUME UpperAssumption == Upper \in Spellings
ASSUME KeyAssumption == KeyIgnoresCase \in BOOLEAN

Mails == Addresses \X Spellings

(* The column password holds what the page has sent: a hash of a password, *)
(* or something that is no hash, Null.                                     *)
Rows == [mail : Mails, password : Passwords \cup {Null}]
NoRow == [mail |-> Null, password |-> Null]

VARIABLES
    rows,         \* table users
    works,        \* a call of the database returns; otherwise it throws
    now,
    id, since,    \* who is signed in, and since when
    renewed,      \* when tokens were last made for it
    refresh, access,  \* expiry of the login's refresh and the last access token
    carried, cookie,  \* expiry of the token in the cookie, and of the cookie
    answer        \* how the last request was answered

tokens == <<id, since, renewed, refresh, access, carried, cookie>>
vars == <<rows, works, now, id, since, renewed, refresh, access, carried, cookie, answer>>

HasRow(u) == rows[u] # NoRow
Equal(m, n) == IF KeyIgnoresCase THEN m[1] = n[1] ELSE m = n
Free(m, except) ==
    \A u \in Ids \ {except} : HasRow(u) => ~Equal(rows[u].mail, m)

Init ==
    /\ rows \in [Ids -> {NoRow}]
    /\ works = TRUE
    /\ now = 0
    /\ id = Null /\ since = 0 /\ renewed = 0
    /\ refresh = 0 /\ access = 0 /\ carried = 0 /\ cookie = 0
    /\ answer = "none"

-----------------------------------------------------------------------------
(* The writers of users; a token goes on when its row changes or goes.     *)

addNewUser(u, m, password) ==
    /\ ~HasRow(u) /\ Free(m, u)
    /\ rows' = [rows EXCEPT ![u] = [mail |-> m, password |-> password]]
    /\ UNCHANGED <<works, now, tokens, answer>>

deleteRow(u) ==
    /\ HasRow(u)
    /\ rows' = [rows EXCEPT ![u] = NoRow]
    /\ UNCHANGED <<works, now, tokens, answer>>

updateProfileData(u, m) ==
    /\ HasRow(u) /\ Free(m, u)
    /\ rows' = [rows EXCEPT ![u].mail = m]
    /\ UNCHANGED <<works, now, tokens, answer>>

updateProfilePassword(u, password) ==
    /\ HasRow(u)
    /\ rows' = [rows EXCEPT ![u].password = password]
    /\ UNCHANGED <<works, now, tokens, answer>>

-----------------------------------------------------------------------------
(* The statement getHashPassword. *)
upper(m) == <<m[1], Upper>>
getHashPasswordAsTyped(m) ==       \* a possible slip: UPPER(email) = $1
    {u \in Ids : HasRow(u) /\ upper(rows[u].mail) = m}
getHashPassword(m) == {u \in Ids : HasRow(u) /\ upper(rows[u].mail) = upper(m)}

(* exec_prepared1 throws unless there is exactly one row.  Of all that can *)
(* go wrong, a database that fails included, the caller learns "Invalid    *)
(* login or password".                                                     *)
checkPassword(m, password) ==
    {u \in getHashPassword(m) :
        /\ works /\ HasRow(Probe)
        /\ getHashPassword(m) = {u}
        /\ rows[u].password = password}

Alive(token) == now <= token

(* The last disjunct: getNicknameById throws, the row or the database      *)
(* having gone since checkPassword.                                        *)
login(m, password) ==
    \/ /\ id' \in checkPassword(m, password)
       /\ since' = now /\ renewed' = now
       /\ refresh' = now + RefreshLife /\ access' = now + AccessLife
       /\ carried' = refresh' /\ cookie' = now + RefreshLife
       /\ answer' = "signed in"
       /\ UNCHANGED <<rows, works, now>>
    \/ /\ checkPassword(m, password) = {}
       /\ answer' = "login refused"
       /\ UNCHANGED <<rows, works, now, tokens>>
    \/ /\ checkPassword(m, password) # {}
       /\ answer' = "500"
       /\ UNCHANGED <<rows, works, now, tokens>>

HasCookie == id # Null /\ now < cookie

(* Any of its tokens will do, the last access token too.                   *)
Presentable == IF id = Null THEN {}
               ELSE {refresh, access} \cup (IF HasCookie THEN {carried} ELSE {})

RenewalInto(token, carrying) ==
    /\ Alive(token) /\ HasRow(id) /\ works
    /\ renewed' = now /\ access' = now + AccessLife
    /\ carried' = carrying /\ cookie' = now + RefreshLife
    /\ answer' = "renewed"
    /\ UNCHANGED <<rows, works, now, id, since, refresh>>

RenewalRefused(token) ==
    /\ ~(Alive(token) /\ HasRow(id) /\ works)
    /\ answer' = "renewal refused"
    /\ UNCHANGED <<rows, works, now, tokens>>

(* A possible slip: a new refresh token, dated from now. *)
getNewTokenSliding(token) ==
    /\ token \in Presentable
    /\ RenewalInto(token, now + RefreshLife) \/ RenewalRefused(token)

(* The token presented is sent back, in a cookie as fresh as at login.     *)
getNewToken(token) ==
    /\ token \in Presentable
    /\ RenewalInto(token, token) \/ RenewalRefused(token)

(* Any request of a guarded target.  No row is looked up. *)
checkAccesstoken(token) ==
    /\ token \in Presentable
    /\ answer' = IF Alive(token) THEN "admitted" ELSE "401"
    /\ UNCHANGED <<rows, works, now, tokens>>

(* The database fails, or has recovered. *)
Turn ==
    /\ works' = ~works
    /\ UNCHANGED <<rows, now, tokens, answer>>

Tick ==
    /\ now < MaxTime
    /\ now' = now + 1
    /\ answer' = "none"
    /\ UNCHANGED <<rows, works, tokens>>

Next ==
    \/ \E u \in Ids, m \in Mails, password \in Passwords \cup {Null} :
          addNewUser(u, m, password)
    \/ \E u \in Ids : deleteRow(u)
    \/ \E u \in Ids, m \in Mails : updateProfileData(u, m)
    \/ \E u \in Ids, password \in Passwords \cup {Null} : updateProfilePassword(u, password)
    \/ \E m \in Mails, password \in Passwords : login(m, password)
    \/ \E token \in Presentable : getNewToken(token) \/ checkAccesstoken(token)
    \/ Turn \/ Tick

Spec == Init /\ [][Next]_vars

-----------------------------------------------------------------------------

(* A login lasts for the life of its refresh token, and after that only as *)
(* long as the client renews without a pause longer than the life of an    *)
(* access token: either kind of token is taken for the other, so an access *)
(* token renews too, without end, but a pause ends the login for good.     *)
(* Though every renewal dates the cookie anew, a browser whose cookie has  *)
(* the login's token in it is refused a renewal after that token's life,   *)
(* before only if its row is gone or the database fails.                   *)
LoginLasts ==
    [][ \A token \in Presentable :
          /\ \/ checkAccesstoken(token) /\ answer' = "admitted"
             \/ getNewToken(token) /\ answer' = "renewed"
             => now <= since + RefreshLife \/ now <= renewed + AccessLife
          /\ getNewToken(token) /\ answer' = "renewal refused" /\ token = refresh
             => now > since + RefreshLife \/ ~HasRow(id) \/ ~works ]_vars

(* The right email and password, written as registered, are refused only   *)
(* if the database fails, if the row of user 18 is missing, or if the key  *)
(* lets another row have the same address in other letters.  (A row whose  *)
(* password is no hash has no right password.)                             *)
LoginExplained ==
    [][ \A u \in Ids, password \in Passwords :
          /\ HasRow(u) /\ rows[u].password = password
          /\ login(rows[u].mail, password) /\ answer' = "login refused"
          => \/ ~works \/ ~HasRow(Probe)
             \/ ~KeyIgnoresCase /\ \E v \in Ids \ {u} :
                    HasRow(v) /\ rows[v].mail[1] = rows[u].mail[1] ]_vars
=============================================================================
