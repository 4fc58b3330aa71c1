# A verification project for Photogram

Photogram is two C++ servers over one PostgreSQL database. Browsers talk to both.

```
             HTTP                                   libpqxx
  browser ----------> auth server  (auth_server_src) ---------> users, profile_picture, friends
     |                     ^
     |  HTTP               | HTTP  GET /getIdForServerByAccess
     +-------------> content server (content_server_src) -----> posts, likes, post_photos
                                                 (and reads users, friends)
```

This directory holds TLA+ models of both, TLC runs that check them on small
instances, and proofs about all eight detailed models that TLAPS checks for all
instances. Source lines below are relative to `src/`.

| module | what it is |
|---|---|
| `PostBoard` | abstract: posts, who likes them, the number shown; three atomic steps |
| `ContentStore` | `DBclient` statement by statement: transactions, exceptions, lost confirmations, process end |
| `ContentStoreProofs` | invariants, action properties and the refinement of `PostBoard`, proved |
| `ContentServer` | `TcpServer`, `TcpConnection`, `AnotherServerConnection`: all handlers of many connections, using `PostBoard` as the store |
| `ContentServerProofs` | its invariants and action properties, proved |
| `AuthConnection` | `MyServer`, `WorkWithClient::run`, `HttpParser::parse`: TCP streams cut anywhere, the receive buffer, replies, the end of the process |
| `AuthConnectionProofs` | its invariants, proved |
| `Photogram` | both servers together: `ContentServer` with `AuthConnection` in the place of its environment, and the database sessions they share |
| `PhotogramProofs` | that each server remains within its own model, and the invariants of the two together, proved |
| `Registration` | `WorkWithPostgreSQL::addNewUser` and the other writers of `users`, `profile_picture` and `friends`, by concurrent threads |
| `RegistrationProofs` | its invariants, proved |
| `SignIn` | `checkPassword`, the tokens of `JwtToken`, the refresh cookie, over a bounded clock |
| `SignInProofs` | invariants and action properties of `SignIn`, proved |
| `UrlParser` | the loop of `Request::URLParser` and `FormRequest::URLParser`, character by character |
| `UrlParserProofs` | that no parameter spills into another and that queries are read back, proved for texts of every length |
| `FormParser` | `FormData` and `FormDataParser`: the parsers of multipart forms, part by part |
| `FormParserProofs` | its invariants, proved for forms of any number of parts |
| `MC*` | symmetry definitions for TLC |


## 1. Inventory

### Content server (one thread)

`ClientAndServer.cpp:12-37` calls `io_context::run` on one thread, so a handler
runs to its end before the next one starts. An exception that leaves a handler
leaves `run` and `main` returns.

| component | state | operations | what is hard |
|---|---|---|---|
| `TcpServer` | the acceptor | `start_accept`, `handle_accept` | must re-arm after every outcome |
| `TcpConnection` | socket, request, one `AnotherServerConnection`, at most one `DBclient` | `start`, `handleRead`, `handleRequest`, two callbacks, `handleWrite` | sessions opened inside and outside `try`; a status overwritten; life time of the object |
| `AnotherServerConnection` | resolver, socket, `callback_` | `checkAccesstoken`, `on_resolve`, `on_connect`, `on_write`, `on_read` | errors that reach nobody; a reference cycle; exceptions after the work is done |
| `DBclient` | a database session | `addNewPost`, `delPostById`, `likeClicked`; `getPostsList`, `getPostsListById`, `getPostPhotoById` | several statements per call, compensation, redundant data (`like_count`), NULL |
| texts | none | `FormRequest`, `FormResponse`, `FormDataParser` | malformed input; positions kept from one parameter to the next |

*Interaction.* `handleRequest` opens a session (GET) and calls
`checkAccesstoken`, which stores a lambda in `callback_` and asks the auth
server; `on_read` calls the lambda with a user id or one of three error strings;
the lambda calls `DBclient` and starts the answer.

*Correct means:* the shown number of likes is the number of likes; nothing
refers to a post that is gone; only the author removes a post; a status tells
what happened; effects belong to the user the token proves; the server goes on
listening; an answer of the auth server reaches the client; a question to it
does not wait for ever.

### Auth server (one thread per client)

| component | state | operations | what is hard |
|---|---|---|---|
| `MyServer` | listening socket | `run`, `waitForNewConnection`, `threatForSomeSocket` | detached threads: an exception in one ends the process |
| `WorkWithClient` | receive buffer `request`, socket, database session | `run`, `checkAccesstoken` | TCP segmentation; the buffer after a refusal; what is parsed outside `try` |
| `HttpParser`, `Request`, `FormData` | none | `parse`, `URLParser`, ... | incomplete and malformed input |
| `JwtToken`, `HashTools` | none | create and check tokens, hash | two kinds of tokens told apart by their lifetime only |
| `WorkWithPostgreSQL` | a database session | `addNewUser`, `updateProfileData`, `makeFriend`, `checkPassword`, ... | registration is three transactions and an undo of two more |
| `ResponseSender` | none | `sendAnswerOK`, `sendError`, ... | -- |

*Correct means:* a registration answered with 200 is complete; one answered with
an error leaves nothing behind, as far as it can; two users never share a
picture; a reply belongs to the request at hand and says what became of it; a
request takes effect once, in order and under its own token; every request is
answered or the connection visibly ends; one client does not end the service of
the others; who has registered can log in, and a login ends when it should.

### The two together

The content server is a client of the auth server: every guarded request opens a
connection, hence a thread and a database session there, while the content
server holds a session (GET) or opens one afterwards (POST). Both draw on the
`max_connections` of one database. *Correct means:* the auth server gives the
content server only what `on_read` is ready for, an id only to the request whose
token it is, and an answer to every question.

`PROJECT.json` lists each component with its status, and every hazard with its
line and the properties aimed at it.


## 2. The modules and the code

### ContentStore

State: `db` the committed tables, `work` the open transaction's view of them,
`stage` the next statement, `call` the call's operation and arguments, `outcome`
how the last call ended, `spentPosts`/`spentPhotos` the serial values drawn
(a sequence is not rolled back), `held` the photo ids that clients have read in
a list of posts (`getPostsList`, `DBclient.cpp:128-181`).

| action | code in `content_server_src/DBclient/DBclient.cpp` |
|---|---|
| `likeClicked`, `isExists`, `addLikeFirst/Second`, `delLikeFirst/Second` | 263-314 |
| `delPostById`, `isExistPost`, `delFromLikes`, `delFromPosts` | 38-85 |
| `addNewPost`, `addNewPostPhoto`, `addNewPostInformation` | 87-126 |
| `delPostPhotoById` | 22-36 |
| `BadRequest`, `Commit`, `CommitInDoubt`, `Throw`, `Kill` | `work::commit`; a `pqxx::failure` at any statement; the end of the process |
| `getPostsList`, `getPostPhotoById` | 128-181, 238-261 |

Two peculiarities are modelled as the code has them. `addNewPost` calls
`delPostPhotoById` in its catch block. That function's SQL runs `post_photos` and
`WHERE` together, and it then executes a statement under a name that it has not
prepared: it always throws, from within the catch block, so the caller is told
"500" either way and the clean-up never deletes anything. (A correct clean-up
would be worse: after a commit in doubt it would delete the photo of a live
post; `delPostPhotoByIdRepaired` shows this.) And `like_count` of a new row is
not set by the INSERT: it is the column's default, which the repository does not
show, so `InitialLikeCount` is a constant, NULL or 0. The counter statements
compute `COALESCE(like_count, 0) + 1` and `like_count - 1`; the model has both, over
`Nat \cup {Null}`.

*Not in the repository* and modelled from the use the code makes of it: the
schema. Assumed: `likes.post_id` references `posts`; serial keys; one row of
`likes` per post and user (`isExists` is asked before every insert and there is
one caller). The label `END CASE` at `DBclient.cpp:49` needs PostgreSQL 14 or later,
which is assumed.

### ContentServer

State: `conn[c]` an object per connection (phase, request, the auth server's
reply, whether `callback_` is set, whether it holds a session, the status
answered, whether the tables changed for it), `ended` what ended
`io_context::run`, and the board.

A handler is one step. A call of `DBclient` within it is one step of
`PostBoard`, or none when the call threw; the latter is justified by the proved
theorem `ImplementsBoard`. Targets with the same handling are one.
`Throws` names the calls that may throw: opening a session (`connect`),
`socket::shutdown` (which throws when the peer has gone), `at("id")`. `others` is
the number of sessions that others hold of the same database: with it a
connection can fail though this server alone has not reached the limit.

| action | code |
|---|---|
| `handle_accept` | `TcpServer.cpp:8-26`, `TcpConnection.cpp:10-18` |
| `handleRead`, `handleReadError` | `TcpConnection.cpp:23-44, 147-152, 246-257` |
| `on_resolve`, `on_connect`, `on_write`, `on_readRefused`, `on_readError`, `on_readNoId` | `AnotherServerConnection.cpp:16-103` |
| `callbackGet` | `TcpConnection.cpp:44-146` |
| `callbackPost`, `callbackPostCaught`, `callbackPostUnknown` | `TcpConnection.cpp:152-232` |
| `handleWrite` | `TcpConnection.cpp:234-245` and the lambdas after GET and POST |
| `AuthAnswers` | external: the auth server or the network; replaced by the auth server in `Photogram` |
| `OthersConnect` | external: the other clients of the database |

### AuthConnection

State: `conn[c]` a connection: its thread's stage, the stream of requests the
client has sent, the positions `from` and `to` between which the string `request`
lies, the token the request at hand presented, whether the database session
works; and what happened so far: `replies`, `done` (effects, with the token they
were done under), `dropped` (requests cleared away without a reply, and why).
`expired` are the tokens no longer valid, `ended` what ended the process.

A request is its target, its token, whether it has an `Origin`, and its `flaw`: a
query with an `&` where `URLParser` wants none or a body that is not what the
target takes (`content`), or a `Content-Length` that is no number (`length`).
Without an `Origin` anywhere in the buffer a request is taken for bad HTTP
(`NoOrigin`); a flaw makes `parse` throw, outside every `try` (`Unparsable`,
`check_is_full_request`). A POST with no `Content-Length` at all and a negative length
are not modelled.

A call of the database that returns need not have changed anything: an UPDATE or
a DELETE that matches no row returns as well, and `exec_prepared0` does not tell.
`succeed` therefore has both outcomes, except for `registration` and `makeFriend`,
whose INSERTs have inserted when they return (`Inserting`, `Matching`).

A request has four parts: fewer than seven bytes, the rest of its first line, its
headers, its body. TCP cuts between any two; a finer cut makes no difference, as
`parse` asks for seven bytes, an empty line and `Content-Length` only.

| action | code in `auth_server_src/` |
|---|---|
| `waitForNewConnection`, `run` | `MyServer.cpp:50-84`, `WorkWithClient.cpp:9-28` |
| `recv`, `recvEnd`, `recvError` | `WorkWithClient.cpp:30-35, 339-342`; an error of `recv` becomes a huge length and `append` throws |
| `notFull`, `discard`, `parseThrows` | 38-47 by the results of `HttpParser.cpp:73-257` |
| `admit`, `refuse` | 104-107, 129-132, 152-155, 178-185 with `checkAccesstoken`, 345-360 |
| `answer`, `succeed`, `fail`, `inDoubt` | 49-335: every branch and its catch block as status and, where a row was matched, effect; then `request.clear()`, 337 |
| `send`, `close`, `expire` | external: the client, and time |

A refused request is not cleared (`continue` skips 337): it stays at the head
of `request` and is parsed again with every later `recv`. Headers are searched
in the whole buffer (`Request.cpp:38-45`), so a request without a token is given
that of one behind it.

### Photogram

`conn`, `ended` and the board are `ContentServer`'s, `thread`, `expired` and
`authEnded` are `AuthConnection`'s, both by `INSTANCE`; `visitors` counts the auth
server's other clients, who take a session each (`visit`, `leave`) and any of whom may
end the process, by what `parse` throws at or by a reset (`visitorEnds`,
`WorkWithClient.cpp:30-38`). `thread[c]` is the auth server's side of the question
that `conn[c]` puts. Connecting, writing and closing are joint steps
(`on_connect`, `on_write`, `on_read`), a reply is delivered by the step that sends it
(`AuthStep`), and a session is opened while `Free > 0`. The connection object is
closed by `on_read` after an id and after an error, but not after a refusal
(`AnotherServerConnection.cpp:60-103`).

### SignIn

State: `rows` of `users` (email and password only), `works`, whether a call of the
database returns or throws, `now`, and of one client: who is signed in (`id`), `since`
when and when last `renewed`, the expiry of its `refresh` token, its last `access` token,
the cookie and the token `carried` in it, the last `answer`. `checkAccessToken` and
`checkRefreshToken` accept the same tokens, so the client presents any of those as
either (`Presentable`). Whatever goes wrong in `checkPassword`, a failing database
included, is a wrong password to the client. An email is an address and a spelling: `getHashPassword`
compares capitals, the key `users_email_key` may or may not (`KeyIgnoresCase`).

| action | code in `auth_server_src/` |
|---|---|
| `login` | `WorkWithClient.cpp:60-81`, `WorkWithPostgreSQL.cpp:184-212`, `JwtToken.cpp:5-27` |
| `getNewToken` | `WorkWithClient.cpp:189-203`, `ResponseSender.cpp:27-41` |
| `checkAccesstoken` | `WorkWithClient.cpp:345-360`, `JwtToken.cpp:28-42` |
| `addNewUser`, `deleteRow`, `updateProfileData`, `updateProfilePassword` | `WorkWithPostgreSQL.cpp:214-240, 256-267, 445-512` |
| `Turn`, `Tick` | external: the database fails and recovers, and time |

### UrlParser and FormParser

`UrlParser` runs the loop over a text: `p`, `properStart`, `separator` are its
variables, an action per kind of character. The two copies in the code differ
only in where they start, so `start` is part of the initial state; texts are all
those up to a length, and all query strings a browser would write.

`FormParser` abstracts a form to its parts (name, file or field, whether the
last delimiter is there) and extracts part numbers instead of bytes. Three
parsers: `FormData::parse` of a registration (with `photoAfterPassword`, `addPhoto`,
`field`), `FormData::parsePhotoOnly`, and the content server's
`FormDataParser::getContent`. `photo_type` in `addPhoto` is a view of a string that
may be gone when it is read; it is then any type (`Garbage`).

### Registration

State: the tables (`pictures` says whose picture a row of `profile_picture` holds),
`worker[w]` the registration a thread works on (its next
transaction, and the ids it has to undo), `spent` serial values, `acked` users
whose registration was answered with 200, `leftBehind` rows which a fault or a
reference kept from being undone.

| action | code in `auth_server_src/WorkWithPostgreSQL.cpp` |
|---|---|
| `registration`, `Catch` | 282-304 and `WorkWithClient.cpp:82-99` |
| `addProperties`, `addNewPhoto`, `connectPropertiesAndPhoto` (and `...Throws`) | 214-240, 94-115, 242-254 |
| `deletePhoto`, `deleteRow` (and `...Fails`) | 269-280, 256-267 |
| `updateData`, `updatePhoto`, `makeFriend`, `deleteFriend` | 466-496, 417-443, 362-374, 376-388 |
| `Terminate` | `MyServer.cpp:81-84`: an exception leaves a detached thread |

Each transaction is one step: it commits, rolls back, or is in doubt (committed,
but the confirmation was lost and libpqxx threw). Whether the tables have
foreign keys decides whether the undo can fail for another reason than a fault;
`foreignKeys` never changes and takes both values. The unique keys are
those the code names in its error handling (`users_nickname_key`,
`users_email_key`); email behaves as the nickname does.


## 3. Runs

A passing run finds no state or step that breaks its properties. For each
property there is a mutant: a named plausible slip in one modelled definition
(for example `ThrowSwallowed`, `deletePhotoOnly`), under which TLC must find the
property violated in the same run. The slips stand next to what they change,
marked "A possible slip".

| run | instance | properties | what it shows |
|---|---|---|---|
| `content_store` | 2 users, 2 posts, 3 photos, `like_count` NULL at first | `LikeCountExact`, `NoOrphanLikes`, `PhotosFetchable`, `AnswerTellsTruth`, `OnlyOwnRows`, `BoardSpec`, `TypeOK` | every interruption of every call leaves the tables consistent and the answer truthful; the store implements `PostBoard` |
| `content_server` | 2 users, 1 post, 3 objects, 2 sessions, all three calls may throw | `AlwaysListening`, `StatusTellsTruth`, `SessionsEarned`, `EffectsAuthorised`, `TypeOK` | whatever overlaps and throws: effects are authorised and at most once, statuses are truthful, and only requests that need a session cost one |
| `content_server_settles` | 1 user, no posts, 3 objects, nothing throws | `Settles`, `OnlyGetDiesOfSessions` | answers of the auth server are passed on to clients; a database that is well ends the server only by a GET that finds every session taken |
| `registration` | 2 threads, 2 nicknames, 3 users, 2 pictures, with and without foreign keys, all faults | `AckedComplete`, `ResidueExplained`, `PictureOwn`, `TypeOK` | what concurrent and interrupted registrations leave behind, and that nobody's picture is overwritten by another |
| `registration_answered` | 2 threads, 2 nicknames, 2 users, 2 pictures, no foreign keys, no crash | `Answered` | registrations end |
| `auth_connection` | 1 client in lock-step, 3 requests out of 18, with and without an `Origin` and with every flaw, 2 tokens, all faults | `RightAnswer`, `AnswerTellsTruth`, `RefusedForGood`, `WaitsExplained`, `OnlyInputEnds`, `TypeOK` | answers belong to their requests and tell the truth; which waits never end; what ends the process |
| `auth_connection_pipelined` | 1 client that does not wait, 3 requests out of 4, 2 tokens, no faults | `InOrder`, `OwnToken`, `Handled` | what takes effect, in which order, under whose token; everything is answered, cleared away or behind a refused request |
| `photogram` | 2 users, 3 objects, 3 sessions, no visitors | `ContentServerSpec`, `QuestionsClosed`, `AuthEndsOfQuestion` | the auth server is an environment that `ContentServer` allows for; which questions end it, and which keep a session |
| `photogram_awaited` | 1 user, 1 post, 2 objects, 3 sessions, up to 2 visitors, who may end the auth server | `Awaited`, `SessionsReturn` | a question waits for ever only if its first piece was too short; the sessions of confirmed and lost questions come back |
| `sign_in` | 2 rows, one of them user 18's, 2 addresses in 2 spellings, lives 4 and 1, clock up to 8, a database that fails and recovers | `LoginLasts`, `LoginExplained` | how long a login admits; what keeps a user from logging in |
| `url_parser` | texts of up to 6 characters of 6 kinds; up to 3 parameters, names and values of up to 2 characters | `RoundTrip`, `NoSpill` | well-formed queries are read back; what malformed ones become |
| `form_parser` | up to 4 parts of 3 names and 2 file names | `FieldsMean`, `PhotoMeans`, `FailureExplained` | what is extracted from a form, and which forms fail |

*Why the bounds are enough.* `content_store`: two users give an author and a
stranger, and a count of two; the calls run one at a time, so a third user adds
nothing but a larger count; three photo ids allow a photo whose post failed, one
whose post was removed and one in use. `content_server`: three objects are one that
listens and two whose requests overlap; two sessions let one GET succeed, a
second one fail at either of its two openings, and a GET and a POST compete.
Objects with `callback_` set are never freed, so `Conns` bounds the requests of
a behaviour; the initial board may have a post so that these few requests
reach every branch. `registration`: two threads are enough for a registration and its competitor,
and the third user id lets both try again; of two pictures one can be linked while
another is left behind.
`auth_connection*`: the buffer couples a request with those right before and
behind it, so three in a row show every pair with something after it; threads
share only `expired`, `ended` and the limit on sessions, and overlap in `photogram`.
`photogram`: of the three objects one listens and two have questions; three
sessions let one GET be answered (it needs three at once) or two requests
compete for what is left. A visitor would take a session as a third question does; what
ends the auth server without one is the question of `AuthEndsOfQuestion`. There are no posts in it, as the steps on the board do
not depend on where the id comes from; `content_server` has them.
`photogram_awaited`: one question, which needs all three sessions at its end, and two visitors that
compete with it for them.
`sign_in`: eight ticks are two lives of a refresh token, so a renewal at its very
end and the access token after it are in reach; two rows suffice for one
address in two spellings. `url_parser`: a position that is wrong after a parameter
shows in the next one; six characters hold two parameters with both signs. `form_parser`:
a picture, a password, and a part before and after them.

*Deadlock.* Off in `content_server*`, `auth_connection*` and `photogram*`: after the
end of a process, or with every connection used up, nothing happens; off in
`url_parser` and `form_parser`, which end, and in `sign_in`, whose clock does. On in
`content_store` and `registration*`.

*Fairness.* `ContentServer`: weak fairness of each connection's handlers:
`io_context::run` runs every handler that is ready, and an asynchronous operation on
the auth server's name or socket completes, if only with an error. There
is none for clients: an `async_write` to one that reads nothing may never
complete, so `handleWrite` is not fair and `Settles` ends where the answer is started
(`replying`). Nor is there any for the auth server: `AuthAnswers` need not happen, and
the code has no timeout (`AnotherServerConnection.cpp:44`), so `Settles` promises
nothing until the auth server has answered. `Registration`: weak fairness of
each thread's next step: the operating system schedules every thread, and the
database answers or the connection to it breaks off. `AuthConnection`: weak fairness
of each connection's thread, for the same reason, but for the answers with lists and
photos (`Unassisted`): `send` may wait for a client that reads nothing. The other answers are
short enough for the buffer of the socket. What has been sent arrives, but in pieces of any
size; clients need not send, and tokens need not expire.
`Photogram`: both of these, for the handlers that deal with the auth server and the thread of each
question. Nothing is assumed of clients and visitors. The other modules state none.

### What the models say about the code

These are properties that hold of the code as it is; some describe weaknesses a
reader should know of.

- `SessionsEarned`, `OnlyGetDiesOfSessions`: `callback_` holds a
  `shared_ptr` to the object that owns it
  (`AnotherServerConnection.cpp:8`) and is never reset (`Released`), so a database session
  once opened for a request stays open until the process ends. What the server
  can rely on is that only GETs, and POSTs with a good token, spend sessions. A GET that
  finds none left throws outside `try` (`TcpConnection.cpp:37, 73`) and ends the server; a
  POST is answered 500.
- `SessionsReturn`, `QuestionsClosed`: the auth server's session of a question comes
  back when the content server closes its end, after an id and after an error. A
  refused question is closed by neither side: while both servers run, that is the only way a
  question's session is kept.
- `AuthEndsOfQuestion`, `OnlyInputEnds`: a request without a token, to either
  server, ends the auth server, because `parse` is called outside `try`
  (`WorkWithClient.cpp:38`); so do, sent to the auth server itself, a query with an `&`
  before any `=`, a body that is no JSON or no form, a `Content-Length` that is no number, and
  a reset. Tokens that are refused, however, and a database that fails end nothing.
- `AnswerTellsTruth` (of `AuthConnection`): 200 means that a registration or a friendship is
  stored; to `update` and `deleteFriend` it is also said when no row matched.
- `RefusedForGood`: a refused request stays at the head of the buffer and is parsed
  again with all that follows, but it is never admitted by a later request's token.
- `WaitsExplained`, `Awaited`: a request of which fewer than seven bytes arrive
  first is cleared away and never answered, and so is one without an `Origin`. The content
  server has no timeout for its question.
- `OwnToken`: only requests read together can mix up their tokens.
- `LoginLasts`: a login lasts for the life of the refresh token, and beyond it as long as
  the client renews by its access tokens, which `checkRefreshToken` takes too
  (`JwtToken.cpp:43`): without end, but with no pause longer than an access token's
  life. Neither a changed password nor a deleted row ends it sooner, but for renewals,
  which need the row. The cookie is dated anew at every renewal and the token in it is
  not, so a browser goes on presenting an expired token.
- `LoginExplained`: nobody can log in without the row of user 18; a database that
  fails is answered as a wrong password; and if the key on emails tells letters apart,
  two users whose addresses differ in their letters' case lock each other out.
- `NoSpill`: positions are not reset after an `&`; a parameter
  without `=` is refused only if it is the first. `RoundTrip` is about queries in which every
  parameter has an `=`, as a browser writes them, and says nothing of the others.
- `PhotoMeans`: the type recorded with a picture is that of the very part stored,
  except where `photo_type` is a view of nothing, which may be anything (`Garbage`).
- `FailureExplained`: a registration with a field after the password, or without
  a closing delimiter, ends the process; without a file after the password the
  parser reads an element of an empty map.
- `Settles`: a lost question to the auth server leaves the client connected and
  unanswered (phase `stranded`).
- `StatusTellsTruth`: the 400 meant for a stranger's `deletePost` is overwritten
  by 500 (`TcpConnection.cpp:206-212`, a missing `else`); today a 400 to a POST always
  comes from the auth server. What `StatusTellsTruth` asks is that 400 and 401 are
  said of nothing that was done. A POST to an unknown target is answered 200.
- `PhotosFetchable`: removing a post keeps its photo, so an id from an older
  list stays valid; photos are never deleted.
- `ResidueExplained`: an unfinished registration leaves rows behind after a
  fault, and also, if `friends` references `users`, when somebody befriends the
  new user before the undo.


## 4. Proofs

`ContentStoreProofs` proves, for every set of users, posts and photos:

| theorem | statement |
|---|---|
| `StoreInvariant` | `Spec => []IndInv` |
| `TypeCorrect`, `LikeCounterExact`, `LikesHavePosts`, `PhotosStay` | the four invariants of `content_store` |
| `AnswersTruthful`, `OwnRows` | its two action properties |
| `ImplementsBoard` | `Spec => BoardSpec`, the refinement of `PostBoard` |

*From which assumptions.* `UsersAssumption` (users are a finite set, so that
their likes can be counted), `NullAssumption` (NULL is no user, id or number),
`LikeCountAssumption` (a fresh counter is NULL or 0). Posts and photos need not
be finite.

*Along which argument.* None of the invariants is inductive: they speak of `db`,
and `Commit` puts `work` there. `IndInv` says of the open transaction exactly
what it contains: `work` is `db` with the statements executed so far applied
(so it is `db` with one like too many or with a like missing at `addLikeSecond`
or `delLikeSecond`, and so on), and `db` itself is consistent. The lemmas
`LikedEffect`, `UnlikedEffect`, `RemovedEffect` and `AddedEffect` show that a
complete sequence of statements keeps tables consistent (from `OneMoreLiker` and
`OneLikerLess`, facts on cardinality); `FinishedEffect` collects them for
`Commit`; `ReturnInv` covers each way a call may end, and `NextInv` goes through the actions.
For `ImplementsBoard`, `TablesChangeAtCommit` shows that every step other than a
commit is a stutter, and each commit is `Publish`, `Remove` or `Toggle`.

`SignInProofs` proves, for every set of users, addresses, spellings and passwords,
all lives of tokens and whatever the key on emails does:

| theorem | statement |
|---|---|
| `LoginInvariant` | `Spec => []LoginInv` |
| `LoginsLast` | `LoginLasts`, an action property of `sign_in` |
| `LoginsExplained` | `LoginExplained`, its other one |

*From which assumptions.* `LifeAssumption` (lives are natural numbers, an access token's the
shorter) and `KeyAssumption` (the key ignores case or does not).

*Along which argument.* `LoginInv` has two parts that different actions keep.
`TokensOK` dates what the client holds: the refresh token ends exactly one life after
`since`, the last access token one of its own after `renewed`, and the token in the cookie is
the refresh token or expires no later than the access token. So whatever is presented as whatever, one of the
two lives admits it. `TableOK` is the unique key;
`WrittenRowUnique` shows once, for all three writers, that a row written under a
free key keeps it. `LoginsExplained` then needs only that two rows with the same
capitals are equal for a key that ignores case.

`RegistrationProofs` proves, for all sets of threads, nicknames and ids, all
faults, with and without foreign keys:

| theorem | statement |
|---|---|
| `RegistrationInvariant` | `Spec => []RegInv` |
| `TypeCorrect`, `AckedUsersComplete`, `ResiduesExplained`, `PicturesOwn` | the four invariants of `registration` |

*From which assumptions.* `FreshNullAssumption`: NULL is no id and no nickname. No set need
be finite.

*Along which argument.* The three properties hold by what threads do not do to each
other's rows, which none of them says. `RegInv` adds it: two
threads never have the same row or picture in hand (`Apart`, as serial values are
drawn once); the row in hand is there, has not been acknowledged and links no picture
but the registration's own (`RowHeld`); no other row links that picture
(`PictureHeld`). So an undo takes away nothing that was acknowledged or belongs to
somebody else. One lemma per action that changes the tables; `QuietStep`
covers all those that leave them alone, and `updatePhoto` is one of these,
since a row links only its own picture.

`ContentServerProofs` proves, for all finite sets of users and objects, every number of
sessions and whatever throws:

| theorem | statement |
|---|---|
| `ContentInvariant` | `Spec => []ContentInv` |
| `TypeCorrect`, `ListensAlways`, `StatusesTruthful` | the three invariants of `content_server` |
| `AllSessionsEarned` | `SessionsEarned`, its fourth |
| `GetsDieOfSessions`, `AllEffectsAuthorised` | the action properties of `content_server_settles` and `content_server` |

*From which assumptions.* `SessionsAssumption` (a number of sessions), `NoUserAssumption`
(nobody is no user), `FiniteAssumption` (users and objects can be counted), and
`RepliesAssumption` (an id is none of the refusals that `on_read` passes in the same
parameter).

*Along which argument.* A handler changes one object. `Moved` says how (the object
stays in order, keeps its session, opens one only if there is one left), one lemma
per handler shows it, and `MovedInv` shows once that such a step keeps the invariant; only
`handle_accept` needs its own (`AcceptInv`). `ObjectOK`, what an object in order is,
relates phase, reply, `callback_`, session and effect: without it a late callback
could find an object that had taken effect already. `OneListens` says "exactly one
listens" by a quantifier, so that no cardinality has to be followed through an
accept. Of all steps only `callbackPost` changes the tables (`BoardSteps`), as the user that the
token proves (`PostFacts`).

`AuthConnectionProofs` proves, for any connections, tokens and subset of the requests,
streams of any length cut anywhere, clients in lock-step and clients that do not wait,
and all faults:

| theorem | statement |
|---|---|
| `AuthInvariant` | `Spec => []AuthInv` |
| `TypeCorrect`, `AnswersRight`, `AnswersTruthful`, `RefusalsFinal`, `WaitsAllExplained`, `InputsOnlyEnd` | the six invariants of `auth_connection` |
| `EffectsInOrder`, `TokensOwn` | the two safety properties of `auth_connection_pipelined` |

*From which assumptions.* `RequestsAssumption` (requests are of the kinds that the
server tells apart), `MaxRequestsAssumption` (a bound on a client's requests, any natural
number), `NoTokenAssumption` (a missing token is none).

*Along which argument.* The properties compare replies and effects with requests by
number, while the code knows only the string `request`. `AuthInv` ties the two
together: what has been answered (`Replied`) or has taken effect (`Performed`) has been
cleared away, with one exception, the refused request that `continue` leaves at the
head of the buffer (`Refusing`). That a refused GET is refused again by every later
`recv` needs `TokenOf` to find the same token in a longer buffer: the search finds the
first token of the buffer, and the stream only grows at its other end
(`Least` gives the first one). For a client in lock-step, a connection is in one of four modes:
`Waiting`, `PostRefused`, `GetRefused`, and `Lost` when the beginning of a request was
cleared away; `WaitsExplained` is read off them.
One lemma per action goes through the modes.

`FormParserProofs` proves, for forms of any number of parts and files and any names:

| theorem | statement |
|---|---|
| `FormInvariant` | `Spec => []FormInv` |
| `FieldsRight`, `PhotosRight`, `FailuresExplained` | the three invariants of `form_parser` |

*From which assumptions.* `NamesAssumption` (there is a field called password),
`BoundsAssumption` (the bounds on parts and files are natural numbers).

*Along which argument.* The properties speak of a parser that has ended, `FormInv` of
every turn of its loop, one conjunct per parser (`Registered`, `PhotoOnly`, `Content`):
the value kept for a name is the latest part of that name among those passed, and
every file kept is a file of the form behind the password (`Picture`). `IsLatest`
says so without a choice; `LatestIs` returns to the properties' `Latest`.

`UrlParserProofs` proves, for texts of every length over any letters and both places
where the copies of the loop start:

| theorem | statement |
|---|---|
| `UrlInvariant` | `Spec => []UrlInv` |
| `NothingSpills` | `NoSpill`, an invariant of `url_parser` |
| `QueryInvariant` | `Spec => []QueryInv` |
| `QueriesRoundTrip` | `RoundTrip`, the other one |

*From which assumptions.* `NumbersAssumption` (lengths, starts and the number of
parameters are natural numbers), `LettersAssumption` (`?`, `=`, `&` and the blank are no
letters), `NamesAssumption` (names and values are texts of letters, of any length:
a browser escapes the rest).

*Along which argument.* For `NoSpill`: `properStart` is behind the last `?` or `&` that was passed
(`NameBegins`), `separator` is the last `=` (`Separates`). If the parameter at hand has a sign of its
own, the separator is therefore behind the start of the name and no `&` lies between
the two or behind the separator (`StoredClean`): no count of `substr` wraps below
zero. `NeverOut` shows that no `substr` begins behind the end, whatever the text.

For `RoundTrip` there are two steps. The first is about the text: `Joined` is defined by
recursion on the number of parameters, and the theorems of the library on such functions take
operators as parameters, which no prover here can instantiate. That every set of numbers has a
least element (`Least`, from `WellFoundedInduction`) needs none: it yields an induction over
sets (`Induction`), by which a function with the recursive equation exists (`JoinsExists`), is `Joined`
(`JoinedJoins`), and makes texts that begin with what fewer parameters make
(`JoinedIs`, `JoinedBegins`). `Layout` is the result: in a text of any length, the k-th name lies
at `From(k)`, its sign at `SignOf(k)`, its value behind it up to `EndOf(k)`, where `&` or the blank is. The
second is about the loop: `QueryInv` says that it is in the target's beginning or in
some parameter k, the name begun at `From(k)` and, behind the sign, the
separator at `SignOf(k)`; and that the parameters before k have been read (`Reads`), a
name with the value of the last parameter that has it. While the loop is in a name,
`separator` still is the sign of the parameter before: the invariant does not speak of it
there, and `PairCut` needs it only where the parameter ends (`ReadsOne`).

`PhotogramProofs` proves, for all finite sets of users and objects, every number of sessions
and visitors, whatever throws or fails in either server:

| theorem | statement |
|---|---|
| `LinkedInvariant` | `Spec => []LinkedInv` |
| `ContentServerKept` | `Spec => ContentServerSpec`: the auth server is an environment that `ContentServer` allows for |
| `AuthServerKept` | the content server is a client in lock-step as `AuthConnection` allows for; beyond its steps, only another client may end the auth server |
| `OnlyQuestionsEnd` | `AuthEndsOfQuestion` of `photogram`, with visitors too |
| `QuestionsAllClosed` | `QuestionsClosed` of `photogram` |

*From which assumptions.* `SessionsAssumption`, `NoUserAssumption`, `FiniteAssumption` and
`RepliesAssumption`, the same four as for `ContentServer`. Those of `AuthConnection`
follow from the questions that the content server puts (`AuthAssumptions`).

*Along which argument.* Every step of `Photogram` is a step of each server or leaves it
alone (`Both`), so the theorems of `ContentServerProofs` and `AuthConnectionProofs` hold here too and are
used through `INSTANCE`. What they cannot say is how an object
and the thread of its question belong together: `LinkedInv` says that a thread exists
only for a question, has the object's own token, has been sent at most that one
request, and that a reply is where both sides agree it is (`QuestionOK`), whose turn it
is (`Open`, `Closing`), and that an object in the phase of an answered question has a
thread that has answered. `ContentServerKept` needs this where `on_read` is ready for
particular replies only, `OnlyQuestionsEnd` to trace the end of the auth server to an
object that still waits for its answer, and `QuestionsAllClosed` to know that an object past its
question has closed the connection unless it was refused. A visitor that ends the auth server is
no step of `AuthConnection`, whose invariant does not speak of why it ended there:
`AuthLinked` is what remains of it then.

*Only model-checked:*

- Liveness: `Settles`, `Answered`, `Handled`, `Awaited`, `SessionsReturn`. TLAPS does not handle fairness
  and ENABLED here.


## 5. Plan

Every part of the plan's modelling is built, and every safety property that a run
checks is proved. Left is to shorten the longest proofs
(`AuthConnectionProofs`, `PhotogramProofs`) where their lemmas overlap.


## 6. Not modelled

- Paging, sorting and JSON of the lists; text of requests and responses, except
  the status: data that no property tells apart.
- Signing (`jwt-cpp`) and password hashing (`libsodium`): libraries. The models assume
  that a token proves its user and a hash its password.
- The resolver and sockets below the handlers' error codes: libraries.
- `ResponseSender` and `FormResponse`: they build text and send it once. Statuses and
  the cookie's life are modelled where the caller is; headers and bodies are not.
- The bytes of a multipart form inside its parts, and JSON bodies beyond whether they
  parse.
