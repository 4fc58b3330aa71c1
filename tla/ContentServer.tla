---------------------------- MODULE ContentServer ----------------------------
(***************************************************************************)
(* The content server: TcpServer, TcpConnection and the                    *)
(* AnotherServerConnection each of them owns.  All handlers run on the one *)
(* thread inside io_context::run, so a handler is one step; what           *)
(* interleaves is the handlers of different connections, the auth server's *)
(* answers and the clients.                                                *)
(*                                                                         *)
(* A request of DBclient runs inside one handler.  It is one step of       *)
(* PostBoard, which ContentStore implements statement by statement, or no  *)
(* step when it threw; a commit in doubt throws although it took place.    *)
(*                                                                         *)
(* An exception that leaves a handler leaves io_context::run, and main     *)
(* returns: ended says why, and the connection objects stay as they were.  *)
(***************************************************************************)
EXTENDS Integers, FiniteSets

CONSTANTS
    Users,        \* ids of registered users
    PostIds,      \* keys of table posts
    Null,         \* no value
    Conns,        \* memory for TcpConnection objects; bounds those never freed
    MaxSessions,  \* sessions the database grants
    Throws        \* calls that may throw: "connect", "shutdown", "at(id)"

ASSUME SessionsAssumption == MaxSessions \in Nat
ASSUME NoUserAssumption == Null \notin Users
ASSUME FiniteAssumption == IsFiniteSet(Conns) /\ IsFiniteSet(Users)

VARIABLES
    conn,         \* the TcpConnection objects
    ended,        \* "no" while io_context::run runs, then what ended it
    others,       \* sessions that others hold, the auth server above all
    author, fans, shown   \* the tables, see PostBoard

board == <<author, fans, shown>>
vars == <<conn, ended, others, author, fans, shown>>

Board == INSTANCE PostBoard

(* Targets with the same handling are one: "read" stands for the two lists *)
(* and the photo, "unknown" for everything that no branch matches.         *)
Requests ==
    [method : {"OPTIONS", "OTHER"}, target : {"unknown"}, post : {Null}, token : {Null}]
    \cup [method : {"GET"}, target : {"getId", "read", "unknown"},
          post : {Null}, token : Users \cup {Null}]
    \cup [method : {"POST"}, target : {"addNewPost", "unknown"},
          post : {Null}, token : Users \cup {Null}]
    \cup [method : {"POST"}, target : {"deletePost", "likeClicked"},
          post : PostIds, token : Users \cup {Null}]

NoRequest == [method |-> "none", target |-> "unknown", post |-> Null, token |-> Null]

(* What on_read makes of the auth server's answer: an id, one of the three *)
(* strings it calls back with instead, a body without "id", or an error.   *)
Refusals == {"unauthorized", "bad_request", "internal_server_error"}
Replies == Users \cup Refusals \cup {"none", "no_id", "lost"}

(* on_read passes ids and refusals in one parameter; an id is a number.    *)
ASSUME RepliesAssumption == Users \cap (Refusals \cup {"none", "no_id", "lost"}) = {}

(* "accepting" and "reading" wait for the client, "resolving", ...,        *)
(* "awaiting" for the auth server, "replying" for the response to be sent. *)
(* A "stranded" object has no handler pending and its client is connected. *)
Phases == {"none", "accepting", "reading", "resolving", "connecting", "asking",
           "awaiting", "replying", "closed", "stranded", "crashed"}

Objects == [phase : Phases,
            req : Requests \cup {NoRequest},
            reply : Replies,
            callback : BOOLEAN,  \* callback_ is set: it holds this very object
            dbclient : BOOLEAN,  \* holds a database session
            status : {0, 200, 204, 400, 401, 500},
            applied : BOOLEAN]   \* the tables have changed for this request

NoObject == [phase |-> "none", req |-> NoRequest, reply |-> "none",
             callback |-> FALSE, dbclient |-> FALSE, status |-> 0,
             applied |-> FALSE]

-----------------------------------------------------------------------------
Running == ended = "no"

Sessions == Cardinality({c \in Conns : conn[c].dbclient})

Become(c, o) == conn' = [conn EXCEPT ![c] = o]

(* The last handler that referred to the object is over.  callback_ keeps  *)
(* a reference to the object that owns it and is never reset, so only an   *)
(* object that never asked the auth server is destroyed.                   *)
Released(o, phase) == IF o.callback THEN [o EXCEPT !.phase = phase] ELSE NoObject

(* The end of a handler: normally, or in a socket shutdown that throws. *)
Finish(c, o) ==
    \/ Become(c, o) /\ UNCHANGED ended
    \/ "shutdown" \in Throws /\ Become(c, o) /\ ended' = "shutdown"

(* An exception leaves the handler that works on o. *)
Crash(c, o, why) == Become(c, [o EXCEPT !.phase = "crashed"]) /\ ended' = why

(* Opening a session: the constructor of DBclient. *)
CanConnect == Sessions + others < MaxSessions
MayNotConnect == ~CanConnect \/ "connect" \in Throws

-----------------------------------------------------------------------------
(* TcpServer. *)

(* The tables outlive the process: it may start with a post on the board.  *)
Init ==
    /\ \E c \in Conns :
          conn = [d \in Conns |-> IF d = c THEN [NoObject EXCEPT !.phase = "accepting"]
                                           ELSE NoObject]
    /\ ended = "no"
    /\ others = 0
    /\ author \in [PostIds -> Users \cup {Null}]
    /\ fans \in SUBSET ({p \in PostIds : author[p] # Null} \X Users)
    /\ shown = [p \in PostIds |-> Cardinality(Board!FansOf(p, fans))]

(* A possible slip: after a failed accept nothing listens any more. *)
handle_accept_once(c, error) ==
    /\ Running /\ conn[c].phase = "accepting"
    /\ IF error THEN Become(c, NoObject)
       ELSE \E n \in Conns : /\ conn[n] = NoObject
                             /\ conn' = [conn EXCEPT
                                   ![c].phase = "reading", ![n].phase = "accepting"]
    /\ UNCHANGED <<ended, board>>

handle_accept(c, error) ==
    /\ Running /\ conn[c].phase = "accepting"
    /\ \E n \in Conns :
          /\ conn[n] = NoObject
          /\ conn' = [conn EXCEPT ![c] = IF error THEN NoObject
                                         ELSE [@ EXCEPT !.phase = "reading"],
                                  ![n].phase = "accepting"]
    /\ UNCHANGED <<ended, board>>

-----------------------------------------------------------------------------
(* TcpConnection, up to the question to the auth server. *)

(* A possible slip: the POST branch opens its session early, as GET does.  *)
AskingWithSession(o, r) == [o EXCEPT !.req = r, !.callback = TRUE,
                                     !.phase = "resolving", !.dbclient = TRUE]

(* handleRequest(): what becomes of the object that has read request r. *)
Asking(o, r) == [o EXCEPT !.req = r, !.callback = TRUE, !.phase = "resolving",
                          !.dbclient = (r.method = "GET")]

handleRead(c, r) ==
    /\ Running /\ conn[c].phase = "reading"
    /\ \/ /\ r.method = "OPTIONS"
          /\ Finish(c, [conn[c] EXCEPT !.req = r, !.phase = "replying", !.status = 204])
       \/ /\ r.method = "GET" /\ CanConnect
          /\ Finish(c, Asking(conn[c], r))
       \/ /\ r.method = "GET" /\ MayNotConnect
          /\ Crash(c, [conn[c] EXCEPT !.req = r], "no session")
       \/ /\ r.method = "POST"
          /\ Finish(c, Asking(conn[c], r))
       \/ /\ r.method = "OTHER"
          /\ Finish(c, Released(conn[c], "stranded"))
    /\ UNCHANGED board

(* The client is gone or its request cannot be parsed. *)
handleReadError(c) ==
    /\ Running /\ conn[c].phase = "reading"
    /\ Become(c, Released(conn[c], "closed"))
    /\ UNCHANGED <<ended, board>>

-----------------------------------------------------------------------------
(* AnotherServerConnection. *)

(* The four completion handlers: on error each of them only returns, and   *)
(* callback_, which alone would answer the client, is not called.          *)
Ask(c, from, to) ==
    /\ Running /\ conn[c].phase = from
    /\ \E phase \in {to, "stranded"} :
          Become(c, Released([conn[c] EXCEPT
                       !.reply = IF phase = to THEN "none" ELSE "lost"], phase))
    /\ UNCHANGED <<ended, board>>

on_resolve(c) == Ask(c, "resolving", "connecting")
on_connect(c) == Ask(c, "connecting", "asking")
on_write(c) == Ask(c, "asking", "awaiting")

(* The auth server answers, as it pleases but never with the id of another *)
(* user than the token's, or the connection to it breaks.                  *)
AuthAnswers(c, reply) ==
    /\ Running /\ conn[c].phase = "awaiting" /\ conn[c].reply = "none"
    /\ reply \in Users => reply = conn[c].req.token
    /\ reply = "no_id" => "at(id)" \in Throws
    /\ Become(c, [conn[c] EXCEPT !.reply = reply])
    /\ UNCHANGED <<ended, board>>

(* A possible slip: a broken answer of the auth server is passed on as 502. *)
StatusOfGateway(refusal) == CASE refusal = "unauthorized" -> 401
                              [] refusal = "bad_request" -> 400
                              [] refusal = "internal_server_error" -> 502

StatusOf(refusal) == CASE refusal = "unauthorized" -> 401
                       [] refusal = "bad_request" -> 400
                       [] refusal = "internal_server_error" -> 500

Answer(o, status) == [o EXCEPT !.phase = "replying", !.status = status]

(* A possible slip: callback_ is called for an id only. *)
on_readRefusedSilently(c) ==
    /\ Running /\ conn[c].phase = "awaiting" /\ conn[c].reply \in Refusals
    /\ Become(c, [conn[c] EXCEPT !.phase = "stranded"])
    /\ UNCHANGED <<ended, board>>

(* on_read when the auth server refuses: the client is told. *)
on_readRefused(c) ==
    /\ Running /\ conn[c].phase = "awaiting" /\ conn[c].reply \in Refusals
    /\ Become(c, Answer(conn[c], StatusOf(conn[c].reply)))
    /\ UNCHANGED <<ended, board>>

(* on_read with a transport error: nobody is told. *)
on_readError(c) ==
    /\ Running /\ conn[c].phase = "awaiting" /\ conn[c].reply = "lost"
    /\ Become(c, [conn[c] EXCEPT !.phase = "stranded"])
    /\ UNCHANGED <<ended, board>>

(* json_body.at("id") throws. *)
on_readNoId(c) ==
    /\ Running /\ conn[c].phase = "awaiting" /\ conn[c].reply = "no_id"
    /\ Crash(c, conn[c], "at(id)")
    /\ UNCHANGED board

-----------------------------------------------------------------------------
(* The callbacks of TcpConnection, called by on_read with the user's id. *)

HasId(c) == Running /\ conn[c].phase = "awaiting" /\ conn[c].reply \in Users

(* The second session is opened before the first, opened by handleRequest, *)
(* is given back.                                                          *)
callbackGet(c) ==
    /\ HasId(c) /\ conn[c].req.method = "GET"
    /\ \/ MayNotConnect /\ Crash(c, conn[c], "no session")
       \/ /\ CanConnect
          /\ \E status \in CASE conn[c].req.target = "getId" -> {200}
                             [] conn[c].req.target = "read" -> {200, 500}
                             [] conn[c].req.target = "unknown" -> {400} :
                Finish(c, Answer(conn[c], status))
    /\ UNCHANGED board

(* The call of DBclient that the target names takes place. *)
Perform(r, u) ==
    \/ r.target = "addNewPost" /\ \E p \in PostIds : Board!Publish(p, u)
    \/ r.target = "deletePost" /\ Board!Remove(r.post, u)
    \/ r.target = "likeClicked" /\ Board!Toggle(r.post, u)

(* A possible slip: the comparison with "400" is negated. *)
CaughtStatusNegated(what) == IF what = "400" THEN 500 ELSE 400

(* The status for an exception with this text: "400" is first answered     *)
(* with bad_request and then, there being no else, overwritten.            *)
CaughtStatus(what) == 500

Holding(o) == [o EXCEPT !.dbclient = TRUE]

(* A possible slip: the session is opened outside the try block. *)
callbackPostUncaught(c) ==
    /\ HasId(c) /\ conn[c].req.method = "POST"
    /\ MayNotConnect /\ Crash(c, conn[c], "no session")
    /\ UNCHANGED board

(* The catch block answers: there is no session, delPostById refused, or a *)
(* call of DBclient or a parser failed.                                    *)
callbackPostCaught(c) ==
    /\ HasId(c) /\ conn[c].req.method = "POST"
    /\ \/ /\ MayNotConnect
          /\ Finish(c, Answer(conn[c], CaughtStatus("broken connection")))
       \/ /\ CanConnect /\ conn[c].req.target = "deletePost"
          /\ author[conn[c].req.post] # conn[c].reply
          /\ Finish(c, Holding(Answer(conn[c], CaughtStatus("400"))))
       \/ /\ CanConnect /\ conn[c].req.target # "unknown"
          /\ Finish(c, Holding(Answer(conn[c], CaughtStatus("500"))))
    /\ UNCHANGED board

(* A possible slip: the target is acted on for a user kept from elsewhere, *)
(* not for the id the callback is called with.                             *)
callbackPostForAnyone(c) ==
    /\ HasId(c) /\ conn[c].req.method = "POST" /\ CanConnect
    /\ \E u \in Users : Perform(conn[c].req, u)
    /\ Finish(c, [Holding(Answer(conn[c], 200)) EXCEPT !.applied = TRUE])

(* The call took place: it returned, or its commit was in doubt. *)
callbackPost(c) ==
    /\ HasId(c) /\ conn[c].req.method = "POST" /\ CanConnect
    /\ Perform(conn[c].req, conn[c].reply)
    /\ \E status \in {200, CaughtStatus("500")} :
          Finish(c, [Holding(Answer(conn[c], status)) EXCEPT !.applied = TRUE])

(* No branch matches the target: nothing is done and the answer is 200. *)
callbackPostUnknown(c) ==
    /\ HasId(c) /\ conn[c].req.method = "POST" /\ CanConnect
    /\ conn[c].req.target = "unknown"
    /\ Finish(c, Holding(Answer(conn[c], 200)))
    /\ UNCHANGED board

-----------------------------------------------------------------------------
(* handleWrite, and the lambdas that do the same after GET and POST: with  *)
(* or without an error the client's socket is closed.  There is no timeout *)
(* on the write: a client that takes nothing of a large answer keeps it    *)
(* from completing.                                                        *)
handleWrite(c) ==
    /\ Running /\ conn[c].phase = "replying"
    /\ Finish(c, Released(conn[c], "closed"))
    /\ UNCHANGED board

(* The handlers that wait for nothing or for the auth server. *)
Handler(c) ==
    \/ on_resolve(c) \/ on_connect(c) \/ on_write(c)
    \/ on_readRefused(c) \/ on_readError(c) \/ on_readNoId(c)
    \/ callbackGet(c) \/ callbackPostCaught(c) \/ callbackPost(c)
    \/ callbackPostUnknown(c)

(* Sessions are taken and given back elsewhere. *)
OthersConnect ==
    /\ others' \in 0..MaxSessions
    /\ Running => Sessions + others' <= MaxSessions
    /\ UNCHANGED <<conn, ended, board>>

Step(c) ==
    \/ \E error \in BOOLEAN : handle_accept(c, error)
    \/ \E r \in Requests : handleRead(c, r)
    \/ handleReadError(c)
    \/ \E reply \in Replies \ {"none"} : AuthAnswers(c, reply)
    \/ Handler(c)
    \/ handleWrite(c)

Next == \/ (\E c \in Conns : Step(c)) /\ UNCHANGED others
        \/ OthersConnect

(* io_context::run runs every completion handler that is ready, and an     *)
(* operation on the auth server's name and socket completes, if only with  *)
(* an error.  Clients, the auth server and the other users of the database *)
(* owe nothing: a client need not even take its answer.                    *)
Fairness == \A c \in Conns : WF_vars(Handler(c) /\ UNCHANGED others)

Spec == Init /\ [][Next]_vars /\ Fairness

-----------------------------------------------------------------------------
(* Objects, tables and the reason of the end are of their kinds; no post    *)
(* shows more likes than there are users, and no more sessions are held    *)
(* than the database grants.                                               *)
TypeOK ==
    /\ conn \in [Conns -> Objects]
    /\ ended \in {"no", "shutdown", "no session", "at(id)"}
    /\ others \in 0..MaxSessions
    /\ Running => Sessions + others <= MaxSessions
    /\ author \in [PostIds -> Users \cup {Null}]
    /\ fans \subseteq PostIds \X Users
    /\ shown \in [PostIds -> 0..Cardinality(Users)]

(* As long as the process runs exactly one object waits for the next       *)
(* client, whatever accepts have failed (handle_accept re-arms itself).    *)
AlwaysListening ==
    Running => Cardinality({c \in Conns : conn[c].phase = "accepting"}) = 1

(* What a client may conclude from the status of its POST: 200 says done,  *)
(* unless the target was unknown; 401 and 400 say that nothing was done;   *)
(* 500 says nothing, since the commit may have been in doubt.              *)
StatusTellsTruth == \A c \in Conns :
    LET o == conn[c]
    IN  o.req.method = "POST" /\ o.phase \in {"replying", "closed"} =>
          /\ o.status = 200 /\ o.req.target # "unknown" => o.applied
          /\ o.status \in {400, 401} => ~o.applied

(* The tables change at most once for a request, only for a POST whose     *)
(* token the auth server has confirmed, and only in rows of that user,     *)
(* however the questions of several connections overlap.                   *)
EffectsAuthorised ==
    [][ board' # board =>
          \E c \in Conns :
             /\ ~conn[c].applied /\ conn'[c].applied
             /\ conn[c].req.method = "POST"
             /\ \A p \in PostIds :
                   /\ {author[p], author'[p]} \ {Null, conn[c].req.token} # {}
                        => author'[p] = author[p]
                   /\ \A u \in Users \ {conn[c].req.token} :
                        (<<p, u>> \in fans') # (<<p, u>> \in fans)
                          => author[p] = conn[c].req.token /\ author'[p] = Null ]_vars

(* Only a GET and a POST whose token the auth server has confirmed cost a  *)
(* database session.  Every session is held until the process ends, so the *)
(* server lives on what it spends them for: clients that connect and say   *)
(* nothing, preflights and POSTs without a good token cost none, however   *)
(* many there are.                                                         *)
SessionsEarned == \A c \in Conns :
    conn[c].dbclient =>
        \/ conn[c].req.method = "GET"
        \/ conn[c].req.method = "POST" /\ conn[c].reply \in Users

(* A database that gives no session ends the server only through a GET,    *)
(* and while the database itself is well only when all sessions are held.  *)
OnlyGetDiesOfSessions ==
    [][ Running /\ ended' = "no session" =>
          /\ \E c \in Conns : conn'[c].phase = "crashed" /\ conn'[c].req.method = "GET"
          /\ "connect" \in Throws \/ Sessions + others = MaxSessions ]_vars

(* Every answer of the auth server is passed on to the client, who need    *)
(* not take it, and every question is put or visibly lost, unless the      *)
(* server ends.  A lost question leaves its client waiting: "stranded".    *)
Settles == \A c \in Conns :
    /\ conn[c].reply \in Users \cup Refusals
          ~> conn[c].phase \in {"replying", "closed"} \/ ~Running
    /\ conn[c].phase \in {"resolving", "connecting", "asking"}
          ~> conn[c].phase \in {"awaiting", "stranded"} \/ ~Running
=============================================================================
