----------------------------- MODULE Photogram -----------------------------
(***************************************************************************)
(* The two servers and the sessions of the one database they share.        *)
(*                                                                         *)
(* Every object of the content server asks the auth server at most once,   *)
(* over a connection of its own, which the auth server serves in a thread  *)
(* with a session of its own: thread[c] is the auth server's side of the   *)
(* question that conn[c] puts.  Visitors are the auth server's other       *)
(* clients, of which only the sessions matter here, and that any of them   *)
(* can end the process.                                                    *)
(***************************************************************************)
EXTENDS Integers, Sequences, FiniteSets

CONSTANTS
    Users, PostIds, Null, Conns, MaxSessions, Throws,  \* see ContentServer
    AuthFaults,   \* Faults of AuthConnection
    MaxVisitors

(* As in ContentServer and AuthConnection. *)
ASSUME SessionsAssumption == MaxSessions \in Nat
ASSUME NoUserAssumption == Null \notin Users
ASSUME FiniteAssumption == IsFiniteSet(Conns) /\ IsFiniteSet(Users)
ASSUME RepliesAssumption ==
    Users \cap {"unauthorized", "bad_request", "internal_server_error",
                "none", "no_id", "lost"} = {}

VARIABLES
    conn, ended, author, fans, shown,  \* the content server
    thread, expired, authEnded,        \* the auth server
    visitors                           \* its other clients

content == <<conn, ended, author, fans, shown>>
auth == <<thread, expired, authEnded>>
vars == <<conn, ended, author, fans, shown, thread, expired, authEnded, visitors>>

(* FormRequest writes an Origin and no query. *)
Questions == [target : {"getId"}, token : Users \cup {Null},
              origin : {TRUE}, flaw : {"none"}]

Auth == INSTANCE AuthConnection WITH
            conn <- thread, ended <- authEnded, Tokens <- Users,
            Requests <- Questions, MaxRequests <- 1, Pipelining <- FALSE,
            Faults <- AuthFaults

(* The sessions of the auth server's threads end with its process. *)
AuthSessions ==
    IF Auth!Running THEN visitors + Cardinality({c \in Conns : thread[c].session})
    ELSE 0

Content == INSTANCE ContentServer WITH others <- AuthSessions

ContentSessions == IF Content!Running THEN Content!Sessions ELSE 0
Free == MaxSessions - AuthSessions - ContentSessions

Init == Auth!Init /\ visitors = 0 /\ Content!Init

-----------------------------------------------------------------------------
(* The content server's steps and what they do to its connections.         *)

(* The content server closes its end of the question's connection, if the  *)
(* auth server's thread still has the other.                               *)
CloseQuestion(c) ==
    IF Auth!IsOpen(c) THEN Auth!close(c, "closing") ELSE UNCHANGED auth

Put(c) == [target |-> "getId", token |-> conn[c].req.token,
           origin |-> TRUE, flaw |-> "none"]

(* The client's doing, which has no part in the question. *)
ClientStep(c) ==
    /\ \/ \E error \in BOOLEAN : Content!handle_accept(c, error)
       \/ \E r \in Content!Requests : Content!handleRead(c, r)
       \/ Content!handleReadError(c)
       \/ Content!handleWrite(c)
    /\ UNCHANGED <<auth, visitors>>

(* These leave the question's connection alone.  A refusal is one of them: *)
(* on_read closes the socket after an id and after an error, not after 401. *)
HandlerAlone(c) ==
    /\ Content!on_resolve(c) \/ Content!on_readRefused(c)
    /\ UNCHANGED auth

on_connect(c) ==
    /\ Content!on_connect(c)
    /\ IF conn'[c].phase = "asking" THEN Auth!waitForNewConnection(c)
       ELSE UNCHANGED auth

(* A possible slip: the socket is left open after an error. *)
on_writeLeaving(c) ==
    /\ Content!on_write(c)
    /\ IF conn'[c].phase = "awaiting" /\ Auth!IsOpen(c)
       THEN Auth!send(c, Put(c)) ELSE UNCHANGED auth

(* What is written to a connection the other side has closed is lost.      *)
on_write(c) ==
    /\ Content!on_write(c)
    /\ IF conn'[c].phase = "awaiting"
       THEN IF Auth!IsOpen(c) THEN Auth!send(c, Put(c)) ELSE UNCHANGED auth
       ELSE CloseQuestion(c)

(* A possible slip: the socket is closed after an error only. *)
on_readLeaving(c) ==
    \/ Content!on_readError(c) /\ CloseQuestion(c)
    \/ /\ \/ Content!callbackGet(c) \/ Content!callbackPostCaught(c)
          \/ Content!callbackPost(c) \/ Content!callbackPostUnknown(c)
       /\ UNCHANGED auth

(* on_read closes the socket after an error and after the callback.        *)
on_read(c) ==
    /\ \/ Content!on_readError(c)
       \/ Content!callbackGet(c) \/ Content!callbackPostCaught(c)
       \/ Content!callbackPost(c) \/ Content!callbackPostUnknown(c)
    /\ IF Content!Running' THEN CloseQuestion(c) ELSE UNCHANGED auth

(* The read ends when the auth server closes, or ends. *)
Lost(c) ==
    /\ thread[c].thread = "closed" \/ ~Auth!Running
    /\ Content!AuthAnswers(c, "lost")
    /\ UNCHANGED auth

(* With the content server's process its sockets are closed, or reset. *)
Gone(c) ==
    /\ ~Content!Running
    /\ \E how \in {"closing", "reset"} : Auth!close(c, how)
    /\ UNCHANGED content

-----------------------------------------------------------------------------
(* The auth server's steps. *)

(* A possible slip: one id is kept for all connections. *)
ReplyOfSomeone(c, status) == IF status = 200 THEN CHOOSE u \in Users : TRUE
                             ELSE "unauthorized"

(* What on_read will make of the status the auth server sends. *)
ReplyOf(c, status) ==
    CASE status = 200 -> conn[c].req.token
      [] status = 401 -> "unauthorized"
      [] status = 400 -> "bad_request"
      [] OTHER -> "internal_server_error"

Deliver(c) ==
    LET replies == thread'[c].replies
    IN  IF replies = thread[c].replies \/ ~Content!Running THEN UNCHANGED conn
        ELSE conn' = [conn EXCEPT ![c].reply =
                         ReplyOf(c, replies[Len(replies)].status)]

(* A thread opens its session if there is one left. *)
AuthStep(c) ==
    /\ Auth!Thread(c)
    /\ thread[c].thread = "starting" =>
          (thread'[c].thread = "reading" <=> Free > 0)
    /\ Deliver(c)
    /\ UNCHANGED <<ended, author, fans, shown, visitors>>

visit ==
    /\ Auth!Running /\ Free > 0 /\ visitors < MaxVisitors
    /\ visitors' = visitors + 1
    /\ UNCHANGED <<content, auth>>

leave ==
    /\ Auth!Running /\ visitors > 0
    /\ visitors' = visitors - 1
    /\ UNCHANGED <<content, auth>>

(* A visitor sends what parse throws at, or resets its connection: as for  *)
(* every client of the auth server, see AuthConnection.                    *)
visitorEnds(why) ==
    /\ Auth!Running /\ visitors > 0
    /\ why = "reset" => why \in AuthFaults
    /\ authEnded' = why
    /\ UNCHANGED <<content, thread, expired, visitors>>

expire(u) == Auth!expire(u) /\ UNCHANGED <<content, visitors>>

ContentStep(c) ==
    /\ HandlerAlone(c) \/ on_connect(c) \/ on_write(c) \/ on_read(c) \/ Lost(c) \/ Gone(c)
    /\ UNCHANGED visitors

Next ==
    \/ \E c \in Conns : ClientStep(c) \/ ContentStep(c) \/ AuthStep(c)
    \/ \E u \in Users : expire(u)
    \/ visit \/ leave
    \/ \E why \in {"parse", "reset"} : visitorEnds(why)

(* Both servers' threads are scheduled and their calls complete.  Clients  *)
(* and visitors owe nothing, not even to take their answers, nor does TCP  *)
(* keep a question in one piece.                                           *)
Spec == /\ Init /\ [][Next]_vars
        /\ \A c \in Conns : WF_vars(ContentStep(c)) /\ WF_vars(AuthStep(c))

-----------------------------------------------------------------------------
(* The content server's view of the system is right: with the auth server  *)
(* in the place of the environment, every step is one that ContentServer   *)
(* allows.  In particular an id is only ever that of the token asked about *)
(* and nobody opens a session that the database has not got.               *)
ContentServerSpec == Content!Init /\ [][Content!Next]_Content!vars

(* While both servers run, an auth thread that holds a session has a       *)
(* question before it, or the content server has closed its end and the    *)
(* thread is to notice, or it has refused the question: a refusal is the   *)
(* only way in which a question's session stays with nobody to free it.    *)
QuestionsClosed ==
    Content!Running /\ Auth!Running => \A c \in Conns :
        thread[c].session =>
            \/ conn[c].phase \in {"asking", "awaiting"}
            \/ thread[c].client # "open"
            \/ conn[c].reply \in Content!Refusals

(* Without other clients the auth server is ended only by a request to the *)
(* content server without a token: its question has no Bearer, so that     *)
(* parse throws in the thread that serves it.  A refused token, a question *)
(* in pieces and a lack of sessions never end it, whatever clients of the  *)
(* content server send.  (A reset is the end of the content server.)       *)
AuthEndsOfQuestion ==
    /\ authEnded = "parse" => visitors > 0 \/ \E c \in Conns :
          conn[c].reply \in {"none", "lost"} /\ conn[c].req.method \in {"GET", "POST"}
          /\ conn[c].req.token = Null
    /\ authEnded = "reset" => visitors > 0 \/ ~Content!Running

(* An asked question is answered, or its loss is noticed, or one of the    *)
(* servers ends; there is no timeout.  What waits for ever is a question   *)
(* of which the auth server first read fewer than seven bytes.             *)
Awaited == \A c \in Conns :
    conn[c].phase = "awaiting" ~>
        \/ conn[c].phase \in {"replying", "closed", "stranded", "crashed"}
        \/ ~Content!Running
        \/ <<1, "cut short">> \in thread[c].dropped

(* The session of a question that was answered with an id, or lost, comes  *)
(* back to the database, so that later questions find one: the content     *)
(* server closes its end, or ends, and the auth server's thread notices.   *)
SessionsReturn == \A c \in Conns :
    conn[c].reply \in Users \cup {"lost"} ~> ~thread[c].session \/ ~Auth!Running
=============================================================================
