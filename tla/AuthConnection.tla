-------------------------- MODULE AuthConnection --------------------------
(***************************************************************************)
(* The connections of the auth server: MyServer accepts, every connection  *)
(* has a detached thread in WorkWithClient::run, which reads the client's  *)
(* byte stream into the string request, parses what is there and answers.  *)
(* TCP may cut the stream anywhere, so a recv can bring a piece of a       *)
(* request, a request, or pieces of several.                               *)
(*                                                                         *)
(* A stream is the sequence of the requests sent.  Each of them has four   *)
(* parts: fewer than seven bytes, the rest of its first line, the headers  *)
(* with the empty line, the body (which only a POST has).  A position      *)
(* counts parts from the beginning of the stream; request holds the parts  *)
(* after position from, up to position to.                                 *)
(***************************************************************************)
EXTENDS Integers, Sequences, FiniteSets

CONSTANTS
    Conns,        \* client connections
    Tokens,       \* JSON web tokens that have been issued
    Null,         \* no token
    Requests,     \* what clients send
    MaxRequests,  \* requests one client sends; bounds the stream
    Pipelining,   \* may a client send before it has its answer?
    Faults        \* subset of {"database", "in doubt", "reset", "no session"}

Method ==
    [options |-> "OPTIONS", getNewToken |-> "GET", read |-> "GET",
     getId |-> "GET", makeFriend |-> "GET", deleteFriend |-> "GET",
     unknownGet |-> "GET", login |-> "POST", registration |-> "POST",
     update |-> "POST", unknownPost |-> "POST", put |-> "OTHER"]

(* Targets whose token checkAccesstoken checks before anything is done.    *)
(* "read" is for the six that only read, "update" for the three parts of a *)
(* profile.                                                                *)
GuardedGets == {"read", "getId", "makeFriend", "deleteFriend"}
Guarded == GuardedGets \cup {"update"}
Unknown == {"unknownGet", "unknownPost"}

(* An INSERT that returns has inserted its row; an UPDATE and a DELETE     *)
(* return although no row matches, and exec_prepared0 does not tell.       *)
Inserting == {"registration", "makeFriend"}
Matching == {"deleteFriend", "update"}
Effectful == Inserting \cup Matching

(* Targets whose query URLParser reads, or whose body is parsed. *)
Parsed == Guarded \cup {"login", "registration"}

(* origin: there is a header Origin.  flaw: a query with an & where        *)
(* URLParser wants none or a body that is not what the target takes,       *)
(* "content"; a Content-Length that is no number, "length".                *)
AllRequests == [target : DOMAIN Method, token : Tokens \cup {Null},
                origin : BOOLEAN, flaw : {"none", "content", "length"}]

ASSUME RequestsAssumption == Requests \subseteq AllRequests
ASSUME MaxRequestsAssumption == MaxRequests \in Nat
ASSUME NoTokenAssumption == Null \notin Tokens

VARIABLES
    conn,     \* the connections
    expired,  \* tokens that are not valid, or not any more
    ended     \* "no" while the process runs, then what ended it

vars == <<conn, expired, ended>>

Reasons == {"cut short", "behind", "unsupported"}

Connections ==
    [thread : {"none", "starting", "reading", "parsing", "working", "closed"},
     client : {"open", "closing", "reset"},
     stream : Seq(Requests),
     from : Nat, to : Nat,            \* request, as positions in stream
     token : Tokens \cup {Null},      \* what the request at hand presented
     session : BOOLEAN,               \* dbAPI's connection works
     replies : Seq([req : Nat, status : Nat]),
     done : Seq([req : Nat, token : Tokens \cup {Null}]),
     dropped : SUBSET (Nat \X Reasons)]  \* cleared away without an answer

NoConnection == [thread |-> "none", client |-> "open", stream |-> <<>>,
                 from |-> 0, to |-> 0, token |-> Null, session |-> FALSE,
                 replies |-> <<>>, done |-> <<>>, dropped |-> {}]

-----------------------------------------------------------------------------
(* Positions. *)

RequestAt(p) == p \div 4 + 1       \* to which the part after p belongs
HeadersEnd(k) == 4 * k - 1         \* the end of the empty line of request k

First(o) == RequestAt(o.from)      \* the request the buffer begins in
Asked(o) == o.stream[First(o)]
End(o) == 4 * Len(o.stream)

(* Without a body the end of the headers is the end of the request. *)
CanCut(o, p) == p % 4 = 3 => Method[o.stream[RequestAt(p)].target] = "POST"

(* The requests whose headers have all arrived. *)
WithHeaders(o) ==
    {k \in DOMAIN o.stream : o.from < HeadersEnd(k) /\ HeadersEnd(k) <= o.to}

(* Request::getValueWithSpace finds the first header of its name in the    *)
(* buffer, be it of this request or of one behind it: "Bearer " of the     *)
(* guarded requests, "refreshToken=" of getNewToken.                       *)
Presenting(o, targets) ==
    {k \in WithHeaders(o) : /\ o.stream[k].target \in targets
                            /\ o.stream[k].token # Null}
TokenOfLast(o, targets) ==   \* a possible slip: rfind
    o.stream[CHOOSE k \in Presenting(o, targets) :
                \A j \in Presenting(o, targets) : j <= k].token
TokenOf(o, targets) ==
    o.stream[CHOOSE k \in Presenting(o, targets) :
                \A j \in Presenting(o, targets) : k <= j].token

(* "Origin: " is searched for in the whole buffer as well. *)
NoOrigin(o) == \A k \in WithHeaders(o) : ~o.stream[k].origin

Wanted(target) == IF target \in Guarded THEN Guarded
                  ELSE {target} \cap {"getNewToken"}

-----------------------------------------------------------------------------
(* HttpParser. *)

(* parse of what is no beginning of a request: the rest of one that has    *)
(* been cut short.  No blank in the first eight bytes is bad_http;         *)
(* otherwise the method is not supported, as soon as an empty line comes,  *)
(* which the parts of a form in a body have too.                           *)
parseRest(o) ==
    {"bad_http"}
    \cup (IF WithHeaders(o) = {} THEN {"not_full_req"} ELSE {"not_support_type"})
    \cup (IF o.from % 4 = 3 THEN {"not_support_type"} ELSE {})

(* Possible slips: a body that is not all there is an error; a body as      *)
(* long as Content-Length says is still waited for.                        *)
check_is_full_requestExactly(o) ==
    CASE o.to - o.from < 3 -> "not_full_req"
      [] o.to - o.from = 4 \/ Method[Asked(o).target] # "POST" -> "success"
      [] OTHER -> "bad_http"
check_is_full_requestNotLess(o) ==
    CASE o.to - o.from < 3 -> "not_full_req"
      [] o.to - o.from >= 3 /\ Method[Asked(o).target] # "POST" -> "success"
      [] o.to - o.from > 4 /\ Method[Asked(o).target] = "POST" -> "bad_http"
      [] OTHER -> "not_full_req"

(* check_is_full_request, for the request at the beginning of the buffer: *)
(* std::stoi reads Content-Length as soon as a POST's headers are there.  *)
check_is_full_request(o) ==
    LET size == o.to - o.from
    IN  IF size < 3 THEN "not_full_req"
        ELSE IF Method[Asked(o).target] # "POST" THEN "success"
        ELSE IF Asked(o).flaw = "length" THEN "throws"
        ELSE CASE size = 3 -> "not_full_req"
               [] size = 4 -> "success"
               [] size > 4 -> "bad_http"

(* What throws: Request::getValueWithSpace where the buffer has no such    *)
(* header, URLParser, and the parsers of JSON and forms, among them the    *)
(* get<std::string> of a new password, which run calls unguarded.          *)
Unparsable(o) ==
    LET r == Asked(o)
    IN  \/ Wanted(r.target) # {} /\ Presenting(o, Wanted(r.target)) = {}
        \/ r.target \in Parsed /\ r.flaw = "content"

(* A possible slip: checkAccesstoken is called outside the try block. *)
parseFullChecked(o) ==
    IF Method[Asked(o).target] = "OTHER" THEN "not_support_type"
    ELSE IF NoOrigin(o) \/ Asked(o).target \in Unknown THEN "bad_http"
    ELSE IF Unparsable(o) \/ (Asked(o).target \in Guarded /\ Asked(o).token \in expired)
         THEN "throws" ELSE "success"

(* parse_get_t, parse_post_t and parse_options_t of a full request. *)
parseFull(o) ==
    IF Method[Asked(o).target] = "OTHER" THEN "not_support_type"
    ELSE IF NoOrigin(o) \/ Asked(o).target \in Unknown THEN "bad_http"
    ELSE IF Unparsable(o) THEN "throws" ELSE "success"

parse(o) ==
    IF o.from % 4 # 0 THEN parseRest(o)
    ELSE IF o.to = o.from + 1 THEN {"bad_http"}
    ELSE {IF check_is_full_request(o) = "success" THEN parseFull(o)
          ELSE check_is_full_request(o)}

-----------------------------------------------------------------------------
Running == ended = "no"
Become(c, o) == conn' = [conn EXCEPT ![c] = o]

Reply(o, status) ==
    [o EXCEPT !.replies = Append(@, [req |-> First(o), status |-> status])]

Perform(o) ==
    [o EXCEPT !.done = Append(@, [req |-> First(o), token |-> o.token])]

(* Possible slips: the buffer is not cleared; it is cleared past its end. *)
ClearNothing(o, why) == [o EXCEPT !.thread = "reading", !.token = Null]
ClearAndMore(o, why) ==
    [o EXCEPT !.thread = "reading", !.token = Null, !.from = o.to + 1]

(* request.clear(): whatever of the stream has arrived is gone. *)
Clear(o, why) ==
    [o EXCEPT !.thread = "reading", !.from = o.to, !.token = Null,
              !.dropped = @ \cup
                 {<<k, why>> : k \in {k \in First(o)..RequestAt(o.to - 1) :
                     \A i \in DOMAIN o.replies : o.replies[i].req # k}}]

Init ==
    /\ conn = [c \in Conns |-> NoConnection]
    /\ expired \in SUBSET Tokens
    /\ ended = "no"

-----------------------------------------------------------------------------
(* Clients. *)

IsOpen(c) == Running /\ conn[c].thread # "none" /\ conn[c].client = "open"

(* A client in lock-step sends its next request when it has its answer. *)
send(c, r) ==
    /\ IsOpen(c)
    /\ Len(conn[c].stream) < MaxRequests
    /\ Pipelining \/ Len(conn[c].replies) >= Len(conn[c].stream)
    /\ Become(c, [conn[c] EXCEPT !.stream = Append(@, r)])
    /\ UNCHANGED <<expired, ended>>

close(c, how) ==
    /\ IsOpen(c)
    /\ how = "reset" => "reset" \in Faults
    /\ Become(c, [conn[c] EXCEPT !.client = how])
    /\ UNCHANGED <<expired, ended>>

expire(t) ==
    /\ expired' = expired \cup {t}
    /\ UNCHANGED <<conn, ended>>

-----------------------------------------------------------------------------
(* MyServer::waitForNewConnection and the beginning of run. *)

(* accept; the client can be gone again before getpeername. *)
waitForNewConnection(c) ==
    /\ Running /\ conn[c].thread = "none"
    /\ \E thread \in {"starting", "closed"} :
          Become(c, [conn[c] EXCEPT !.thread = thread])
    /\ UNCHANGED <<expired, ended>>

(* A possible slip: the socket is left open when there is no session. *)
runPatient(c) ==
    /\ Running /\ conn[c].thread = "starting"
    /\ Become(c, [conn[c] EXCEPT !.thread = "reading", !.session = TRUE])
    /\ UNCHANGED <<expired, ended>>

(* The thread opens its session of the database, or closes the socket. *)
run(c) ==
    /\ Running /\ conn[c].thread = "starting"
    /\ \/ Become(c, [conn[c] EXCEPT !.thread = "reading", !.session = TRUE])
       \/ /\ "no session" \in Faults
          /\ Become(c, [conn[c] EXCEPT !.thread = "closed"])
    /\ UNCHANGED <<expired, ended>>

-----------------------------------------------------------------------------
(* The loop of WorkWithClient::run: recv. *)

recv(c) ==
    /\ Running /\ conn[c].thread = "reading" /\ conn[c].client # "reset"
    /\ \E upto \in conn[c].to + 1..End(conn[c]) :
          /\ upto < End(conn[c]) => CanCut(conn[c], upto)
          /\ Become(c, [conn[c] EXCEPT !.thread = "parsing", !.to = upto])
    /\ UNCHANGED <<expired, ended>>

(* recv returns 0. *)
recvEnd(c) ==
    /\ Running /\ conn[c].thread = "reading" /\ conn[c].client = "closing"
    /\ conn[c].to = End(conn[c])
    /\ Become(c, [conn[c] EXCEPT !.thread = "closed", !.session = FALSE])
    /\ UNCHANGED <<expired, ended>>

(* recv returns -1, in a size_t: append throws and nobody catches. *)
recvError(c) ==
    /\ Running /\ conn[c].thread = "reading" /\ conn[c].client = "reset"
    /\ ended' = "reset"
    /\ UNCHANGED <<conn, expired>>

-----------------------------------------------------------------------------
(* What becomes of the buffer. *)

Parsing(c, status) ==
    Running /\ conn[c].thread = "parsing" /\ status \in parse(conn[c])

notFull(c) ==
    /\ Parsing(c, "not_full_req")
    /\ Become(c, [conn[c] EXCEPT !.thread = "reading"])
    /\ UNCHANGED <<expired, ended>>

(* bad_http and not_support_type: request.clear(), and no answer. *)
WhyDiscarded(o) ==
    IF o.from % 4 # 0 \/ o.to = o.from + 1 THEN "cut short"
    ELSE IF o.to > o.from + 4 THEN "behind" ELSE "unsupported"

discard(c) ==
    /\ Parsing(c, "bad_http") \/ Parsing(c, "not_support_type")
    /\ Become(c, Clear(conn[c], WhyDiscarded(conn[c])))
    /\ UNCHANGED <<expired, ended>>

parseThrows(c) ==
    /\ Parsing(c, "throws")
    /\ ended' = "parse"
    /\ UNCHANGED <<conn, expired>>

(* checkAccesstoken refuses: 401, and continue passes by request.clear(). *)
Refuse(o) == [Reply(o, 401) EXCEPT !.thread = "reading"]

refuse(c) ==
    /\ Parsing(c, "success")
    /\ Asked(conn[c]).target \in Guarded
    /\ TokenOf(conn[c], Guarded) \in expired
    /\ Become(c, Refuse(conn[c]))
    /\ UNCHANGED <<expired, ended>>

admit(c) ==
    /\ Parsing(c, "success")
    /\ LET wanted == Wanted(Asked(conn[c]).target)
       IN  /\ wanted = Guarded => TokenOf(conn[c], Guarded) \notin expired
           /\ Become(c, [conn[c] EXCEPT
                 !.thread = "working",
                 !.token = IF wanted = {} THEN Null ELSE TokenOf(conn[c], wanted)])
    /\ UNCHANGED <<expired, ended>>

-----------------------------------------------------------------------------
(* The branches of the two switches: a call of dbAPI, an answer, and then  *)
(* request.clear().                                                        *)

Working(c) == Running /\ conn[c].thread = "working"

Answer(o, status) == Clear(Reply(o, status), "behind")

(* OPTIONS and getIdForServerByAccess need no database. *)
answer(c) ==
    /\ Working(c)
    /\ \/ Asked(conn[c]).target = "options" /\ Become(c, Answer(conn[c], 204))
       \/ Asked(conn[c]).target = "getId" /\ Become(c, Answer(conn[c], 200))
    /\ UNCHANGED <<expired, ended>>

(* The call returns, with or without a row it has changed.  getNewToken    *)
(* checks its token only here.                                             *)
succeed(c) ==
    /\ Working(c) /\ conn[c].session
    /\ Asked(conn[c]).target \notin {"options", "getId"}
    /\ Asked(conn[c]).target = "getNewToken" => conn[c].token \notin expired
    /\ \/ /\ Asked(conn[c]).target \in Effectful
          /\ Become(c, Answer(Perform(conn[c]), 200))
       \/ /\ Asked(conn[c]).target \notin Inserting
          /\ Become(c, Answer(conn[c], 200))
    /\ UNCHANGED <<expired, ended>>

(* The call throws: the arguments are refused by the tables, or the call   *)
(* fails, perhaps together with the session, which is never opened again.  *)
RefusedStatus ==
    [login |-> {401}, getNewToken |-> {401}, registration |-> {401},
     update |-> {400}, makeFriend |-> {404}, deleteFriend |-> {404},
     read |-> {404, 500}]
FailedStatusRefused ==       \* a possible slip: every exception is a refusal
    [login |-> {401}, getNewToken |-> {401}, registration |-> {401},
     update |-> {400}, makeFriend |-> {404}, deleteFriend |-> {404},
     read |-> {404}]
FailedStatus ==
    [login |-> {401, 500}, getNewToken |-> {401}, registration |-> {500},
     update |-> {500}, makeFriend |-> {404}, deleteFriend |-> {404},
     read |-> {500}]

fail(c) ==
    /\ Working(c) /\ Asked(conn[c]).target \in DOMAIN FailedStatus
    /\ \/ /\ conn[c].session
          /\ \E status \in RefusedStatus[Asked(conn[c]).target] :
                Become(c, Answer(conn[c], status))
       \/ \E status \in FailedStatus[Asked(conn[c]).target],
             session \in {conn[c].session} \cup (IF "database" \in Faults
                                                 THEN {FALSE} ELSE {}) :
                Become(c, [Answer(conn[c], status) EXCEPT !.session = session])
    /\ UNCHANGED <<expired, ended>>

(* The commit took place and its confirmation was lost. *)
inDoubt(c) ==
    /\ Working(c) /\ conn[c].session /\ "in doubt" \in Faults
    /\ Asked(conn[c]).target \in Effectful
    /\ \E status \in FailedStatus[Asked(conn[c]).target] :
          Become(c, [Answer(Perform(conn[c]), status) EXCEPT !.session = FALSE])
    /\ UNCHANGED <<expired, ended>>

Thread(c) ==
    \/ run(c) \/ recv(c) \/ recvEnd(c) \/ recvError(c)
    \/ notFull(c) \/ discard(c) \/ parseThrows(c) \/ refuse(c) \/ admit(c)
    \/ answer(c) \/ succeed(c) \/ fail(c) \/ inDoubt(c)

Next ==
    \/ \E c \in Conns :
          \/ waitForNewConnection(c) \/ Thread(c)
          \/ \E r \in Requests : send(c, r)
          \/ \E how \in {"closing", "reset"} : close(c, how)
    \/ \E t \in Tokens : expire(t)

(* What needs no client: all of a thread's steps but the answers with      *)
(* lists and photos, which send may not get rid of as long as the client   *)
(* reads nothing.  The other answers fit the buffer of the socket.         *)
Unassisted(c) ==
    /\ conn[c].thread = "working" => Asked(conn[c]).target # "read"
    /\ Thread(c)

(* Every thread is scheduled, and a call of the database returns or        *)
(* throws.  Clients owe nothing.                                           *)
Fairness == \A c \in Conns : WF_vars(Unassisted(c))

Spec == Init /\ [][Next]_vars /\ Fairness

-----------------------------------------------------------------------------
Effects(o) == {o.done[i].req : i \in DOMAIN o.done}
Sends(o, status, targets) ==    \* replies of this status to such requests
    {i \in DOMAIN o.replies : /\ o.replies[i].status = status
                              /\ o.stream[o.replies[i].req].target \in targets}

(* Connections are of their kind; request holds a part of the stream.      *)
TypeOK ==
    /\ conn \in [Conns -> Connections]
    /\ \A c \in Conns : conn[c].from <= conn[c].to /\ conn[c].to <= End(conn[c])
    /\ expired \subseteq Tokens
    /\ ended \in {"no", "parse", "reset"}

(* A client that waits for each answer before it sends on may take the     *)
(* n-th answer for the one to its n-th request, however TCP has cut the    *)
(* stream and whatever was refused or cleared away before: only a 401 can  *)
(* be that of an earlier request, kept in the buffer (run, line 184).      *)
RightAnswer == \A c \in Conns : ~Pipelining =>
    \A i \in DOMAIN conn[c].replies :
        conn[c].replies[i].status # 401 => conn[c].replies[i].req = i

(* Requests take effect in the order in which they were sent, and none of  *)
(* them twice, though a refused request is parsed again with every recv.   *)
InOrder == \A c \in Conns :
    \A i, j \in DOMAIN conn[c].done :
        i < j => conn[c].done[i].req < conn[c].done[j].req

(* What a status says of a request that would change the tables: after     *)
(* 200 a user is registered and a friend is made, after 400 and 401        *)
(* nothing has changed, nor does it later.  404 and 500 say nothing, nor   *)
(* does the 200 of an UPDATE or a DELETE, which may have met no row.       *)
AnswerTellsTruth == \A c \in Conns : \A i \in DOMAIN conn[c].replies :
    LET reply == conn[c].replies[i]
    IN  /\ i \in Sends(conn[c], 200, Inserting) => reply.req \in Effects(conn[c])
        /\ reply.status \in {400, 401} => reply.req \notin Effects(conn[c])

(* A request takes effect under the token it brought.  Only one without a  *)
(* token, read together with another one behind it, is given that one's    *)
(* (getValueWithSpace searches the whole buffer).                          *)
OwnToken == \A c \in Conns : \A i \in DOMAIN conn[c].done :
    LET d == conn[c].done[i]
        own == conn[c].stream[d.req].token
    IN  conn[c].stream[d.req].target \in Guarded =>
            \/ d.token = own
            \/ own = Null /\ Pipelining

(* A refusal is final.  A refused request stays at the head of the buffer  *)
(* and is parsed again with whatever follows it, but it gets no answer     *)
(* other than 401 then either, so it is not carried out under the token of *)
(* a later request (continue passes by request.clear()).                   *)
RefusedForGood == \A c \in Conns : \A i \in Sends(conn[c], 401, Guarded) :
    \A j \in DOMAIN conn[c].replies :
        conn[c].replies[j].req = conn[c].replies[i].req => conn[c].replies[j].status = 401

(* Once everything sent has been read, a client in lock-step waits for     *)
(* ever only if its request was cleared away, and that happens only to a   *)
(* request no handler exists for or without an Origin, to one of which     *)
(* recv first brought fewer than seven bytes, and to one that follows a    *)
(* refused POST.  Bodies that arrive late lose nothing.                    *)
WaitsExplained == ~Pipelining => \A c \in Conns :
    LET o == conn[c]
        n == Len(o.stream)
    IN  o.thread = "reading" /\ o.to = End(o) /\ Len(o.replies) < n =>
            \/ <<n, "cut short">> \in o.dropped
            \/ <<n, "unsupported">> \in o.dropped
               /\ (o.stream[n].target \in Unknown \cup {"put"} \/ ~o.stream[n].origin)
            \/ <<n, "behind">> \in o.dropped
               /\ Sends(o, 401, {"update"}) # {}

(* What ends the process, with every connection it has, is a request that  *)
(* has no token where one is wanted or cannot be parsed, or a client's     *)
(* reset.  A token that is refused, a database that fails, a request that  *)
(* nothing handles and one that is cut anywhere end nothing.               *)
OnlyInputEnds ==
    /\ ended = "parse" => \E c \in Conns : \E k \in DOMAIN conn[c].stream :
          LET r == conn[c].stream[k]
          IN  \/ Wanted(r.target) # {} /\ r.token = Null
              \/ r.target \in Parsed /\ r.flaw = "content"
              \/ Method[r.target] = "POST" /\ r.flaw = "length"
    /\ ended = "reset" => \E c \in Conns : conn[c].client = "reset"

(* Every request is answered or cleared away, or is behind a refused one   *)
(* that stays in the buffer, unless its connection or the process ends, or *)
(* the client does not take an answer with lists or photos: reading goes   *)
(* on to the end of the stream, and a call of the database returns or      *)
(* throws.                                                                 *)
Handled == \A c \in Conns : \A k \in 1..MaxRequests :
    Len(conn[c].stream) >= k ~>
        LET o == conn[c] IN
        \/ \E i \in DOMAIN o.replies :
              o.replies[i].req = k \/ (o.replies[i].req < k /\ o.replies[i].status = 401)
        \/ \E why \in Reasons : <<k, why>> \in o.dropped
        \/ o.thread = "working" /\ Asked(o).target = "read"
        \/ o.thread = "closed" \/ ~Running
=============================================================================
