-------------------------- MODULE PhotogramProofs --------------------------
(***************************************************************************)
(* Proofs about Photogram, for all finite sets of users and objects, every *)
(* number of sessions and visitors, whatever throws or fails.              *)
(***************************************************************************)
EXTENDS Photogram, FiniteSetTheorems, TLAPS

(* What is proved about the two servers, for the constants and variables   *)
(* they have here.                                                         *)
ContentP == INSTANCE ContentServerProofs WITH others <- AuthSessions
AuthP == INSTANCE AuthConnectionProofs WITH
            conn <- thread, ended <- authEnded, Tokens <- Users,
            Requests <- Questions, MaxRequests <- 1, Pipelining <- FALSE,
            Faults <- AuthFaults

-----------------------------------------------------------------------------
(* Numbers of elements and finite sets are those of the two servers. *)
LEMMA SameCounts ==
    /\ \A S : /\ ContentP!Cardinality(S) = Cardinality(S)
              /\ Content!Cardinality(S) = Cardinality(S)
    /\ \A S : ContentP!IsFiniteSet(S) <=> IsFiniteSet(S)
BY Zenon DEF ContentP!Cardinality, Content!Cardinality, Cardinality,
             ContentP!IsFiniteSet, IsFiniteSet

(* ContentServer's assumptions hold here. *)
LEMMA ContentAssumptions ==
    /\ MaxSessions \in Nat /\ Null \notin Users
    /\ ContentP!IsFiniteSet(Conns) /\ ContentP!IsFiniteSet(Users)
    /\ Users \cap (ContentP!Refusals \cup {"none", "no_id", "lost"}) = {}
<1>1. ContentP!Refusals \cup {"none", "no_id", "lost"} =
         {"unauthorized", "bad_request", "internal_server_error", "none", "no_id", "lost"}
  BY DEF ContentP!Refusals
<1> QED
  BY <1>1, SameCounts, SessionsAssumption, NoUserAssumption, FiniteAssumption, RepliesAssumption

(* So do AuthConnection's. *)
LEMMA AuthAssumptions ==
    /\ Questions \subseteq AuthP!AllRequests
    /\ 1 \in Nat /\ Null \notin Users
BY NoUserAssumption DEF Questions, AuthP!AllRequests, AuthP!Method

(* The steps of the content server are those it takes alone ... *)
LEMMA SameContent ==
    /\ Content!Init => ContentP!Init
    /\ [Content!Next]_(Content!vars) => [ContentP!Next]_(ContentP!vars)
BY Zenon
   DEF Content!Init, ContentP!Init,
       Content!Next, Content!Step, Content!vars, Content!board,
       Content!Running, Content!Sessions, Content!Become,
       Content!Released, Content!Finish, Content!Crash,
       Content!CanConnect, Content!MayNotConnect, Content!handle_accept,
       Content!Asking, Content!handleRead, Content!handleReadError,
       Content!Ask, Content!on_resolve, Content!on_connect,
       Content!on_write, Content!AuthAnswers, Content!StatusOf,
       Content!Answer, Content!on_readRefused, Content!on_readError,
       Content!on_readNoId, Content!HasId, Content!callbackGet,
       Content!Perform, Content!CaughtStatus, Content!Holding,
       Content!callbackPostCaught, Content!callbackPost,
       Content!callbackPostUnknown, Content!handleWrite,
       Content!Handler, Content!OthersConnect, Content!NoObject,
       Content!NoRequest, Content!Requests, Content!Refusals,
       Content!Replies, Content!Cardinality, Content!Board!Publish,
       Content!Board!Remove, Content!Board!Toggle, Content!Board!FansOf,
       Content!Board!Cardinality,
       ContentP!Next, ContentP!Step, ContentP!vars, ContentP!board,
       ContentP!Running, ContentP!Sessions, ContentP!Become,
       ContentP!Released, ContentP!Finish, ContentP!Crash,
       ContentP!CanConnect, ContentP!MayNotConnect,
       ContentP!handle_accept, ContentP!Asking, ContentP!handleRead,
       ContentP!handleReadError, ContentP!Ask, ContentP!on_resolve,
       ContentP!on_connect, ContentP!on_write, ContentP!AuthAnswers,
       ContentP!StatusOf, ContentP!Answer, ContentP!on_readRefused,
       ContentP!on_readError, ContentP!on_readNoId, ContentP!HasId,
       ContentP!callbackGet, ContentP!Perform, ContentP!CaughtStatus,
       ContentP!Holding, ContentP!callbackPostCaught,
       ContentP!callbackPost, ContentP!callbackPostUnknown,
       ContentP!handleWrite, ContentP!Handler, ContentP!OthersConnect,
       ContentP!NoObject, ContentP!NoRequest, ContentP!Requests,
       ContentP!Refusals, ContentP!Replies, ContentP!Cardinality,
       ContentP!Board!Publish, ContentP!Board!Remove,
       ContentP!Board!Toggle, ContentP!Board!FansOf,
       ContentP!Board!Cardinality

(* ... and so are those of the auth server. *)
LEMMA SameAuth ==
    /\ Auth!Init => AuthP!Init
    /\ [Auth!Next]_(Auth!vars) => [AuthP!Next]_(AuthP!vars)
BY Zenon
   DEF Auth!Init, AuthP!Init, Auth!NoConnection, AuthP!NoConnection,
       Auth!Next, Auth!vars, Auth!Running, Auth!Become, Auth!Thread,
       Auth!run, Auth!recv, Auth!recvEnd, Auth!recvError, Auth!notFull,
       Auth!discard, Auth!parseThrows, Auth!refuse, Auth!admit,
       Auth!answer, Auth!succeed, Auth!fail, Auth!inDoubt,
       Auth!waitForNewConnection, Auth!send, Auth!close, Auth!expire,
       Auth!IsOpen, Auth!Working, Auth!Parsing, Auth!parse,
       Auth!parseRest, Auth!parseFull, Auth!check_is_full_request,
       Auth!Asked, Auth!First, Auth!RequestAt, Auth!End,
       Auth!HeadersEnd, Auth!CanCut, Auth!Method, Auth!WithHeaders,
       Auth!Presenting, Auth!TokenOf, Auth!Wanted, Auth!Guarded,
       Auth!GuardedGets,
       Auth!Effectful, Auth!Inserting, Auth!Matching, Auth!Parsed,
       Auth!NoOrigin, Auth!Unparsable, Auth!Unknown, Auth!Clear, Auth!Reply,
       Auth!Refuse, Auth!Answer, Auth!Perform, Auth!WhyDiscarded,
       Auth!RefusedStatus, Auth!FailedStatus, Auth!Reasons,
       AuthP!Next, AuthP!vars, AuthP!Running, AuthP!Become,
       AuthP!Thread, AuthP!run, AuthP!recv, AuthP!recvEnd,
       AuthP!recvError, AuthP!notFull, AuthP!discard, AuthP!parseThrows,
       AuthP!refuse, AuthP!admit, AuthP!answer, AuthP!succeed,
       AuthP!fail, AuthP!inDoubt, AuthP!waitForNewConnection,
       AuthP!send, AuthP!close, AuthP!expire, AuthP!IsOpen,
       AuthP!Working, AuthP!Parsing, AuthP!parse, AuthP!parseRest,
       AuthP!parseFull, AuthP!check_is_full_request, AuthP!Asked,
       AuthP!First, AuthP!RequestAt, AuthP!End, AuthP!HeadersEnd,
       AuthP!CanCut, AuthP!Method, AuthP!WithHeaders, AuthP!Presenting,
       AuthP!TokenOf, AuthP!Wanted, AuthP!Guarded, AuthP!GuardedGets,
       AuthP!Effectful, AuthP!Inserting, AuthP!Matching, AuthP!Parsed,
       AuthP!NoOrigin, AuthP!Unparsable, AuthP!Unknown, AuthP!Clear, AuthP!Reply, AuthP!Refuse,
       AuthP!Answer, AuthP!Perform, AuthP!WhyDiscarded,
       AuthP!RefusedStatus, AuthP!FailedStatus, AuthP!Reasons

-----------------------------------------------------------------------------
(* What a question has to do with the object that puts it: o is the object *)
(* of the content server and t the auth server's side of its connection.   *)
Question(token) ==
    [target |-> "getId", token |-> token, origin |-> TRUE, flaw |-> "none"]

QuestionOK(o, t) ==
    /\ o.callback => o.req.method \in {"GET", "POST"}
    /\ o.callback /\ o.req.method = "GET" => o.dbclient
    /\ o.status # 0 => o.phase \in {"replying", "closed"}
    /\ t.thread = "none" => t = Auth!NoConnection
    /\ t.thread # "none" => o.callback /\ o.phase \notin {"resolving", "connecting"}
    /\ Len(t.stream) <= 1
    /\ t.stream # <<>> =>
          o.phase # "asking" /\ t.stream[1] = Question(o.req.token)
    /\ o.reply \in Users \cup Content!Refusals => t.replies # <<>>
    /\ o.reply # "no_id"
    /\ t.session <=> t.thread \in {"reading", "parsing", "working"}
    /\ t.thread = "working" => o.req.token # Null
    /\ t.replies # <<>> =>
          /\ t.stream # <<>> /\ t.to = 4 /\ o.req.token # Null
          /\ t.thread = "reading" \/ (t.thread = "closed" /\ t.client = "closing")

(* The content server has its end of the connection: it waits for the      *)
(* answer, as long as there may be one, or has been refused.               *)
Open(o, t, runs) ==
    /\ t.client = "open"
    /\ runs /\ t.stream # <<>> /\ t.replies = <<>> /\ t.thread # "closed" =>
          o.phase = "awaiting" /\ o.reply = "none"
    /\ runs /\ t.thread \notin {"none", "closed"} =>
          o.phase \in {"asking", "awaiting"} \/ o.reply \in Content!Refusals

(* It has closed it, after an id or when no answer could come any more. *)
Closing(o, t, runs) ==
    /\ t.client = "closing" /\ o.phase \in {"replying", "closed", "stranded"}
    /\ o.reply \in Users \cup {"lost"}
    /\ runs /\ t.stream # <<>> /\ t.replies = <<>> => t.thread = "closed"

(* After the content server's end its objects and connections remain as   *)
(* they are, or are reset.                                                 *)
Linked(o, t, contentRuns, authRuns) ==
    /\ QuestionOK(o, t)
    /\ contentRuns => Open(o, t, authRuns) \/ Closing(o, t, authRuns)

(* The auth server's own invariant, save for what visitors can do to it.   *)
AuthLinked ==
    /\ AuthP!TypeOK
    /\ \A c \in Conns : AuthP!ConnOK(thread[c], expired)
    /\ visitors > 0 \/ AuthP!OnlyInputEnds

(* The servers' own invariants, and the links between them. *)
LinkedInv ==
    /\ ContentP!ContentInv /\ AuthLinked /\ visitors \in Nat
    /\ \A c \in Conns : Linked(conn[c], thread[c], Content!Running, Auth!Running)

(* A step of one object and its question. *)
Only(c) ==
    /\ \A d \in Conns \ {c} : conn'[d] = conn[d] /\ thread'[d] = thread[d]
    /\ Content!Running' => Content!Running
    /\ Auth!Running' => Auth!Running

(* One object and its question. *)
LinkedAt(c) == Linked(conn[c], thread[c], Content!Running, Auth!Running)

(* So what has been proved about each of them remains true. *)
LEMMA ContentKept ==
    ASSUME ContentP!ContentInv, [Content!Next]_(Content!vars)
    PROVE  ContentP!ContentInv'
BY SameContent, ContentAssumptions, ContentP!NextContent DEF ContentP!NextContent

(* The steps of the auth server, alone or ended by a visitor.              *)
AuthOrVisitor == Auth!Next \/ \E why \in {"parse", "reset"} : visitorEnds(why)

(* The same for the auth server: whatever ends it, once it has ended       *)
(* nothing changes any more but the tokens that have expired.              *)
LEMMA AuthKept ==
    ASSUME AuthLinked, [AuthOrVisitor]_(Auth!vars), Auth!Running \/ visitors' = visitors
    PROVE  AuthLinked'
<1>1. CASE [Auth!Next]_(Auth!vars) /\ Auth!Running
  <2>1. AuthP!OnlyInputEnds
    BY <1>1 DEF AuthP!OnlyInputEnds, Auth!Running
  <2>2. AuthP!AuthInv
    BY <2>1 DEF AuthLinked, AuthP!AuthInv
  <2>3. AuthP!AuthInv'
    BY <1>1, <2>2, SameAuth, AuthAssumptions, AuthP!NextAuth DEF AuthP!NextAuth
  <2> QED
    BY <2>3 DEF AuthLinked, AuthP!AuthInv
<1>2. CASE [Auth!Next]_(Auth!vars) /\ ~Auth!Running
  <2>1. /\ thread' = thread /\ authEnded' = authEnded /\ visitors' = visitors
        /\ expired \subseteq expired' /\ expired' \subseteq expired \cup Users
    BY <1>2
       DEF Auth!vars, Auth!Next, Auth!waitForNewConnection, Auth!Thread, Auth!run, Auth!recv,
           Auth!recvEnd, Auth!recvError, Auth!notFull, Auth!discard, Auth!parseThrows,
           Auth!refuse, Auth!admit, Auth!answer, Auth!succeed, Auth!fail, Auth!inDoubt,
           Auth!Parsing, Auth!Working, Auth!send, Auth!close, Auth!IsOpen, Auth!expire
  <2>2. AuthP!TypeOK'
    BY <2>1 DEF AuthLinked, AuthP!TypeOK, AuthP!End
  <2>3. ASSUME NEW c \in Conns PROVE AuthP!ConnOK(thread[c], expired')
    BY <2>1, AuthAssumptions, AuthP!GoneGrows, Zenon
       DEF AuthP!GoneGrows, AuthLinked, AuthP!TypeOK
  <2>4. (visitors > 0 \/ AuthP!OnlyInputEnds)'
    BY <2>1 DEF AuthLinked, AuthP!OnlyInputEnds
  <2> QED
    BY <2>1, <2>2, <2>3, <2>4 DEF AuthLinked
<1>3. CASE \E why \in {"parse", "reset"} : visitorEnds(why)
  <2>1. /\ thread' = thread /\ expired' = expired /\ visitors' > 0
        /\ authEnded' \in {"parse", "reset"}
    BY <1>3 DEF visitorEnds
  <2>2. AuthP!TypeOK'
    BY <2>1 DEF AuthLinked, AuthP!TypeOK, AuthP!End
  <2> QED
    BY <2>1, <2>2 DEF AuthLinked
<1> QED
  BY <1>1, <1>2, <1>3 DEF AuthOrVisitor

-----------------------------------------------------------------------------
(* What is known of an object and its question. *)
LEMMA Facts ==
    ASSUME LinkedInv, NEW c \in Conns
    PROVE  /\ conn \in [Conns -> ContentP!Objects] /\ conn[c] \in ContentP!Objects
           /\ thread \in [Conns -> AuthP!Connections] /\ thread[c] \in AuthP!Connections
           /\ QuestionOK(conn[c], thread[c])
           /\ Content!Running =>
                 Open(conn[c], thread[c], Auth!Running) \/ Closing(conn[c], thread[c], Auth!Running)
           /\ conn[c].phase \in {"none", "accepting", "reading"} =>
                 ~conn[c].callback /\ conn[c].reply = "none"
           /\ conn[c].phase \in {"resolving", "connecting", "asking"} => conn[c].reply = "none"
           /\ conn[c].phase \in {"resolving", "connecting", "asking", "awaiting"} =>
                 conn[c].callback
           /\ conn[c].dbclient => conn[c].callback
           /\ conn[c].reply \in Users => conn[c].reply = conn[c].req.token
BY DEF LinkedInv, Linked, ContentP!ContentInv, ContentP!TypeOK, ContentP!ObjectOK,
       AuthLinked, AuthP!TypeOK

(* Names that both servers' proofs have of their own. *)
LEMMA SameRunning ==
    /\ Content!Running <=> ended = "no"
    /\ Auth!Running <=> authEnded = "no"
    /\ ContentP!Running <=> ended = "no"
    /\ AuthP!Running <=> authEnded = "no"
BY DEF Content!Running, Auth!Running, ContentP!Running, AuthP!Running

(* A step of one object leaves the others and their questions in order.    *)
LEMMA LinkedElsewhere ==
    ASSUME LinkedInv, NEW c \in Conns, Only(c), LinkedAt(c)'
    PROVE  \A d \in Conns : LinkedAt(d)'
<1> SUFFICES ASSUME NEW d \in Conns \ {c} PROVE LinkedAt(d)'
  OBVIOUS
<1>1. LinkedAt(d)
  BY DEF LinkedInv, LinkedAt
<1>2. conn'[d] = conn[d] /\ thread'[d] = thread[d]
  BY DEF Only
<1>3. /\ Content!Running' => Content!Running
      /\ Auth!Running' => Auth!Running
  BY DEF Only
<1>4. QuestionOK(conn[d], thread[d]) <=> QuestionOK(conn[d], thread[d])'
  BY <1>2 DEF QuestionOK, Content!Refusals, Auth!NoConnection
<1>5. Content!Running' =>
         Open(conn'[d], thread'[d], Auth!Running') \/ Closing(conn'[d], thread'[d], Auth!Running')
  BY <1>1, <1>2, <1>3 DEF LinkedAt, Linked, Open, Closing
<1> QED
  BY <1>1, <1>4, <1>5 DEF LinkedAt, Linked, Open, Closing

(* An object that has not yet connected to the auth server is in order. *)
LEMMA NotConnected ==
    ASSUME NEW o, NEW t, NEW contentRuns, NEW authRuns, t = Auth!NoConnection,
           o.callback => o.req.method \in {"GET", "POST"},
           o.callback /\ o.req.method = "GET" => o.dbclient,
           o.status # 0 => o.phase \in {"replying", "closed"},
           o.reply \in {"none", "lost"}
    PROVE  Linked(o, t, contentRuns, authRuns)
<1>1. /\ t.thread = "none" /\ t.client = "open" /\ t.stream = <<>> /\ t.session = FALSE
      /\ t.replies = <<>> /\ Len(t.stream) = 0
  BY DEF Auth!NoConnection
<1>2. o.reply \notin Users \cup Content!Refusals /\ o.reply # "no_id"
  BY RepliesAssumption DEF Content!Refusals
<1> QED
  BY <1>1, <1>2 DEF Linked, QuestionOK, Open

(* A step changes an object and its question together or one of them.      *)
LEMMA Together ==
    ASSUME LinkedInv, NEW c \in Conns, NEW p, NEW q,
           conn' = [conn EXCEPT ![c] = p], thread' = [thread EXCEPT ![c] = q],
           Content!Running' => Content!Running, Auth!Running' => Auth!Running,
           Linked(p, q, Content!Running', Auth!Running')
    PROVE  \A d \in Conns : LinkedAt(d)'
<1>1. /\ conn'[c] = p /\ thread'[c] = q
      /\ \A d \in Conns \ {c} : conn'[d] = conn[d] /\ thread'[d] = thread[d]
  BY Facts
<1>2. Only(c)
  BY <1>1 DEF Only
<1>3. LinkedAt(c)'
  BY <1>1, ZenonT(60)
     DEF LinkedAt, Linked, QuestionOK, Open, Closing, Content!Refusals, Auth!NoConnection
<1> QED
  BY <1>2, <1>3, LinkedElsewhere

(* A step that leaves the auth server alone. *)
LEMMA ObjectAlone ==
    ASSUME LinkedInv, NEW c \in Conns, NEW p, conn' = [conn EXCEPT ![c] = p],
           UNCHANGED auth, Content!Running' => Content!Running,
           Linked(p, thread[c], Content!Running', Auth!Running)
    PROVE  \A d \in Conns : LinkedAt(d)'
<1>1. thread' = [thread EXCEPT ![c] = thread[c]] /\ authEnded' = authEnded
  BY Facts DEF auth
<1>2. Auth!Running' <=> Auth!Running
  BY <1>1 DEF Auth!Running
<1>3. Linked(p, thread[c], Content!Running', Auth!Running')
  BY <1>2 DEF Linked, Open
<1> QED
  BY <1>1, <1>2, <1>3, Together

-----------------------------------------------------------------------------
(* Accepting. *)
LEMMA AcceptLinked ==
    ASSUME LinkedInv, NEW c \in Conns, NEW error \in BOOLEAN,
           Content!handle_accept(c, error), UNCHANGED auth
    PROVE  \A d \in Conns : LinkedAt(d)'
<1>1. PICK n \in Conns :
         /\ conn[n] = Content!NoObject
         /\ conn' = [conn EXCEPT ![c] = IF error THEN Content!NoObject
                                        ELSE [conn[c] EXCEPT !.phase = "reading"],
                                 ![n].phase = "accepting"]
  BY DEF Content!handle_accept
<1>2. conn[c].phase = "accepting" /\ ended' = ended /\ thread' = thread /\ authEnded' = authEnded
  BY DEF Content!handle_accept, auth
<1>3. n # c
  BY <1>1, <1>2 DEF Content!NoObject
<1> DEFINE p == IF error THEN Content!NoObject ELSE [conn[c] EXCEPT !.phase = "reading"]
           m == [conn[n] EXCEPT !.phase = "accepting"]
<1>4. /\ conn'[c] = p /\ conn'[n] = m
      /\ \A d \in Conns \ {c, n} : conn'[d] = conn[d]
  BY <1>1, <1>3, Facts
<1>5. /\ thread[c] = Auth!NoConnection /\ thread[n] = Auth!NoConnection
      /\ ~conn[c].callback /\ conn[c].status = 0 /\ conn[c].reply = "none"
  <2>1. conn[n].callback = FALSE
    BY <1>1 DEF Content!NoObject
  <2> QED
    BY <1>2, <2>1, Facts DEF QuestionOK
<1>6. /\ ~p.callback /\ p.status = 0 /\ p.reply = "none"
      /\ ~m.callback /\ m.status = 0 /\ m.reply = "none"
  <2>1. conn[c] \in ContentP!Objects
    BY Facts
  <2>2. ~p.callback /\ p.status = 0 /\ p.reply = "none"
    BY <2>1, <1>5 DEF Content!NoObject, ContentP!Objects
  <2>3. ~m.callback /\ m.status = 0 /\ m.reply = "none"
    BY <1>1 DEF Content!NoObject
  <2> QED
    BY <2>2, <2>3
<1> HIDE DEF p, m
<1>7. Linked(p, Auth!NoConnection, Content!Running', Auth!Running')
      /\ Linked(m, Auth!NoConnection, Content!Running', Auth!Running')
  BY <1>6, NotConnected
<1>8. (Content!Running' <=> Content!Running) /\ (Auth!Running' <=> Auth!Running)
  BY <1>2 DEF Content!Running, Auth!Running
<1>9. ASSUME NEW d \in Conns
      PROVE  Linked(conn'[d], thread'[d], Content!Running', Auth!Running')
  <2>1. CASE d \in {c, n}
    BY <2>1, <1>2, <1>4, <1>5, <1>7
  <2>2. CASE d \notin {c, n}
    BY <2>2, <1>2, <1>4, <1>8 DEF LinkedInv, Linked, Open, Closing
  <2> QED
    BY <2>1, <2>2
<1> QED
  BY <1>9 DEF LinkedAt, Linked, QuestionOK, Open, Closing, Content!Refusals, Auth!NoConnection

(* The steps of the content server that do not touch the question. *)
LEMMA ReleasedObject ==
    ASSUME LinkedInv, NEW c \in Conns, NEW phase \in {"closed", "stranded"},
           conn[c].phase \in {"reading", "replying"},
           conn' = [conn EXCEPT ![c] = Content!Released(conn[c], phase)],
           conn[c].phase = "reading" \/ phase = "closed",
           UNCHANGED auth, Content!Running' => Content!Running, Content!Running
    PROVE  \A d \in Conns : LinkedAt(d)'
<1> DEFINE o == conn[c]
           t == thread[c]
           p == Content!Released(o, phase)
<1>1. CASE o.callback
  <2>1. o \in ContentP!Objects /\ o.phase = "replying" /\ QuestionOK(o, t)
        /\ (Open(o, t, Auth!Running) \/ Closing(o, t, Auth!Running))
    BY <1>1, Facts
  <2>2. p = [o EXCEPT !.phase = phase] /\ phase = "closed"
    BY <1>1, <2>1 DEF Content!Released
  <2>3. /\ p.phase = "closed" /\ p.req = o.req /\ p.reply = o.reply /\ p.callback = o.callback
        /\ p.dbclient = o.dbclient /\ p.status = o.status
    BY <2>1, <2>2 DEF ContentP!Objects
  <2> HIDE DEF o, p, t
  <2>4. QuestionOK(p, t)
    BY <2>1, <2>3 DEF QuestionOK
  <2>5. Open(p, t, Auth!Running) \/ Closing(p, t, Auth!Running)
    BY <2>1, <2>3 DEF Open, Closing
  <2> QED
    BY <2>4, <2>5, ObjectAlone DEF o, p, t, Linked
<1>2. CASE ~o.callback
  <2>1. p = Content!NoObject
    BY <1>2 DEF Content!Released
  <2>2. t = Auth!NoConnection
    BY <1>2, Facts DEF QuestionOK
  <2>3. Linked(p, t, Content!Running', Auth!Running)
    BY <2>1, <2>2, NotConnected DEF Content!NoObject
  <2> QED
    BY <2>3, ObjectAlone
<1> QED
  BY <1>1, <1>2

(* handleReadError: an object that has not asked is destroyed. *)
LEMMA ReadErrorLinked ==
    ASSUME LinkedInv, NEW c \in Conns, Content!handleReadError(c), UNCHANGED auth
    PROVE  \A d \in Conns : LinkedAt(d)'
<1>1. /\ conn[c].phase = "reading" /\ ended' = ended /\ Content!Running
      /\ conn' = [conn EXCEPT ![c] = Content!Released(conn[c], "closed")]
  BY DEF Content!handleReadError, Content!Become
<1>2. Content!Running' => Content!Running
  BY <1>1 DEF Content!Running
<1> QED
  BY <1>1, <1>2, ReleasedObject

(* handleWrite: the object is closed or, if it never asked, destroyed. *)
LEMMA WriteLinked ==
    ASSUME LinkedInv, NEW c \in Conns, Content!handleWrite(c), UNCHANGED auth
    PROVE  \A d \in Conns : LinkedAt(d)'
<1>1. /\ conn[c].phase = "replying" /\ Content!Running
      /\ conn' = [conn EXCEPT ![c] = Content!Released(conn[c], "closed")]
  BY DEF Content!handleWrite, Content!Finish, Content!Become
<1> QED
  BY <1>1, ReleasedObject

(* An object that is not connected to the auth server. *)
LEMMA Unconnected ==
    ASSUME LinkedInv, NEW c \in Conns, NEW p, conn' = [conn EXCEPT ![c] = p],
           thread[c] = Auth!NoConnection, UNCHANGED auth, Content!Running,
           p.callback => p.req.method \in {"GET", "POST"},
           p.callback /\ p.req.method = "GET" => p.dbclient,
           p.status # 0 => p.phase \in {"replying", "closed"},
           p.reply \in {"none", "lost"}
    PROVE  \A d \in Conns : LinkedAt(d)'
<1>1. Linked(p, thread[c], Content!Running', Auth!Running)
  BY NotConnected
<1> QED
  BY <1>1, ObjectAlone

(* Reading a request: a GET opens a session, a GET and a POST will ask.    *)
LEMMA ReadLinked ==
    ASSUME LinkedInv, NEW c \in Conns, NEW r \in Content!Requests,
           Content!handleRead(c, r), UNCHANGED auth
    PROVE  \A d \in Conns : LinkedAt(d)'
<1> DEFINE o == conn[c]
<1>1. /\ o.phase = "reading" /\ Content!Running /\ o \in ContentP!Objects
      /\ o.callback = FALSE /\ o.reply = "none" /\ o.status = 0
      /\ thread[c] = Auth!NoConnection
  <2>1. /\ o.phase = "reading" /\ Content!Running
    BY DEF Content!handleRead
  <2>2. o \in ContentP!Objects /\ ~o.callback /\ o.reply = "none" /\ QuestionOK(o, thread[c])
    BY <2>1, Facts
  <2> QED
    BY <2>1, <2>2 DEF QuestionOK, ContentP!Objects
<1>2. \/ /\ r.method = "OPTIONS"
         /\ conn' = [conn EXCEPT ![c] = [o EXCEPT !.req = r, !.phase = "replying",
                                                  !.status = 204]]
      \/ /\ r.method \in {"GET", "POST"}
         /\ conn' = [conn EXCEPT ![c] = Content!Asking(o, r)]
      \/ conn' = [conn EXCEPT ![c] = [[o EXCEPT !.req = r] EXCEPT !.phase = "crashed"]]
      \/ conn' = [conn EXCEPT ![c] = Content!Released(o, "stranded")]
  BY Zenon DEF Content!handleRead, Content!Finish, Content!Crash, Content!Become
<1> HIDE DEF o
<1>3. ASSUME conn' = [conn EXCEPT ![c] = [o EXCEPT !.req = r, !.phase = "replying",
                                                   !.status = 204]]
      PROVE  \A d \in Conns : LinkedAt(d)'
  <2> DEFINE p == [o EXCEPT !.req = r, !.phase = "replying", !.status = 204]
  <2>1. p.callback = FALSE /\ p.reply = "none" /\ p.phase = "replying"
    BY <1>1 DEF ContentP!Objects
  <2> HIDE DEF p
  <2> QED
    BY <1>1, <1>3, <2>1, Unconnected DEF p
<1>4. ASSUME r.method \in {"GET", "POST"}, conn' = [conn EXCEPT ![c] = Content!Asking(o, r)]
      PROVE  \A d \in Conns : LinkedAt(d)'
  <2> DEFINE p == Content!Asking(o, r)
  <2>1. /\ p.callback = TRUE /\ p.reply = "none" /\ p.status = 0 /\ p.req = r
        /\ p.dbclient = (r.method = "GET")
    BY <1>1 DEF ContentP!Objects, Content!Asking
  <2> HIDE DEF p
  <2> QED
    BY <1>1, <1>4, <2>1, Unconnected DEF p
<1>5. ASSUME conn' = [conn EXCEPT ![c] = [[o EXCEPT !.req = r] EXCEPT !.phase = "crashed"]]
      PROVE  \A d \in Conns : LinkedAt(d)'
  <2> DEFINE p == [[o EXCEPT !.req = r] EXCEPT !.phase = "crashed"]
  <2>1. p.callback = FALSE /\ p.reply = "none" /\ p.status = 0
    BY <1>1 DEF ContentP!Objects
  <2> HIDE DEF p
  <2> QED
    BY <1>1, <1>5, <2>1, Unconnected DEF p
<1>6. ASSUME conn' = [conn EXCEPT ![c] = Content!Released(o, "stranded")]
      PROVE  \A d \in Conns : LinkedAt(d)'
  BY <1>1, <1>6, ReleasedObject DEF o
<1> QED
  BY <1>2, <1>3, <1>4, <1>5, <1>6

(* A handler of AnotherServerConnection goes on or leaves a stranded object. *)
LEMMA AskStep ==
    ASSUME LinkedInv, NEW c \in Conns, NEW from, NEW to, Content!Ask(c, from, to),
           from \in {"resolving", "connecting", "asking"}, to # "stranded"
    PROVE  \E p :
             /\ conn' = [conn EXCEPT ![c] = p] /\ ended' = ended
             /\ conn[c].phase = from /\ Content!Running
             /\ conn[c].callback /\ conn[c].reply = "none" /\ conn[c].status = 0
             /\ p.callback = conn[c].callback /\ p.req = conn[c].req
             /\ p.dbclient = conn[c].dbclient /\ p.status = 0
             /\ \/ p.phase = to /\ p.reply = "none"
                \/ p.phase = "stranded" /\ p.reply = "lost"
<1>1. PICK phase \in {to, "stranded"} :
         /\ conn[c].phase = from /\ Content!Running /\ ended' = ended
         /\ conn' = [conn EXCEPT ![c] =
               Content!Released([conn[c] EXCEPT
                  !.reply = IF phase = to THEN "none" ELSE "lost"], phase)]
  BY Zenon DEF Content!Ask, Content!Become
<1> DEFINE o == conn[c]
           reply == IF phase = to THEN "none" ELSE "lost"
           p == Content!Released([o EXCEPT !.reply = reply], phase)
<1>2. /\ o \in ContentP!Objects /\ o.callback = TRUE /\ o.reply = "none" /\ o.status = 0
  <2>1. o \in ContentP!Objects /\ o.callback /\ o.reply = "none" /\ QuestionOK(o, thread[c])
    BY <1>1, Facts
  <2> HIDE DEF o
  <2>2. o.callback = TRUE
    BY <2>1 DEF ContentP!Objects
  <2>3. o.status = 0
    BY <1>1, <2>1 DEF QuestionOK, o
  <2> QED
    BY <2>1, <2>2, <2>3
<1>3. (phase = to /\ reply = "none") \/ (phase = "stranded" /\ reply = "lost")
  OBVIOUS
<1> HIDE DEF o, reply
<1>4. [o EXCEPT !.reply = reply].callback
  BY <1>2 DEF ContentP!Objects
<1>5. p = [[o EXCEPT !.reply = reply] EXCEPT !.phase = phase]
  BY <1>4 DEF Content!Released
<1> HIDE DEF p
<1>6. /\ p.callback = o.callback /\ p.req = o.req /\ p.dbclient = o.dbclient
      /\ p.status = o.status /\ p.phase = phase /\ p.reply = reply
  BY <1>2, <1>5 DEF ContentP!Objects
<1>7. conn' = [conn EXCEPT ![c] = p]
  BY <1>1 DEF o, reply, p
<1> QED
  BY <1>1, <1>2, <1>3, <1>6, <1>7 DEF o

(* on_resolve: there is no connection to the auth server yet. *)
LEMMA ResolveLinked ==
    ASSUME LinkedInv, NEW c \in Conns, Content!on_resolve(c), UNCHANGED auth
    PROVE  \A d \in Conns : LinkedAt(d)'
<1>1. PICK p :
         /\ conn' = [conn EXCEPT ![c] = p]
         /\ conn[c].phase = "resolving" /\ Content!Running
         /\ p.callback = conn[c].callback /\ p.req = conn[c].req
         /\ p.dbclient = conn[c].dbclient /\ p.status = 0
         /\ p.reply \in {"none", "lost"}
  BY AskStep DEF Content!on_resolve
<1>2. QuestionOK(conn[c], thread[c])
  BY Facts
<1>3. thread[c] = Auth!NoConnection
  BY <1>1, <1>2 DEF QuestionOK
<1> QED
  BY <1>1, <1>2, <1>3, Unconnected DEF QuestionOK

(* on_connect: the auth server accepts, and nothing is sent yet. *)
LEMMA ConnectLinked ==
    ASSUME LinkedInv, NEW c \in Conns, on_connect(c)
    PROVE  \A d \in Conns : LinkedAt(d)'
<1>1. PICK p :
         /\ conn' = [conn EXCEPT ![c] = p] /\ ended' = ended
         /\ conn[c].phase = "connecting" /\ Content!Running /\ conn[c].callback
         /\ p.callback = conn[c].callback /\ p.req = conn[c].req
         /\ p.dbclient = conn[c].dbclient /\ p.status = 0
         /\ \/ p.phase = "asking" /\ p.reply = "none"
            \/ p.phase = "stranded" /\ p.reply = "lost"
  BY AskStep DEF Content!on_connect, on_connect
<1>2. QuestionOK(conn[c], thread[c]) /\ conn'[c] = p
  BY <1>1, Facts
<1>3. thread[c] = Auth!NoConnection
  BY <1>1, <1>2 DEF QuestionOK
<1>4. CASE UNCHANGED auth
  BY <1>1, <1>2, <1>3, <1>4, Unconnected DEF QuestionOK
<1>5. CASE p.phase = "asking" /\ Auth!waitForNewConnection(c)
  <2>1. PICK x \in {"starting", "closed"} :
           /\ thread' = [thread EXCEPT ![c] = [thread[c] EXCEPT !.thread = x]]
           /\ authEnded' = authEnded
    BY <1>5 DEF Auth!waitForNewConnection, Auth!Become
  <2> DEFINE q == [thread[c] EXCEPT !.thread = x]
  <2>2. /\ q.thread = x /\ q.client = "open" /\ q.stream = <<>> /\ q.session = FALSE
        /\ q.replies = <<>>
    BY <1>3 DEF Auth!NoConnection
  <2>3. Len(q.stream) = 0
    BY <2>2
  <2> HIDE DEF q
  <2>4. QuestionOK(p, q)
    BY <1>1, <1>2, <1>5, <2>2, <2>3, RepliesAssumption DEF QuestionOK, Content!Refusals
  <2>5. Open(p, q, Auth!Running')
    BY <1>5, <2>2 DEF Open
  <2>6. /\ Content!Running' => Content!Running
        /\ Auth!Running' => Auth!Running
    BY <1>1, <2>1 DEF Content!Running, Auth!Running
  <2>7. Linked(p, q, Content!Running', Auth!Running')
    BY <2>4, <2>5 DEF Linked
  <2> QED
    BY <1>1, <2>1, <2>6, <2>7, Together DEF q
<1> QED
  BY <1>2, <1>4, <1>5 DEF on_connect

(* The content server closes its end, unless it has no connection any more. *)
LEMMA QuestionClosed ==
    ASSUME LinkedInv, NEW c \in Conns, NEW p, conn' = [conn EXCEPT ![c] = p],
           CloseQuestion(c), Content!Running, Content!Running' => Content!Running,
           conn[c].phase \in {"asking", "awaiting"},
           p.phase \in {"replying", "stranded"}, p.reply \in Users \cup {"lost"},
           p.reply \in Users => p.reply = conn[c].reply,
           conn[c].phase = "awaiting" => p.reply = conn[c].reply,
           p.callback = conn[c].callback, p.req = conn[c].req,
           p.callback /\ p.req.method = "GET" => p.dbclient,
           p.status # 0 => p.phase = "replying"
    PROVE  \A d \in Conns : LinkedAt(d)'
<1> DEFINE o == conn[c]
           t == thread[c]
<1>1. /\ t \in AuthP!Connections /\ QuestionOK(o, t) /\ o.callback
      /\ Open(o, t, Auth!Running)
  BY Facts DEF Closing
<1>2. p.reply # "no_id" /\ p.reply \notin Content!Refusals
  BY RepliesAssumption DEF Content!Refusals
<1>5. o.phase = "asking" \/ p.reply = o.reply
  OBVIOUS
<1>3. CASE Auth!IsOpen(c)
  <2>1. /\ thread' = [thread EXCEPT ![c] = [t EXCEPT !.client = "closing"]]
        /\ authEnded' = authEnded
    BY <1>3 DEF CloseQuestion, Auth!close, Auth!Become
  <2> DEFINE q == [t EXCEPT !.client = "closing"]
  <2>2. /\ q.thread = t.thread /\ q.client = "closing" /\ q.stream = t.stream
        /\ q.session = t.session /\ q.replies = t.replies /\ q.to = t.to
    BY <1>1 DEF AuthP!Connections
  <2>3. t.thread # "none"
    BY <1>3 DEF Auth!IsOpen
  <2> HIDE DEF q, o, t
  <2>4. QuestionOK(p, q)
    BY <1>1, <1>2, <2>2, <2>3 DEF QuestionOK, o
  <2>5. Closing(p, q, Auth!Running')
    <3>1. t.stream # <<>> /\ t.replies = <<>> => t.thread = "closed"
      BY <1>1, <1>3, <1>5, RepliesAssumption DEF Open, QuestionOK, Auth!IsOpen, o
    <3> QED
      BY <2>2, <3>1 DEF Closing
  <2>6. Auth!Running' => Auth!Running
    BY <2>1 DEF Auth!Running
  <2>7. Linked(p, q, Content!Running', Auth!Running')
    BY <2>4, <2>5 DEF Linked
  <2> QED
    BY <2>1, <2>6, <2>7, Together DEF q, t
<1>4. CASE ~Auth!IsOpen(c)
  <2>1. UNCHANGED auth
    BY <1>4 DEF CloseQuestion
  <2>2. t.thread = "none" \/ ~Auth!Running
    BY <1>1, <1>4 DEF Auth!IsOpen, Open
  <2>3. t.thread = "none" => t.stream = <<>>
    BY <1>1 DEF QuestionOK, Auth!NoConnection
  <2> HIDE DEF o, t
  <2>4. QuestionOK(p, t)
    BY <1>1, <1>2 DEF QuestionOK, o
  <2>5. Open(p, t, Auth!Running)
    BY <1>1, <2>2, <2>3 DEF Open
  <2> QED
    BY <2>1, <2>4, <2>5, ObjectAlone DEF Linked, t
<1> QED
  BY <1>3, <1>4

(* on_write: the question is sent, or it is given up. *)
LEMMA SentLinked ==
    ASSUME LinkedInv, NEW c \in Conns, on_write(c)
    PROVE  \A d \in Conns : LinkedAt(d)'
<1> DEFINE o == conn[c]
           t == thread[c]
<1>1. PICK p :
         /\ conn' = [conn EXCEPT ![c] = p] /\ ended' = ended
         /\ o.phase = "asking" /\ Content!Running /\ o.callback
         /\ p.callback = o.callback /\ p.req = o.req
         /\ p.dbclient = o.dbclient /\ p.status = 0
         /\ \/ p.phase = "awaiting" /\ p.reply = "none"
            \/ p.phase = "stranded" /\ p.reply = "lost"
  BY AskStep DEF Content!on_write, on_write
<1>2. /\ t \in AuthP!Connections /\ QuestionOK(o, t) /\ Open(o, t, Auth!Running)
      /\ conn'[c] = p
  BY <1>1, Facts DEF Closing
<1>3. t.stream = <<>> /\ t.replies = <<>>
  BY <1>1, <1>2 DEF QuestionOK
<1>4. Content!Running' => Content!Running
  BY <1>1
<1>5. p.reply \notin Users \cup Content!Refusals
  BY <1>1, RepliesAssumption DEF Content!Refusals
<1>6. CASE p.phase = "stranded"
  <2>1. CloseQuestion(c)
    BY <1>2, <1>6 DEF on_write
  <2>2. p.callback /\ p.req.method = "GET" => p.dbclient
    BY <1>1, <1>2 DEF QuestionOK
  <2>3. p.reply = "lost" /\ p.reply \notin Users /\ p.status = 0
    BY <1>1, <1>5, <1>6
  <2> QED
    BY <1>1, <1>4, <1>6, <2>1, <2>2, <2>3, QuestionClosed
<1>7. CASE p.phase = "awaiting" /\ UNCHANGED auth
  <2>1. QuestionOK(p, t) /\ Open(p, t, Auth!Running)
    BY <1>1, <1>2, <1>3, <1>5, <1>7 DEF QuestionOK, Open
  <2> QED
    BY <1>1, <1>7, <2>1, ObjectAlone DEF Linked
<1>8. CASE p.phase = "awaiting" /\ Auth!IsOpen(c) /\ Auth!send(c, Put(c))
  <2>1. /\ thread' = [thread EXCEPT ![c] = [t EXCEPT !.stream = Append(t.stream, Put(c))]]
        /\ authEnded' = authEnded
    BY <1>8 DEF Auth!send, Auth!Become
  <2> DEFINE q == [t EXCEPT !.stream = Append(t.stream, Put(c))]
  <2>2. /\ q.thread = t.thread /\ q.client = t.client /\ q.stream = Append(t.stream, Put(c))
        /\ q.session = t.session /\ q.replies = t.replies
    BY <1>2 DEF AuthP!Connections
  <2>3. Len(q.stream) = 1 /\ q.stream[1] = Put(c) /\ t.thread # "none"
    BY <1>3, <1>8, <2>2 DEF Auth!IsOpen
  <2>4. Put(c) = Question(o.req.token)
    BY DEF Put, Question
  <2> HIDE DEF q, o, t
  <2>5. QuestionOK(p, q)
    BY <1>1, <1>2, <1>3, <1>5, <1>8, <2>2, <2>3, <2>4 DEF QuestionOK
  <2>6. Open(p, q, Auth!Running')
    BY <1>1, <1>2, <1>8, <2>2 DEF Open
  <2>7. Auth!Running' => Auth!Running
    BY <2>1 DEF Auth!Running
  <2> QED
    BY <1>1, <1>4, <2>1, <2>5, <2>6, <2>7, Together DEF Linked, q, t
<1> QED
  BY <1>1, <1>2, <1>6, <1>7, <1>8 DEF on_write

(* on_readRefused: the client is told, and the question's connection stays. *)
LEMMA RefusedLinked ==
    ASSUME LinkedInv, NEW c \in Conns, Content!on_readRefused(c), UNCHANGED auth
    PROVE  \A d \in Conns : LinkedAt(d)'
<1> DEFINE o == conn[c]
           t == thread[c]
           p == [o EXCEPT !.phase = "replying", !.status = Content!StatusOf(o.reply)]
<1>1. /\ o.phase = "awaiting" /\ o.reply \in Content!Refusals /\ Content!Running
      /\ conn' = [conn EXCEPT ![c] = p] /\ ended' = ended
  BY DEF Content!on_readRefused, Content!Become, Content!Answer
<1>2. /\ o \in ContentP!Objects /\ QuestionOK(o, t) /\ Open(o, t, Auth!Running)
  BY <1>1, Facts DEF Closing
<1> HIDE DEF o, t
<1>3. /\ p.phase = "replying" /\ p.req = o.req /\ p.reply = o.reply
      /\ p.callback = o.callback /\ p.dbclient = o.dbclient
  BY <1>2 DEF ContentP!Objects
<1> HIDE DEF p
<1>4. QuestionOK(p, t)
  BY <1>1, <1>2, <1>3 DEF QuestionOK
<1>5. Open(p, t, Auth!Running)
  BY <1>1, <1>2, <1>3 DEF Open, QuestionOK
<1> QED
  BY <1>1, <1>4, <1>5, ObjectAlone DEF Linked, t

(* on_readError: the answer is lost. *)
LEMMA ErrorLinked ==
    ASSUME LinkedInv, NEW c \in Conns, Content!on_readError(c), CloseQuestion(c)
    PROVE  \A d \in Conns : LinkedAt(d)'
<1> DEFINE o == conn[c]
           p == [o EXCEPT !.phase = "stranded"]
<1>1. /\ o.phase = "awaiting" /\ o.reply = "lost" /\ Content!Running
      /\ conn' = [conn EXCEPT ![c] = p] /\ ended' = ended
  BY DEF Content!on_readError, Content!Become
<1>2. /\ o \in ContentP!Objects /\ QuestionOK(o, thread[c])
  BY <1>1, Facts
<1> HIDE DEF o
<1>3. /\ p.phase = "stranded" /\ p.req = o.req /\ p.reply = o.reply
      /\ p.callback = o.callback /\ p.dbclient = o.dbclient /\ p.status = o.status
  BY <1>2 DEF ContentP!Objects
<1> HIDE DEF p
<1>4. /\ p.callback /\ p.req.method = "GET" => p.dbclient
      /\ p.status # 0 => p.phase = "replying"
  BY <1>1, <1>2, <1>3 DEF QuestionOK
<1>5. p.reply = "lost" /\ (p.reply \in Users => p.reply = o.reply)
  BY <1>1, <1>3
<1> QED
  BY <1>1, <1>3, <1>4, <1>5, QuestionClosed DEF o

(* on_read calls callback_ with an id. *)
Called(c) == \/ Content!callbackGet(c) \/ Content!callbackPostCaught(c)
             \/ Content!callbackPost(c) \/ Content!callbackPostUnknown(c)

(* What a callback leaves. *)
LEMMA CallbackStep ==
    ASSUME LinkedInv, NEW c \in Conns, Called(c)
    PROVE  /\ conn[c].phase = "awaiting" /\ conn[c].reply \in Users /\ Content!Running
           /\ \E p :
                /\ conn' = [conn EXCEPT ![c] = p]
                /\ p.callback = conn[c].callback /\ p.req = conn[c].req
                /\ p.reply = conn[c].reply
                /\ conn[c].dbclient => p.dbclient
                /\ \/ p.phase = "replying"
                   \/ p.phase = "crashed" /\ p.status = conn[c].status /\ ended' = "no session"
<1> DEFINE o == conn[c]
<1>1. Content!HasId(c)
  BY DEF Called, Content!callbackGet, Content!callbackPostCaught, Content!callbackPost,
         Content!callbackPostUnknown
<1>2. o.phase = "awaiting" /\ o.reply \in Users /\ Content!Running /\ o \in ContentP!Objects
  BY <1>1, Facts DEF Content!HasId
<1>3. \/ Content!Crash(c, o, "no session")
      \/ \E s : \/ Content!Finish(c, Content!Answer(o, s))
                \/ Content!Finish(c, Content!Holding(Content!Answer(o, s)))
                \/ Content!Finish(c, [Content!Holding(Content!Answer(o, s))
                                         EXCEPT !.applied = TRUE])
  BY Zenon DEF Called, Content!callbackGet, Content!callbackPostCaught, Content!callbackPost,
         Content!callbackPostUnknown
<1>4. ASSUME Content!Crash(c, o, "no session")
      PROVE  \E p :
                /\ conn' = [conn EXCEPT ![c] = p]
                /\ p.callback = o.callback /\ p.req = o.req /\ p.reply = o.reply
                /\ o.dbclient => p.dbclient
                /\ p.phase = "crashed" /\ p.status = o.status /\ ended' = "no session"
  <2> DEFINE p == [o EXCEPT !.phase = "crashed"]
  <2>1. conn' = [conn EXCEPT ![c] = p] /\ ended' = "no session"
    BY <1>4 DEF Content!Crash, Content!Become
  <2> HIDE DEF o
  <2>2. /\ p.callback = o.callback /\ p.req = o.req /\ p.reply = o.reply
        /\ p.dbclient = o.dbclient /\ p.phase = "crashed" /\ p.status = o.status
    BY <1>2 DEF ContentP!Objects
  <2> HIDE DEF p
  <2> QED
    BY <2>1, <2>2
<1>5. ASSUME NEW s,
             \/ Content!Finish(c, Content!Answer(o, s))
             \/ Content!Finish(c, Content!Holding(Content!Answer(o, s)))
             \/ Content!Finish(c, [Content!Holding(Content!Answer(o, s)) EXCEPT !.applied = TRUE])
      PROVE  \E p :
                /\ conn' = [conn EXCEPT ![c] = p]
                /\ p.callback = o.callback /\ p.req = o.req /\ p.reply = o.reply
                /\ o.dbclient => p.dbclient
                /\ p.phase = "replying"
  <2>1. PICK p \in {Content!Answer(o, s), Content!Holding(Content!Answer(o, s)),
                    [Content!Holding(Content!Answer(o, s)) EXCEPT !.applied = TRUE]} :
           conn' = [conn EXCEPT ![c] = p]
    BY <1>5 DEF Content!Finish, Content!Become
  <2> HIDE DEF o
  <2> DEFINE Kept(q) == /\ q.callback = o.callback /\ q.req = o.req /\ q.reply = o.reply
                        /\ q.phase = "replying" /\ q.dbclient \in {o.dbclient, TRUE}
  <2>2. Kept(Content!Answer(o, s))
    BY <1>2 DEF ContentP!Objects, Content!Answer
  <2>3. Kept(Content!Holding(Content!Answer(o, s)))
    BY <1>2 DEF ContentP!Objects, Content!Answer, Content!Holding
  <2>4. Kept([Content!Holding(Content!Answer(o, s)) EXCEPT !.applied = TRUE])
    BY <1>2 DEF ContentP!Objects, Content!Answer, Content!Holding
  <2>5. Kept(p)
    BY <2>1, <2>2, <2>3, <2>4
  <2> QED
    BY <2>1, <2>5
<1> QED
  BY <1>2, <1>3, <1>4, <1>5

(* The callback answers and closes, or an exception ends the process. *)
LEMMA CallbackLinked ==
    ASSUME LinkedInv, NEW c \in Conns, Called(c),
           IF Content!Running' THEN CloseQuestion(c) ELSE UNCHANGED auth
    PROVE  \A d \in Conns : LinkedAt(d)'
<1> DEFINE o == conn[c]
           t == thread[c]
<1>1. /\ o.phase = "awaiting" /\ o.reply \in Users /\ Content!Running
  BY CallbackStep
<1>2. PICK p :
        /\ conn' = [conn EXCEPT ![c] = p]
        /\ p.callback = o.callback /\ p.req = o.req /\ p.reply = o.reply
        /\ o.dbclient => p.dbclient
        /\ \/ p.phase = "replying"
           \/ p.phase = "crashed" /\ p.status = o.status /\ ended' = "no session"
  BY CallbackStep
<1>3. QuestionOK(o, t) /\ o \in ContentP!Objects
  BY Facts
<1>4. CASE Content!Running'
  <2>1. p.phase = "replying" /\ CloseQuestion(c)
    BY <1>2, <1>4 DEF Content!Running
  <2>2. p.callback /\ p.req.method = "GET" => p.dbclient
    BY <1>2, <1>3 DEF QuestionOK
  <2> QED
    BY <1>1, <1>2, <2>1, <2>2, QuestionClosed
<1>5. CASE ~Content!Running'
  <2>1. UNCHANGED auth
    BY <1>5
  <2>2. p.status # 0 => p.phase \in {"replying", "closed"}
    BY <1>1, <1>2, <1>3 DEF QuestionOK
  <2> HIDE DEF o, t
  <2>3. QuestionOK(p, t)
    <3>1. p.phase \notin {"resolving", "connecting", "asking"}
      BY <1>2
    <3> QED
      BY <1>1, <1>2, <1>3, <2>2, <3>1 DEF QuestionOK
  <2> QED
    BY <1>1, <1>2, <1>5, <2>1, <2>3, ObjectAlone DEF Linked, t
<1> QED
  BY <1>4, <1>5

-----------------------------------------------------------------------------
(* The auth server's parser and buffer have the same names in both.        *)
LEMMA SameParse ==
    /\ Auth!Guarded = AuthP!Guarded /\ Auth!Wanted("getId") = AuthP!Guarded
    /\ \A t : /\ Auth!parse(t) = AuthP!parse(t)
              /\ Auth!First(t) = AuthP!First(t) /\ Auth!Asked(t) = AuthP!Asked(t)
              /\ \A targets : Auth!TokenOf(t, targets) = AuthP!TokenOf(t, targets)
<1>1. Auth!Guarded = AuthP!Guarded /\ Auth!Wanted("getId") = AuthP!Guarded
  BY DEF Auth!Wanted, Auth!Guarded, Auth!GuardedGets, AuthP!Guarded, AuthP!GuardedGets
<1>2. \A t : /\ Auth!parse(t) = AuthP!parse(t)
             /\ Auth!First(t) = AuthP!First(t) /\ Auth!Asked(t) = AuthP!Asked(t)
             /\ \A targets : Auth!TokenOf(t, targets) = AuthP!TokenOf(t, targets)
  BY Zenon DEF
       Auth!parse, Auth!parseRest, Auth!parseFull,
       Auth!check_is_full_request, Auth!Asked, Auth!First,
       Auth!RequestAt, Auth!HeadersEnd, Auth!Method, Auth!WithHeaders,
       Auth!Presenting, Auth!TokenOf, Auth!Wanted, Auth!Guarded,
       Auth!GuardedGets, Auth!Parsed, Auth!NoOrigin, Auth!Unparsable,
       Auth!Unknown, AuthP!parse, AuthP!parseRest, AuthP!parseFull,
       AuthP!check_is_full_request, AuthP!Asked, AuthP!First,
       AuthP!RequestAt, AuthP!HeadersEnd, AuthP!Method,
       AuthP!WithHeaders, AuthP!Presenting, AuthP!TokenOf, AuthP!Wanted,
       AuthP!Guarded, AuthP!GuardedGets, AuthP!Parsed, AuthP!NoOrigin,
       AuthP!Unparsable, AuthP!Unknown
<1> QED
  BY <1>1, <1>2

(* What is in the buffer is the question. *)
LEMMA TheQuestion ==
    ASSUME LinkedInv, NEW c \in Conns, thread[c].from < thread[c].to
    PROVE  /\ thread[c].stream # <<>> /\ Len(thread[c].stream) = 1
           /\ thread[c].to <= 4 /\ thread[c].from \in Nat /\ thread[c].to \in Nat
           /\ Auth!First(thread[c]) = 1
           /\ Auth!Asked(thread[c]) = Question(conn[c].req.token)
<1> DEFINE t == thread[c]
<1>1. t \in AuthP!Connections /\ QuestionOK(conn[c], t)
  BY Facts
<1>2. t.from \in Nat /\ t.to \in Nat /\ Len(t.stream) \in Nat /\ t.stream \in Seq(Questions)
  BY <1>1 DEF AuthP!Connections
<1>3. t.to <= 4 * Len(t.stream)
  BY DEF LinkedInv, AuthLinked, AuthP!TypeOK, AuthP!End
<1>4. Len(t.stream) = 1 /\ t.from < 4 /\ t.to <= 4
  <2>1. Len(t.stream) <= 1
    BY <1>1 DEF QuestionOK
  <2>2. \A n, f, e \in Nat : f < e /\ e <= 4 * n /\ n <= 1 => n = 1 /\ f < 4 /\ e <= 4
    OBVIOUS
  <2> QED
    BY <1>2, <1>3, <2>1, <2>2
<1>5. t.stream # <<>>
  <2> SUFFICES ASSUME t.stream = <<>> PROVE FALSE
    OBVIOUS
  <2>1. Len(t.stream) = Len(<<>>)
    BY Zenon
  <2>2. Len(<<>>) = 0
    OBVIOUS
  <2>3. Len(t.stream) = 1
    BY <1>4
  <2> QED
    BY <2>1, <2>2, <2>3
<1>6. Auth!First(t) = 1
  BY <1>2, <1>4 DEF Auth!First, Auth!RequestAt
<1>7. Auth!Asked(t) = t.stream[1]
  BY <1>6 DEF Auth!Asked
<1> QED
  BY <1>1, <1>2, <1>4, <1>5, <1>6, <1>7 DEF QuestionOK

(* A question is answered only if it has a token. *)
LEMMA WithToken ==
    ASSUME LinkedInv, NEW c \in Conns, Auth!Parsing(c, "success")
    PROVE  /\ conn[c].req.token # Null
           /\ thread[c].from < thread[c].to /\ thread[c].from + 4 <= thread[c].to
<1> DEFINE t == thread[c]
<1>1. t.thread = "parsing" /\ "success" \in AuthP!parse(t)
  BY SameParse DEF Auth!Parsing
<1>2. t \in AuthP!Connections /\ AuthP!Kept(t) /\ t.from < t.to
  BY <1>1, Facts DEF LinkedInv, AuthLinked, AuthP!ConnOK, AuthP!Staged
<1>3. /\ AuthP!AtHead(t)
      /\ AuthP!Wanted(AuthP!Asked(t).target) # {} =>
            AuthP!Presenting(t, AuthP!Wanted(AuthP!Asked(t).target)) # {}
  <2> HIDE DEF t
  <2> QED
    BY <1>1, <1>2, AuthAssumptions, AuthP!Succeeds, Zenon DEF AuthP!Succeeds
<1>4. AuthP!Asked(t).target = "getId"
  <2>1. Auth!Asked(t) = Question(conn[c].req.token)
    BY <1>2, TheQuestion
  <2>2. Auth!Asked(t) = AuthP!Asked(t)
    BY SameParse, Zenon
  <2> QED
    BY <2>1, <2>2 DEF Question
<1>5. AuthP!Presenting(t, AuthP!Wanted("getId")) # {}
  BY <1>3, <1>4 DEF AuthP!Wanted, AuthP!Guarded, AuthP!GuardedGets
<1>6. PICK k \in DOMAIN t.stream : t.stream[k].token # Null
  BY <1>5 DEF AuthP!Presenting, AuthP!WithHeaders
<1>7. k = 1 /\ t.stream[1] = Question(conn[c].req.token)
  <2>1. /\ Len(t.stream) = 1 /\ t.stream \in Seq(Questions) /\ t.stream # <<>>
    BY <1>2, TheQuestion DEF AuthP!Connections
  <2> QED
    BY <1>6, <2>1, Facts DEF QuestionOK
<1> QED
  BY <1>2, <1>3, <1>6, <1>7 DEF AuthP!AtHead, Question

(* A thread that works on a question has read all of it. *)
LEMMA AtWork ==
    ASSUME LinkedInv, NEW c \in Conns, thread[c].thread = "working"
    PROVE  thread[c].from < thread[c].to /\ thread[c].to = 4
<1> DEFINE t == thread[c]
<1>1. AuthP!AtHead(t) /\ t \in AuthP!Connections
  BY Facts DEF LinkedInv, AuthLinked, AuthP!ConnOK, AuthP!Staged
<1>2. t.from \in Nat /\ t.to \in Nat /\ t.from + 4 <= t.to
  BY <1>1 DEF AuthP!AtHead, AuthP!Connections
<1>3. t.from < t.to
  BY <1>2
<1>4. t.to <= 4
  BY <1>3, TheQuestion
<1> QED
  BY <1>2, <1>3, <1>4

(* A thread that parses or works has not answered yet. *)
LEMMA NotAnswered ==
    ASSUME LinkedInv, NEW c \in Conns, thread[c].thread \in {"parsing", "working"}
    PROVE  /\ thread[c].replies = <<>> /\ thread[c].from < thread[c].to
           /\ thread[c].stream # <<>>
<1>1. thread[c].replies = <<>>
  BY Facts DEF QuestionOK
<1>2. thread[c].from < thread[c].to
  <2>1. CASE thread[c].thread = "parsing"
    BY <2>1 DEF LinkedInv, AuthLinked, AuthP!ConnOK, AuthP!Staged
  <2> QED
    BY <2>1, AtWork
<1> QED
  BY <1>1, <1>2, TheQuestion

-----------------------------------------------------------------------------
(* The steps of the auth server's threads: a thread goes on without a      *)
(* reply, ends the process, or replies.                                    *)

(* With its session, or with one that was free. *)
GoesOn(c, q) ==
    /\ thread' = [thread EXCEPT ![c] = q] /\ authEnded' = authEnded
    /\ Auth!Running
    /\ q.replies = thread[c].replies /\ q.stream = thread[c].stream
    /\ q.client = thread[c].client
    /\ thread[c].thread \notin {"none", "closed"}
    /\ q.session => thread[c].session \/ Free > 0
    /\ QuestionOK(conn[c], q)

(* Of a reset, or of a question without a token. *)
EndsProcess(c) ==
    /\ thread' = thread /\ Auth!Running
    /\ \/ authEnded' = "reset" /\ thread[c].client = "reset"
       \/ /\ authEnded' = "parse" /\ thread[c].session
          /\ conn[c].req.token = Null

(* To a question that brought a token, once. *)
Replies(c, q, status) ==
    /\ thread' = [thread EXCEPT ![c] = q] /\ authEnded' = authEnded
    /\ Auth!Running /\ status \in {200, 401} /\ conn[c].req.token # Null
    /\ thread[c].replies = <<>> /\ thread[c].stream # <<>>
    /\ thread[c].thread \in {"parsing", "working"}
    /\ q.replies # <<>> /\ q.replies[Len(q.replies)].status = status
    /\ q.stream = thread[c].stream /\ q.client = thread[c].client
    /\ q.session /\ q.thread = "reading" /\ q.to = 4

(* run: the session is the database's last but Free. *)
LEMMA RunStep ==
    ASSUME LinkedInv, NEW c \in Conns, AuthStep(c), Auth!run(c)
    PROVE  \E q : GoesOn(c, q)
<1> DEFINE o == conn[c]
           t == thread[c]
<1>1. /\ t \in AuthP!Connections /\ QuestionOK(o, t) /\ thread \in [Conns -> AuthP!Connections]
  BY Facts
<1>2. t.thread = "starting" /\ Auth!Running /\ authEnded' = authEnded
  BY DEF Auth!run
<1>3. t.thread = "starting" => (thread'[c].thread = "reading" <=> Free > 0)
  BY DEF AuthStep
<1>4. t.replies = <<>> /\ t.session = FALSE
  BY <1>1, <1>2 DEF QuestionOK, AuthP!Connections
<1>5. CASE thread' = [thread EXCEPT ![c] = [t EXCEPT !.thread = "reading", !.session = TRUE]]
  <2> DEFINE q == [t EXCEPT !.thread = "reading", !.session = TRUE]
  <2>1. thread'[c] = q
    BY <1>1, <1>5
  <2> HIDE DEF t
  <2>2. /\ q.thread = "reading" /\ q.session = TRUE /\ q.replies = t.replies
        /\ q.stream = t.stream /\ q.client = t.client
    BY <1>1 DEF AuthP!Connections
  <2> HIDE DEF q
  <2>3. QuestionOK(o, q)
    BY <1>1, <1>2, <1>4, <2>2 DEF QuestionOK
  <2>4. Free > 0
    BY <1>2, <1>3, <2>1, <2>2
  <2> QED
    BY <1>2, <1>5, <2>2, <2>3, <2>4, Zenon DEF GoesOn, q, t
<1>6. CASE thread' = [thread EXCEPT ![c] = [t EXCEPT !.thread = "closed"]]
  <2> DEFINE q == [t EXCEPT !.thread = "closed"]
  <2> HIDE DEF t
  <2>2. /\ q.thread = "closed" /\ q.session = FALSE /\ q.replies = t.replies
        /\ q.stream = t.stream /\ q.client = t.client
    BY <1>1, <1>4 DEF AuthP!Connections
  <2> HIDE DEF q
  <2>3. QuestionOK(o, q)
    BY <1>1, <1>2, <1>4, <2>2 DEF QuestionOK
  <2> QED
    BY <1>2, <1>6, <2>2, <2>3, Zenon DEF GoesOn, q, t
<1> QED
  BY <1>5, <1>6 DEF Auth!run, Auth!Become

(* recv: nothing more comes after an answer. *)
LEMMA RecvStep ==
    ASSUME LinkedInv, NEW c \in Conns, Auth!recv(c)
    PROVE  \E q : GoesOn(c, q)
<1> DEFINE o == conn[c]
           t == thread[c]
<1>1. t \in AuthP!Connections /\ QuestionOK(o, t)
  BY Facts
<1>2. t.thread = "reading" /\ Auth!Running /\ authEnded' = authEnded
  BY DEF Auth!recv
<1>3. PICK upto \in t.to + 1..Auth!End(t) :
         thread' = [thread EXCEPT ![c] = [t EXCEPT !.thread = "parsing", !.to = upto]]
  BY DEF Auth!recv, Auth!Become
<1> DEFINE q == [t EXCEPT !.thread = "parsing", !.to = upto]
<1> HIDE DEF t
<1>4. t.replies = <<>>
  <2>1. t.to + 1 <= 4 * Len(t.stream) /\ t.to \in Nat /\ Len(t.stream) \in Nat
    BY <1>1, <1>3 DEF Auth!End, AuthP!Connections
  <2>2. Len(t.stream) <= 1 /\ (t.replies # <<>> => t.to = 4)
    BY <1>1 DEF QuestionOK
  <2> QED
    BY <2>1, <2>2
<1>5. /\ q.thread = "parsing" /\ q.session = t.session /\ q.replies = t.replies
      /\ q.stream = t.stream /\ q.client = t.client
  BY <1>1 DEF AuthP!Connections
<1> HIDE DEF q
<1>6. QuestionOK(o, q)
  BY <1>1, <1>2, <1>4, <1>5 DEF QuestionOK
<1> QED
  BY <1>2, <1>3, <1>5, <1>6, Zenon DEF GoesOn, q, t

(* recvEnd: the content server has closed its end. *)
LEMMA RecvEndStep ==
    ASSUME LinkedInv, NEW c \in Conns, Auth!recvEnd(c)
    PROVE  \E q : GoesOn(c, q)
<1> DEFINE o == conn[c]
           t == thread[c]
           q == [t EXCEPT !.thread = "closed", !.session = FALSE]
<1>1. t \in AuthP!Connections /\ QuestionOK(o, t)
  BY Facts
<1>2. /\ t.thread = "reading" /\ t.client = "closing" /\ Auth!Running /\ authEnded' = authEnded
      /\ thread' = [thread EXCEPT ![c] = q]
  BY DEF Auth!recvEnd, Auth!Become
<1> HIDE DEF t
<1>3. /\ q.thread = "closed" /\ q.session = FALSE /\ q.replies = t.replies
      /\ q.stream = t.stream /\ q.client = t.client /\ q.to = t.to
  BY <1>1 DEF AuthP!Connections
<1> HIDE DEF q
<1>4. QuestionOK(o, q)
  BY <1>1, <1>2, <1>3 DEF QuestionOK
<1> QED
  BY <1>2, <1>3, <1>4, Zenon DEF GoesOn, q, t

(* notFull and discard: what is there is waited for, or cleared away. *)
LEMMA ParsedStep ==
    ASSUME LinkedInv, NEW c \in Conns, Auth!notFull(c) \/ Auth!discard(c)
    PROVE  \E q : GoesOn(c, q)
<1> DEFINE o == conn[c]
           t == thread[c]
<1>1. t \in AuthP!Connections /\ QuestionOK(o, t)
  BY Facts
<1>2. t.thread = "parsing" /\ Auth!Running /\ authEnded' = authEnded
  BY DEF Auth!notFull, Auth!discard, Auth!Parsing
<1>3. t.replies = <<>>
  BY <1>2, NotAnswered
<1>4. PICK q \in {[t EXCEPT !.thread = "reading"], Auth!Clear(t, Auth!WhyDiscarded(t))} :
         thread' = [thread EXCEPT ![c] = q]
  BY DEF Auth!notFull, Auth!discard, Auth!Become
<1> HIDE DEF t
<1>5. /\ q.thread = "reading" /\ q.session = t.session /\ q.replies = t.replies
      /\ q.stream = t.stream /\ q.client = t.client
  <2>1. CASE q = [t EXCEPT !.thread = "reading"]
    BY <1>1, <2>1 DEF AuthP!Connections
  <2>2. CASE q = Auth!Clear(t, Auth!WhyDiscarded(t))
    BY <1>1, <2>2 DEF AuthP!Connections, Auth!Clear
  <2> QED
    BY <1>4, <2>1, <2>2
<1>6. QuestionOK(o, q)
  BY <1>1, <1>2, <1>3, <1>5 DEF QuestionOK
<1> QED
  BY <1>2, <1>4, <1>5, <1>6, Zenon DEF GoesOn, t

(* admit: only a question that has a token is worked on. *)
LEMMA AdmitStep ==
    ASSUME LinkedInv, NEW c \in Conns, Auth!admit(c)
    PROVE  \E q : GoesOn(c, q)
<1> DEFINE o == conn[c]
           t == thread[c]
<1>1. t \in AuthP!Connections /\ QuestionOK(o, t)
  BY Facts
<1>2. t.thread = "parsing" /\ Auth!Running /\ authEnded' = authEnded /\ Auth!Parsing(c, "success")
  BY DEF Auth!admit, Auth!Parsing
<1>3. t.replies = <<>> /\ o.req.token # Null
  BY <1>2, NotAnswered, WithToken
<1>4. PICK token : thread' = [thread EXCEPT ![c] =
                                [t EXCEPT !.thread = "working", !.token = token]]
  BY Zenon DEF Auth!admit, Auth!Become
<1> DEFINE q == [t EXCEPT !.thread = "working", !.token = token]
<1> HIDE DEF t
<1>5. /\ q.thread = "working" /\ q.session = t.session /\ q.replies = t.replies
      /\ q.stream = t.stream /\ q.client = t.client
  BY <1>1 DEF AuthP!Connections
<1> HIDE DEF q
<1>6. QuestionOK(o, q)
  BY <1>1, <1>2, <1>3, <1>5 DEF QuestionOK
<1> QED
  BY <1>2, <1>4, <1>5, <1>6, Zenon DEF GoesOn, q, t

(* recvError and parseThrows: a reset, or a question without a token. *)
LEMMA EndStep ==
    ASSUME LinkedInv, NEW c \in Conns, Auth!recvError(c) \/ Auth!parseThrows(c)
    PROVE  EndsProcess(c)
<1> DEFINE t == thread[c]
<1>1. CASE Auth!recvError(c)
  BY <1>1 DEF Auth!recvError, EndsProcess
<1>2. CASE Auth!parseThrows(c)
  <2>1. /\ thread' = thread /\ Auth!Running /\ authEnded' = "parse"
        /\ t.thread = "parsing" /\ "throws" \in AuthP!parse(t)
    BY <1>2, SameParse DEF Auth!parseThrows, Auth!Parsing
  <2>2. t \in AuthP!Connections /\ AuthP!Kept(t) /\ t.from < t.to
    BY <2>1, Facts, NotAnswered DEF LinkedInv, AuthLinked, AuthP!ConnOK
  <2>3. Auth!Asked(t) = Question(conn[c].req.token) /\ Auth!First(t) = 1
    BY <2>2, TheQuestion
  <2>4. AuthP!Asked(t) = Question(conn[c].req.token) /\ AuthP!First(t) = 1
    BY <2>3, SameParse, Zenon
  <2>5. \/ AuthP!Method[AuthP!Asked(t).target] = "POST" /\ AuthP!Asked(t).flaw = "length"
        \/ AuthP!AtHead(t) /\ AuthP!Unparsable(t)
    <3> HIDE DEF t
    <3> QED
      BY <2>1, <2>2, AuthAssumptions, AuthP!Throwing, Zenon DEF AuthP!Throwing
  <2>6. AuthP!AtHead(t) /\ AuthP!Presenting(t, AuthP!Guarded) = {}
    BY <2>4, <2>5
       DEF Question, AuthP!Unparsable, AuthP!Wanted, AuthP!Guarded, AuthP!GuardedGets
  <2>7. 1 \in AuthP!WithHeaders(t)
    <3> HIDE DEF t
    <3>1. AuthP!First(t) \in AuthP!WithHeaders(t)
      BY <2>2, <2>6, AuthAssumptions, AuthP!HeadersAt, Zenon DEF AuthP!HeadersAt
    <3> QED
      BY <2>4, <3>1
  <2>8. t.stream[1] = Question(conn[c].req.token)
    BY <2>4 DEF AuthP!Asked
  <2>9. conn[c].req.token = Null
    BY <2>6, <2>7, <2>8 DEF AuthP!Presenting, AuthP!Guarded, AuthP!GuardedGets, Question
  <2>10. t.session
    BY <2>1, Facts DEF QuestionOK
  <2> QED
    BY <2>1, <2>9, <2>10 DEF EndsProcess
<1> QED
  BY <1>1, <1>2

(* refuse and answer: a question is answered 401 or 200.                   *)
LEMMA ReplyStep ==
    ASSUME LinkedInv, NEW c \in Conns, Auth!refuse(c) \/ Auth!answer(c)
    PROVE  \E q, status : Replies(c, q, status)
<1> DEFINE o == conn[c]
           t == thread[c]
<1>1. t \in AuthP!Connections /\ QuestionOK(o, t)
  BY Facts
<1>2. Auth!Running /\ authEnded' = authEnded /\ t.thread \in {"parsing", "working"}
  BY DEF Auth!refuse, Auth!answer, Auth!Parsing, Auth!Working
<1>3. /\ t.replies = <<>> /\ t.from < t.to /\ t.stream # <<>> /\ t.session
  BY <1>1, <1>2, NotAnswered DEF QuestionOK
<1>4. Auth!First(t) = 1 /\ Auth!Asked(t).target = "getId" /\ t.to <= 4
      /\ t.from \in Nat /\ t.to \in Nat
  <2>1. t.from < t.to
    BY <1>3
  <2>2. Auth!Asked(t) = Question(o.req.token)
    BY <2>1, TheQuestion
  <2>3. Auth!First(t) = 1 /\ t.to <= 4 /\ t.from \in Nat /\ t.to \in Nat
    BY <2>1, TheQuestion
  <2> QED
    BY <2>2, <2>3 DEF Question
<1>5. CASE Auth!refuse(c)
  <2>1. thread' = [thread EXCEPT ![c] = Auth!Refuse(t)] /\ Auth!Parsing(c, "success")
    BY <1>5 DEF Auth!refuse, Auth!Become
  <2>2. o.req.token # Null /\ t.to = 4
    <3>1. o.req.token # Null /\ t.from + 4 <= t.to
      BY <2>1, WithToken
    <3> QED
      BY <3>1, <1>4
  <2> DEFINE q == Auth!Refuse(t)
  <2> HIDE DEF t
  <2>3. /\ q.thread = "reading" /\ q.session = t.session /\ q.stream = t.stream
        /\ q.client = t.client /\ q.to = t.to
        /\ q.replies = Append(t.replies, [req |-> Auth!First(t), status |-> 401])
    BY <1>1 DEF AuthP!Connections, Auth!Refuse, Auth!Reply
  <2> HIDE DEF q
  <2>4. q.replies # <<>> /\ q.replies[Len(q.replies)].status = 401
    BY <1>3, <2>3
  <2>5. thread' = [thread EXCEPT ![c] = q]
    BY <2>1 DEF q
  <2>6. /\ t.stream = thread[c].stream /\ t.client = thread[c].client
        /\ t.replies = thread[c].replies /\ t.thread = thread[c].thread
    BY DEF t
  <2>7. Replies(c, q, 401)
    BY <1>2, <1>3, <2>2, <2>3, <2>4, <2>5, <2>6 DEF Replies
  <2> QED
    BY <2>7, Zenon
<1>6. CASE Auth!answer(c)
  <2>1. thread' = [thread EXCEPT ![c] = Auth!Answer(t, 200)] /\ t.thread = "working"
    BY <1>4, <1>6 DEF Auth!answer, Auth!Become, Auth!Working
  <2>2. o.req.token # Null /\ t.to = 4
    BY <1>1, <2>1, AtWork DEF QuestionOK
  <2> DEFINE q == Auth!Answer(t, 200)
  <2> HIDE DEF t
  <2>3. /\ q.thread = "reading" /\ q.session = t.session /\ q.stream = t.stream
        /\ q.client = t.client /\ q.to = t.to
        /\ q.replies = Append(t.replies, [req |-> Auth!First(t), status |-> 200])
    BY <1>1 DEF AuthP!Connections, Auth!Answer, Auth!Clear, Auth!Reply
  <2> HIDE DEF q
  <2>4. q.replies # <<>> /\ q.replies[Len(q.replies)].status = 200
    BY <1>3, <2>3
  <2>5. thread' = [thread EXCEPT ![c] = q]
    BY <2>1 DEF q
  <2>6. /\ t.stream = thread[c].stream /\ t.client = thread[c].client
        /\ t.replies = thread[c].replies /\ t.thread = thread[c].thread
    BY DEF t
  <2>7. Replies(c, q, 200)
    BY <1>2, <1>3, <2>2, <2>3, <2>4, <2>5, <2>6 DEF Replies
  <2> QED
    BY <2>7, Zenon
<1> QED
  BY <1>5, <1>6

(* Every step of a thread is one of these: no call of the database is made *)
(* for a question.                                                         *)
LEMMA ThreadSteps ==
    ASSUME LinkedInv, NEW c \in Conns, AuthStep(c)
    PROVE  \/ \E q : GoesOn(c, q)
           \/ EndsProcess(c)
           \/ \E q, status : Replies(c, q, status)
<1>1. Auth!Thread(c)
  BY DEF AuthStep
<1>2. ~(Auth!succeed(c) \/ Auth!fail(c) \/ Auth!inDoubt(c))
  <2> SUFFICES ASSUME thread[c].thread = "working",
                      \/ Auth!Asked(thread[c]).target \notin {"options", "getId"}
                      \/ Auth!Asked(thread[c]).target \in DOMAIN Auth!FailedStatus
                      \/ Auth!Asked(thread[c]).target \in Auth!Effectful
               PROVE  FALSE
    BY DEF Auth!succeed, Auth!fail, Auth!inDoubt, Auth!Working
  <2>1. Auth!Asked(thread[c]) = Question(conn[c].req.token)
    BY AtWork, TheQuestion
  <2> QED
    BY <2>1 DEF Question, Auth!FailedStatus, Auth!Effectful, Auth!Inserting, Auth!Matching
<1> QED
  BY <1>1, <1>2, RunStep, RecvStep, RecvEndStep, ParsedStep, AdmitStep, EndStep, ReplyStep
     DEF Auth!Thread

(* When neither an object nor a question changes nothing is disturbed. *)
LEMMA NothingLinked ==
    ASSUME LinkedInv, conn' = conn, thread' = thread,
           Content!Running' => Content!Running, Auth!Running' => Auth!Running
    PROVE  \A d \in Conns : LinkedAt(d)'
<1> SUFFICES ASSUME NEW d \in Conns PROVE LinkedAt(d)'
  OBVIOUS
<1>1. LinkedAt(d)
  BY DEF LinkedInv, LinkedAt
<1>2. QuestionOK(conn[d], thread[d]) <=> QuestionOK(conn[d], thread[d])'
  BY DEF QuestionOK, Content!Refusals, Auth!NoConnection
<1> QED
  BY <1>1, <1>2 DEF LinkedAt, Linked, Open, Closing

(* The end of the auth server, or of its thread, is noticed by the read. *)
LEMMA LostLinked ==
    ASSUME LinkedInv, NEW c \in Conns, Lost(c)
    PROVE  \A d \in Conns : LinkedAt(d)'
<1> DEFINE o == conn[c]
           t == thread[c]
           p == [o EXCEPT !.reply = "lost"]
<1>1. /\ o.phase = "awaiting" /\ o.reply = "none" /\ Content!Running
      /\ conn' = [conn EXCEPT ![c] = p] /\ ended' = ended /\ UNCHANGED auth
      /\ t.thread = "closed" \/ ~Auth!Running
  BY DEF Lost, Content!AuthAnswers, Content!Become
<1>2. o \in ContentP!Objects /\ QuestionOK(o, t) /\ Open(o, t, Auth!Running)
  BY <1>1, Facts DEF Closing
<1>3. "lost" \notin Users \cup Content!Refusals
  BY RepliesAssumption DEF Content!Refusals
<1> HIDE DEF o, t
<1>4. /\ p.phase = o.phase /\ p.req = o.req /\ p.reply = "lost"
      /\ p.callback = o.callback /\ p.dbclient = o.dbclient /\ p.status = o.status
  BY <1>2 DEF ContentP!Objects
<1> HIDE DEF p
<1>5. QuestionOK(p, t)
  BY <1>2, <1>3, <1>4 DEF QuestionOK
<1>6. Open(p, t, Auth!Running)
  BY <1>1, <1>2 DEF Open
<1> QED
  BY <1>1, <1>5, <1>6, ObjectAlone DEF Linked, t

(* The end of the content server closes its ends of all questions. *)
LEMMA GoneLinked ==
    ASSUME LinkedInv, NEW c \in Conns, Gone(c)
    PROVE  \A d \in Conns : LinkedAt(d)'
<1> DEFINE o == conn[c]
           t == thread[c]
<1>1. PICK how \in {"closing", "reset"} : Auth!close(c, how)
  BY DEF Gone
<1>2. /\ thread' = [thread EXCEPT ![c] = [t EXCEPT !.client = how]] /\ authEnded' = authEnded
      /\ t.thread # "none" /\ t.client = "open"
      /\ conn' = conn /\ ended' = ended /\ ~Content!Running
  BY <1>1 DEF Gone, Auth!close, Auth!IsOpen, Auth!Become, content
<1> DEFINE q == [t EXCEPT !.client = how]
<1>3. t \in AuthP!Connections /\ QuestionOK(o, t) /\ conn \in [Conns -> ContentP!Objects]
  BY Facts
<1>4. conn' = [conn EXCEPT ![c] = o]
  BY <1>2, <1>3
<1>5. (Content!Running' <=> Content!Running) /\ (Auth!Running' <=> Auth!Running)
  BY <1>2 DEF Content!Running, Auth!Running
<1> HIDE DEF o, t
<1>6. /\ q.thread = t.thread /\ q.stream = t.stream
      /\ q.session = t.session /\ q.replies = t.replies /\ q.to = t.to
  BY <1>3 DEF AuthP!Connections
<1> HIDE DEF q
<1>7. QuestionOK(o, q)
  BY <1>2, <1>3, <1>6 DEF QuestionOK
<1>8. Linked(o, q, Content!Running', Auth!Running')
  BY <1>2, <1>5, <1>7 DEF Linked
<1> QED
  BY <1>2, <1>4, <1>5, <1>8, Together DEF q, t

(* A thread's reply reaches the object that asked, if there still is one:  *)
(* its own id, or a refusal.                                               *)
LEMMA Delivered ==
    ASSUME LinkedInv, NEW c \in Conns, NEW q, NEW status, Deliver(c), Replies(c, q, status)
    PROVE  \/ ~Content!Running /\ conn' = conn
           \/ /\ Content!Running /\ conn[c].phase = "awaiting" /\ conn[c].reply = "none"
              /\ thread[c].client = "open"
              /\ \E r \in Users \cup {"unauthorized"} :
                    /\ r \in Users => r = conn[c].req.token
                    /\ conn' = [conn EXCEPT ![c] = [conn[c] EXCEPT !.reply = r]]
<1> DEFINE o == conn[c]
           t == thread[c]
<1>1. o \in ContentP!Objects /\ thread \in [Conns -> AuthP!Connections]
      /\ (Content!Running => Open(o, t, Auth!Running) \/ Closing(o, t, Auth!Running))
  BY Facts
<1>2. thread'[c] = q
  BY <1>1 DEF Replies
<1>3. /\ t.replies = <<>> /\ q.replies # <<>> /\ q.replies[Len(q.replies)].status = status
      /\ t.stream # <<>> /\ t.thread \in {"parsing", "working"} /\ Auth!Running
      /\ status \in {200, 401} /\ o.req.token # Null
  BY DEF Replies
<1>4. CASE ~Content!Running
  BY <1>4 DEF Deliver
<1>5. CASE Content!Running
  <2>1. conn' = [conn EXCEPT ![c].reply = ReplyOf(c, status)]
    BY <1>2, <1>3, <1>5 DEF Deliver
  <2>2. o.phase = "awaiting" /\ o.reply = "none" /\ t.client = "open"
    BY <1>1, <1>3, <1>5 DEF Open, Closing
  <2>3. o.req.token \in Users
    <3>1. o.req \in ContentP!Requests \cup {ContentP!NoRequest}
      BY <1>1 DEF ContentP!Objects
    <3>2. o.req.token \in Users \cup {Null}
      BY <3>1 DEF ContentP!Requests, ContentP!NoRequest
    <3> QED
      BY <1>3, <3>2
  <2>4. CASE status = 200
    <3>1. ReplyOf(c, status) = o.req.token
      BY <2>4 DEF ReplyOf
    <3> QED
      BY <1>5, <2>1, <2>2, <2>3, <3>1
  <2>5. CASE status = 401
    <3>1. ReplyOf(c, status) = "unauthorized"
      BY <2>5 DEF ReplyOf
    <3>2. "unauthorized" \notin Users
      BY RepliesAssumption
    <3> QED
      BY <1>5, <2>1, <2>2, <3>1, <3>2
  <2> QED
    BY <1>3, <2>4, <2>5
<1> QED
  BY <1>4, <1>5
(* The threads of the auth server leave objects and questions in order. *)
LEMMA AuthStepLinked ==
    ASSUME LinkedInv, NEW c \in Conns, AuthStep(c)
    PROVE  \A d \in Conns : LinkedAt(d)'
<1> DEFINE o == conn[c]
           t == thread[c]
<1>1. /\ o \in ContentP!Objects /\ t \in AuthP!Connections /\ QuestionOK(o, t)
      /\ (Content!Running => Open(o, t, Auth!Running) \/ Closing(o, t, Auth!Running))
      /\ conn \in [Conns -> ContentP!Objects] /\ thread \in [Conns -> AuthP!Connections]
  BY Facts
<1>2. Deliver(c) /\ ended' = ended /\ conn = [conn EXCEPT ![c] = o]
  BY <1>1 DEF AuthStep
<1>3. Content!Running' <=> Content!Running
  BY <1>2 DEF Content!Running
<1>4. ASSUME NEW q, GoesOn(c, q)
      PROVE  \A d \in Conns : LinkedAt(d)'
  <2>1. /\ thread' = [thread EXCEPT ![c] = q] /\ authEnded' = authEnded /\ Auth!Running
        /\ q.replies = t.replies /\ q.stream = t.stream /\ q.client = t.client
        /\ t.thread \notin {"none", "closed"} /\ QuestionOK(o, q)
    BY <1>4 DEF GoesOn
  <2>2. conn' = conn
    <3>1. thread'[c] = q
      BY <1>1, <2>1
    <3> QED
      BY <1>2, <2>1, <3>1 DEF Deliver
  <2>3. Auth!Running' <=> Auth!Running
    BY <2>1 DEF Auth!Running
  <2> HIDE DEF o, t
  <2>4. Content!Running => Open(o, q, Auth!Running) \/ Closing(o, q, Auth!Running)
    BY <1>1, <2>1 DEF Open, Closing
  <2>5. Linked(o, q, Content!Running', Auth!Running')
    BY <1>3, <2>1, <2>3, <2>4 DEF Linked, Open, Closing
  <2>6. conn' = [conn EXCEPT ![c] = o]
    BY <1>2, <2>2
  <2> QED
    BY <1>3, <2>1, <2>3, <2>5, <2>6, Together
<1>5. ASSUME EndsProcess(c)
      PROVE  \A d \in Conns : LinkedAt(d)'
  <2>1. thread' = thread /\ Auth!Running
    BY <1>5 DEF EndsProcess
  <2>2. conn' = conn
    BY <1>2, <2>1 DEF Deliver
  <2> QED
    BY <1>3, <2>1, <2>2, NothingLinked
<1>6. ASSUME NEW q, NEW status, Replies(c, q, status)
      PROVE  \A d \in Conns : LinkedAt(d)'
  <2>1. /\ thread' = [thread EXCEPT ![c] = q] /\ authEnded' = authEnded /\ Auth!Running
        /\ o.req.token # Null /\ t.replies = <<>> /\ t.stream # <<>>
        /\ t.thread \in {"parsing", "working"}
        /\ q.replies # <<>> /\ q.stream = t.stream /\ q.client = t.client
        /\ q.session /\ q.thread = "reading" /\ q.to = 4
    BY <1>6 DEF Replies
  <2>2. Auth!Running' <=> Auth!Running
    BY <2>1 DEF Auth!Running
  <2>3. ASSUME NEW p, conn' = [conn EXCEPT ![c] = p], QuestionOK(p, q),
               Content!Running => t.client = "open" /\ p.phase = "awaiting"
        PROVE  \A d \in Conns : LinkedAt(d)'
    <3>1. Content!Running => Open(p, q, Auth!Running')
      BY <2>1, <2>3 DEF Open
    <3>2. Linked(p, q, Content!Running', Auth!Running')
      BY <1>3, <2>3, <3>1 DEF Linked
    <3> QED
      BY <1>3, <2>1, <2>2, <2>3, <3>2, Together
  <2>4. CASE ~Content!Running /\ conn' = conn
    <3> HIDE DEF o, t
    <3>1. QuestionOK(o, q)
      BY <1>1, <2>1 DEF QuestionOK
    <3> QED
      BY <1>2, <2>3, <2>4, <3>1
  <2>5. ASSUME NEW r \in Users \cup {"unauthorized"}, t.client = "open",
               o.phase = "awaiting",
               conn' = [conn EXCEPT ![c] = [o EXCEPT !.reply = r]]
        PROVE  \A d \in Conns : LinkedAt(d)'
    <3> DEFINE p == [o EXCEPT !.reply = r]
    <3> HIDE DEF o, t
    <3>1. /\ p.phase = o.phase /\ p.req = o.req /\ p.reply = r /\ p.status = o.status
          /\ p.callback = o.callback /\ p.dbclient = o.dbclient
      BY <1>1 DEF ContentP!Objects
    <3> HIDE DEF p
    <3>2. r # "no_id"
      BY RepliesAssumption
    <3>3. QuestionOK(p, q)
      BY <1>1, <2>1, <2>5, <3>1, <3>2 DEF QuestionOK
    <3>4. p.phase = "awaiting"
      BY <2>5, <3>1
    <3> QED
      BY <2>3, <2>5, <3>3, <3>4 DEF p
  <2> QED
    BY <1>2, <1>6, <2>4, <2>5, Delivered
<1> QED
  BY <1>4, <1>5, <1>6, ThreadSteps

-----------------------------------------------------------------------------
(* Sessions. *)
Held == {c \in Conns : thread[c].session}

(* They are finitely many, and all of them are the database's. *)
LEMMA SessionFacts ==
    ASSUME LinkedInv
    PROVE  /\ MaxSessions \in Nat /\ AuthSessions \in Nat /\ Content!Sessions \in Nat
           /\ Cardinality(Held) \in Nat
           /\ AuthSessions = IF Auth!Running THEN visitors + Cardinality(Held) ELSE 0
           /\ AuthSessions <= MaxSessions
           /\ Content!Running => Content!Sessions + AuthSessions <= MaxSessions
<1>1. \A S \in SUBSET Conns : Cardinality(S) \in Nat
  BY FiniteAssumption, FS_Subset, FS_CardinalityType
<1>2. AuthSessions = IF Auth!Running THEN visitors + Cardinality(Held) ELSE 0
  BY DEF AuthSessions, Held
<1>3. Cardinality(Held) \in Nat /\ visitors \in Nat
  BY <1>1 DEF Held, LinkedInv
<1>4. AuthSessions \in Nat
  BY <1>2, <1>3
<1>5. Content!Sessions \in Nat /\ ContentP!Sessions = Content!Sessions
  BY <1>1, SameCounts DEF Content!Sessions, ContentP!Sessions
<1>6. /\ AuthSessions \in 0..MaxSessions
      /\ ContentP!Running => ContentP!Sessions + AuthSessions <= MaxSessions
  BY DEF LinkedInv, ContentP!ContentInv, ContentP!TypeOK
<1> QED
  BY <1>2, <1>3, <1>4, <1>5, <1>6, SameRunning, SessionsAssumption

(* A step of one thread takes or gives back at most its own session. *)
LEMMA HeldAfter ==
    ASSUME LinkedInv, NEW c \in Conns, NEW q, thread' = [thread EXCEPT ![c] = q]
    PROVE  /\ Cardinality(Held') \in Nat
           /\ Cardinality(Held') <= Cardinality(Held) + 1
           /\ (q.session => thread[c].session) => Cardinality(Held') <= Cardinality(Held)
           /\ (q.session <=> thread[c].session) => Held' = Held
<1>1. /\ Held \subseteq Conns /\ Held' \subseteq Conns /\ IsFiniteSet(Held)
      /\ IsFiniteSet(Held') /\ IsFiniteSet(Held \cup {c})
  <2>1. Held \subseteq Conns /\ Held' \subseteq Conns
    BY DEF Held
  <2>2. Held \cup {c} \subseteq Conns
    BY <2>1
  <2> QED
    BY <2>1, <2>2, FiniteAssumption, FS_Subset
<1>2. thread'[c] = q /\ \A d \in Conns \ {c} : thread'[d] = thread[d]
  BY Facts
<1>3. Held' \subseteq Held \cup {c}
  BY <1>2 DEF Held
<1>4. (q.session => thread[c].session) => Held' \subseteq Held
  BY <1>2 DEF Held
<1>5. (q.session <=> thread[c].session) => Held' = Held
  BY <1>2 DEF Held
<1>6. /\ Cardinality(Held') \in Nat /\ Cardinality(Held) \in Nat
      /\ Cardinality(Held \cup {c}) \in Nat
  BY <1>1, FS_CardinalityType
<1>7. Cardinality(Held \cup {c}) <= Cardinality(Held) + 1
  <2>1. \/ Cardinality(Held \cup {c}) = Cardinality(Held)
        \/ Cardinality(Held \cup {c}) = Cardinality(Held) + 1
    BY <1>1, FS_AddElement, Zenon
  <2> DEFINE n == Cardinality(Held)  m == Cardinality(Held \cup {c})
  <2>2. n \in Nat /\ (m = n \/ m = n + 1)
    BY <1>6, <2>1
  <2> HIDE DEF n, m
  <2>3. m <= n + 1
    BY <2>2
  <2> QED
    BY <2>3 DEF n, m
<1>8. Cardinality(Held') <= Cardinality(Held \cup {c})
  BY <1>1, <1>3, FS_Subset
<1>9. (q.session => thread[c].session) => Cardinality(Held') <= Cardinality(Held)
  BY <1>1, <1>4, FS_Subset
<1> QED
  BY <1>5, <1>6, <1>7, <1>8, <1>9

(* A thread that neither takes nor gives back its session changes nothing. *)
LEMMA SameSessions ==
    ASSUME LinkedInv, NEW c \in Conns, NEW q, thread' = [thread EXCEPT ![c] = q],
           q.session <=> thread[c].session, authEnded' = authEnded, visitors' = visitors
    PROVE  AuthSessions' = AuthSessions
<1>1. Held' = Held
  BY HeldAfter
<1> QED
  BY <1>1 DEF AuthSessions, Held, Auth!Running

(* Fewer sessions than before, or one more of those that are free, are a   *)
(* step of the content server's environment.                               *)
LEMMA EnvironmentConnects ==
    ASSUME LinkedInv, UNCHANGED content, AuthSessions' \in Nat,
           AuthSessions' <= AuthSessions \/ (Free > 0 /\ AuthSessions' <= AuthSessions + 1)
    PROVE  Content!OthersConnect
<1>1. /\ conn' = conn /\ ended' = ended /\ author' = author /\ fans' = fans /\ shown' = shown
  BY DEF content
<1>2. ContentSessions \in Nat /\ (Content!Running => ContentSessions = Content!Sessions)
  BY SessionFacts DEF ContentSessions
<1>3. Free > 0 => AuthSessions + ContentSessions + 1 <= MaxSessions
  BY <1>2, SessionFacts DEF Free
<1>4. AuthSessions' <= MaxSessions
  BY <1>2, <1>3, SessionFacts
<1>5. Content!Running => Content!Sessions + AuthSessions' <= MaxSessions
  BY <1>2, <1>3, SessionFacts
<1> QED
  BY <1>1, <1>4, <1>5, SessionsAssumption DEF Content!OthersConnect, Content!board
-----------------------------------------------------------------------------
(* Every step of the whole is one that each of the servers takes, alone or *)
(* with the other, or that leaves it as it is.                             *)

(* The connection of a question keeps its thread's session.                *)
LEMMA ConnectionKept ==
    ASSUME LinkedInv, NEW c \in Conns, visitors' = visitors,
           \/ UNCHANGED auth
           \/ Auth!waitForNewConnection(c)
           \/ Auth!send(c, Put(c))
           \/ \E how \in {"closing", "reset"} : Auth!close(c, how)
    PROVE  AuthSessions' = AuthSessions /\ [Auth!Next]_(Auth!vars)
<1> DEFINE t == thread[c]
<1>1. t \in AuthP!Connections /\ conn[c] \in ContentP!Objects
  BY Facts
<1>2. CASE UNCHANGED auth
  <2>1. thread' = thread /\ authEnded' = authEnded
    BY <1>2 DEF auth
  <2> QED
    BY <1>2, <2>1 DEF AuthSessions, Auth!Running, Auth!vars, auth
<1>3. CASE Auth!waitForNewConnection(c)
  <2>1. PICK x \in {"starting", "closed"} :
           /\ thread' = [thread EXCEPT ![c] = [t EXCEPT !.thread = x]]
           /\ authEnded' = authEnded
    BY <1>3 DEF Auth!waitForNewConnection, Auth!Become
  <2> HIDE DEF t
  <2>2. [t EXCEPT !.thread = x].session = t.session
    BY <1>1 DEF AuthP!Connections
  <2>3. AuthSessions' = AuthSessions
    BY <2>1, <2>2, SameSessions DEF t
  <2> QED
    BY <1>3, <2>3 DEF Auth!Next
<1>4. CASE Auth!send(c, Put(c))
  <2>1. /\ thread' = [thread EXCEPT ![c] = [t EXCEPT !.stream = Append(t.stream, Put(c))]]
        /\ authEnded' = authEnded
    BY <1>4 DEF Auth!send, Auth!Become
  <2> HIDE DEF t
  <2>2. [t EXCEPT !.stream = Append(t.stream, Put(c))].session = t.session
    BY <1>1 DEF AuthP!Connections
  <2>3. AuthSessions' = AuthSessions
    BY <2>1, <2>2, SameSessions DEF t
  <2>4. Put(c) \in Questions
    <3>1. conn[c].req \in ContentP!Requests \cup {ContentP!NoRequest}
      BY <1>1 DEF ContentP!Objects
    <3>2. conn[c].req.token \in Users \cup {Null}
      BY <3>1 DEF ContentP!Requests, ContentP!NoRequest
    <3> QED
      BY <3>2 DEF Put, Questions
  <2> QED
    BY <1>4, <2>3, <2>4 DEF Auth!Next
<1>5. CASE \E how \in {"closing", "reset"} : Auth!close(c, how)
  <2>1. PICK how \in {"closing", "reset"} : Auth!close(c, how)
    BY <1>5
  <2>2. /\ thread' = [thread EXCEPT ![c] = [t EXCEPT !.client = how]]
        /\ authEnded' = authEnded
    BY <2>1 DEF Auth!close, Auth!Become
  <2> HIDE DEF t
  <2>3. [t EXCEPT !.client = how].session = t.session
    BY <1>1 DEF AuthP!Connections
  <2>4. AuthSessions' = AuthSessions
    BY <2>2, <2>3, SameSessions DEF t
  <2> QED
    BY <2>1, <2>4 DEF Auth!Next
<1> QED
  BY <1>2, <1>3, <1>4, <1>5

(* What steps of the two servers together are to each of them. *)
Both == [Content!Next]_(Content!vars) /\ [AuthOrVisitor]_(Auth!vars)

(* A step of an object of the content server. *)
LEMMA ObjectSteps ==
    ASSUME LinkedInv, NEW c \in Conns, Content!Step(c), visitors' = visitors,
           \/ UNCHANGED auth
           \/ Auth!waitForNewConnection(c)
           \/ Auth!send(c, Put(c))
           \/ \E how \in {"closing", "reset"} : Auth!close(c, how)
    PROVE  Both
<1>1. AuthSessions' = AuthSessions /\ [Auth!Next]_(Auth!vars)
  BY ConnectionKept
<1>2. Content!Next
  BY <1>1 DEF Content!Next
<1> QED
  BY <1>1, <1>2 DEF Both, AuthOrVisitor

(* The steps of the content server, its client's included. *)
LEMMA ContentSteps ==
    ASSUME LinkedInv, NEW c \in Conns, ClientStep(c) \/ ContentStep(c)
    PROVE  Both /\ visitors' = visitors
<1>1. visitors' = visitors
  BY DEF ClientStep, ContentStep
<1>2. CASE ClientStep(c)
  <2>1. UNCHANGED auth
    BY <1>2 DEF ClientStep, auth
  <2>2. Content!Step(c)
    BY <1>2 DEF ClientStep, Content!Step
  <2> QED
    BY <1>1, <2>1, <2>2, ObjectSteps
<1>3. CASE HandlerAlone(c)
  <2>1. Content!Step(c) /\ UNCHANGED auth
    BY <1>3 DEF HandlerAlone, Content!Step, Content!Handler
  <2> QED
    BY <1>1, <2>1, ObjectSteps
<1>4. CASE on_connect(c)
  <2>1. Content!Step(c) /\ (UNCHANGED auth \/ Auth!waitForNewConnection(c))
    BY <1>4 DEF on_connect, Content!Step, Content!Handler
  <2> QED
    BY <1>1, <2>1, ObjectSteps
<1>5. CASE on_write(c)
  <2>1. /\ Content!Step(c)
        /\ UNCHANGED auth \/ Auth!send(c, Put(c)) \/ Auth!close(c, "closing")
    BY <1>5 DEF on_write, CloseQuestion, Content!Step, Content!Handler
  <2> QED
    BY <1>1, <2>1, ObjectSteps
<1>6. CASE on_read(c)
  <2>1. Content!Step(c) /\ (UNCHANGED auth \/ Auth!close(c, "closing"))
    BY <1>6 DEF on_read, CloseQuestion, Content!Step, Content!Handler
  <2> QED
    BY <1>1, <2>1, ObjectSteps
<1>7. CASE Lost(c)
  <2>1. "lost" \in Content!Replies \ {"none"}
    BY DEF Content!Replies
  <2>2. Content!Step(c) /\ UNCHANGED auth
    BY <1>7, <2>1 DEF Lost, Content!Step
  <2> QED
    BY <1>1, <2>2, ObjectSteps
<1>8. CASE Gone(c)
  <2>1. UNCHANGED content /\ \E how \in {"closing", "reset"} : Auth!close(c, how)
    BY <1>8 DEF Gone
  <2>2. AuthSessions' = AuthSessions /\ [Auth!Next]_(Auth!vars)
    BY <1>1, <2>1, ConnectionKept
  <2>3. UNCHANGED Content!vars
    BY <2>1, <2>2 DEF content, Content!vars
  <2> QED
    BY <1>1, <2>2, <2>3 DEF Both, AuthOrVisitor
<1> QED
  BY <1>2, <1>3, <1>4, <1>5, <1>6, <1>7, <1>8 DEF ContentStep

(* The steps of the auth server's threads: to the content server they are  *)
(* an answer, or sessions taken or given back elsewhere.                   *)
LEMMA ThreadStepsBoth ==
    ASSUME LinkedInv, NEW c \in Conns, AuthStep(c)
    PROVE  Both /\ visitors' = visitors
<1>1. /\ Auth!Thread(c) /\ Deliver(c) /\ visitors' = visitors
      /\ ended' = ended /\ author' = author /\ fans' = fans /\ shown' = shown
  BY DEF AuthStep
<1>2. [Auth!Next]_(Auth!vars)
  BY <1>1 DEF Auth!Next
<1>3. thread \in [Conns -> AuthP!Connections] /\ visitors \in Nat
  BY Facts DEF LinkedInv
<1>4. ASSUME NEW q, GoesOn(c, q)
      PROVE  [Content!Next]_(Content!vars)
  <2>1. /\ thread' = [thread EXCEPT ![c] = q] /\ authEnded' = authEnded /\ Auth!Running
        /\ q.replies = thread[c].replies /\ (q.session => thread[c].session \/ Free > 0)
    BY <1>4 DEF GoesOn
  <2>2. UNCHANGED content
    <3>1. thread'[c] = q
      BY <1>3, <2>1
    <3> QED
      BY <1>1, <2>1, <3>1 DEF Deliver, content
  <2>3. AuthSessions' = visitors + Cardinality(Held')
    BY <1>1, <2>1 DEF AuthSessions, Held, Auth!Running
  <2>4. /\ Cardinality(Held') \in Nat /\ Cardinality(Held') <= Cardinality(Held) + 1
        /\ (q.session => thread[c].session) => Cardinality(Held') <= Cardinality(Held)
    BY <2>1, HeldAfter
  <2>5. AuthSessions = visitors + Cardinality(Held) /\ Cardinality(Held) \in Nat
    BY <2>1, SessionFacts
  <2>6. /\ AuthSessions' \in Nat
        /\ AuthSessions' <= AuthSessions \/ (Free > 0 /\ AuthSessions' <= AuthSessions + 1)
    BY <1>3, <2>1, <2>3, <2>4, <2>5
  <2>7. Content!OthersConnect
    BY <2>2, <2>6, EnvironmentConnects
  <2> QED
    BY <2>7 DEF Content!Next
<1>5. ASSUME EndsProcess(c)
      PROVE  [Content!Next]_(Content!vars)
  <2>1. thread' = thread /\ authEnded' \in {"parse", "reset"}
    BY <1>5 DEF EndsProcess
  <2>2. UNCHANGED content
    BY <1>1, <2>1 DEF Deliver, content
  <2>3. AuthSessions' = 0
    BY <2>1 DEF AuthSessions, Auth!Running
  <2>4. AuthSessions' \in Nat /\ AuthSessions' <= AuthSessions
    BY <2>3, SessionFacts
  <2>5. Content!OthersConnect
    BY <2>2, <2>4, EnvironmentConnects
  <2> QED
    BY <2>5 DEF Content!Next
<1>6. ASSUME NEW q, NEW status, Replies(c, q, status)
      PROVE  [Content!Next]_(Content!vars)
  <2>1. /\ thread' = [thread EXCEPT ![c] = q] /\ authEnded' = authEnded
        /\ q.session /\ thread[c].thread \in {"parsing", "working"}
    BY <1>6 DEF Replies
  <2>2. thread[c].session
    BY <2>1, Facts DEF QuestionOK
  <2>3. AuthSessions' = AuthSessions
    BY <1>1, <2>1, <2>2, SameSessions
  <2>4. CASE ~Content!Running /\ conn' = conn
    BY <1>1, <2>3, <2>4 DEF Content!vars
  <2>5. ASSUME Content!Running, conn[c].phase = "awaiting", conn[c].reply = "none",
               NEW r \in Users \cup {"unauthorized"},
               r \in Users => r = conn[c].req.token,
               conn' = [conn EXCEPT ![c] = [conn[c] EXCEPT !.reply = r]]
        PROVE  [Content!Next]_(Content!vars)
    <3>1. r # "no_id" /\ r \in Content!Replies \ {"none"}
      BY RepliesAssumption DEF Content!Replies, Content!Refusals
    <3>2. Content!AuthAnswers(c, r)
      BY <1>1, <2>5, <3>1 DEF Content!AuthAnswers, Content!Become, Content!board
    <3> QED
      BY <2>3, <3>1, <3>2 DEF Content!Next, Content!Step
  <2> QED
    BY <1>1, <1>6, <2>4, <2>5, Delivered
<1> QED
  BY <1>1, <1>2, <1>4, <1>5, <1>6, ThreadSteps DEF Both, AuthOrVisitor

(* Visitors come only while there are sessions, go or end the process, and *)
(* tokens expire.                                                          *)
LEMMA VisitorSteps ==
    ASSUME LinkedInv,
           \/ visit \/ leave \/ \E u \in Users : expire(u)
           \/ \E why \in {"parse", "reset"} : visitorEnds(why)
    PROVE  /\ Both /\ visitors' \in Nat /\ (Auth!Running \/ visitors' = visitors)
           /\ conn' = conn /\ thread' = thread /\ ended' = ended
           /\ Auth!Running' => Auth!Running
<1>1. visitors \in Nat
  BY DEF LinkedInv
<1>2. CASE visit \/ leave
  <2>1. /\ UNCHANGED content /\ UNCHANGED auth /\ Auth!Running
        /\ \/ Free > 0 /\ visitors' = visitors + 1
           \/ visitors > 0 /\ visitors' = visitors - 1
    BY <1>2 DEF visit, leave
  <2>2. thread' = thread /\ authEnded' = authEnded
    BY <2>1 DEF auth
  <2>3. AuthSessions' = visitors' + Cardinality(Held)
    BY <2>1, <2>2 DEF AuthSessions, Held, Auth!Running
  <2>4. AuthSessions = visitors + Cardinality(Held) /\ Cardinality(Held) \in Nat
    BY <2>1, SessionFacts
  <2>5. visitors' \in Nat
    BY <1>1, <2>1
  <2>6. /\ AuthSessions' \in Nat
        /\ AuthSessions' <= AuthSessions \/ (Free > 0 /\ AuthSessions' <= AuthSessions + 1)
    BY <1>1, <2>1, <2>3, <2>4, <2>5
  <2>7. Content!OthersConnect
    BY <2>1, <2>6, EnvironmentConnects
  <2> QED
    BY <2>1, <2>5, <2>7
       DEF Both, Content!Next, Auth!vars, auth, content, Auth!Running
<1>3. CASE \E u \in Users : expire(u)
  <2>1. PICK u \in Users : expire(u)
    BY <1>3
  <2>2. Auth!expire(u) /\ UNCHANGED content /\ visitors' = visitors
    BY <2>1 DEF expire
  <2>3. thread' = thread /\ authEnded' = authEnded
    BY <2>2 DEF Auth!expire
  <2>4. AuthSessions' = AuthSessions
    BY <2>2, <2>3 DEF AuthSessions, Auth!Running
  <2> QED
    BY <1>1, <2>2, <2>3, <2>4
       DEF Both, AuthOrVisitor, Auth!Next, Content!vars, content, Auth!Running
<1>4. CASE \E why \in {"parse", "reset"} : visitorEnds(why)
  <2>1. /\ UNCHANGED content /\ thread' = thread /\ visitors' = visitors
        /\ Auth!Running /\ authEnded' \in {"parse", "reset"}
    BY <1>4 DEF visitorEnds
  <2>2. AuthSessions' = 0
    BY <2>1 DEF AuthSessions, Auth!Running
  <2>3. AuthSessions' \in Nat /\ AuthSessions' <= AuthSessions
    BY <2>2, SessionFacts
  <2>4. Content!OthersConnect
    BY <2>1, <2>3, EnvironmentConnects
  <2>5. [AuthOrVisitor]_(Auth!vars)
    BY <1>4 DEF AuthOrVisitor
  <2> QED
    BY <1>1, <2>1, <2>4, <2>5 DEF Both, Content!Next, content, Auth!Running
<1> QED
  BY <1>2, <1>3, <1>4
(* So every step keeps objects and questions in order. *)
LEMMA NextLinked ==
    ASSUME LinkedInv, [Next]_vars
    PROVE  Both /\ LinkedInv'
<1>1. CASE UNCHANGED vars
  <2>1. /\ UNCHANGED content /\ UNCHANGED auth /\ visitors' = visitors
        /\ conn' = conn /\ thread' = thread /\ ended' = ended /\ authEnded' = authEnded
    BY <1>1 DEF vars, content, auth
  <2>2. AuthSessions' = AuthSessions
    BY <2>1 DEF AuthSessions, Auth!Running
  <2>3. Both
    BY <2>1, <2>2 DEF Both, AuthOrVisitor, Content!vars, Auth!vars, content, auth
  <2>4. (Content!Running' <=> Content!Running) /\ (Auth!Running' <=> Auth!Running)
    BY <2>1 DEF Content!Running, Auth!Running
  <2>5. \A d \in Conns : LinkedAt(d)'
    BY <2>1, <2>4, NothingLinked
  <2> QED
    BY <2>1, <2>3, <2>5, ContentKept, AuthKept DEF LinkedInv, LinkedAt, Both
<1>2. ASSUME NEW c \in Conns, ClientStep(c)
      PROVE  \A d \in Conns : LinkedAt(d)'
  <2>1. UNCHANGED auth
    BY <1>2 DEF ClientStep, auth
  <2> QED
    BY <1>2, <2>1, AcceptLinked, ReadLinked, ReadErrorLinked, WriteLinked DEF ClientStep
<1>3. ASSUME NEW c \in Conns, ContentStep(c)
      PROVE  \A d \in Conns : LinkedAt(d)'
  <2>1. CASE HandlerAlone(c)
    BY <2>1, ResolveLinked, RefusedLinked DEF HandlerAlone
  <2>2. CASE on_read(c)
    <3>1. CASE Content!on_readError(c)
      <4>1. Content!Running'
        BY <3>1 DEF Content!on_readError, Content!Running
      <4> QED
        BY <2>2, <3>1, <4>1, ErrorLinked DEF on_read
    <3>2. CASE Called(c)
      BY <2>2, <3>2, CallbackLinked DEF on_read
    <3> QED
      BY <2>2, <3>1, <3>2 DEF on_read, Called
  <2> QED
    BY <1>3, <2>1, <2>2, ConnectLinked, SentLinked, LostLinked, GoneLinked DEF ContentStep
<1>4. ASSUME NEW c \in Conns, ClientStep(c) \/ ContentStep(c) \/ AuthStep(c)
      PROVE  Both /\ LinkedInv'
  <2>1. \A d \in Conns : LinkedAt(d)'
    BY <1>2, <1>3, <1>4, AuthStepLinked
  <2>2. Both /\ visitors' = visitors
    BY <1>4, ContentSteps, ThreadStepsBoth
  <2> QED
    BY <2>1, <2>2, ContentKept, AuthKept DEF LinkedInv, LinkedAt, Both
<1>5. ASSUME \/ visit \/ leave \/ \E u \in Users : expire(u)
             \/ \E why \in {"parse", "reset"} : visitorEnds(why)
      PROVE  Both /\ LinkedInv'
  <2>1. /\ Both /\ visitors' \in Nat /\ (Auth!Running \/ visitors' = visitors)
        /\ conn' = conn /\ thread' = thread /\ ended' = ended
        /\ Auth!Running' => Auth!Running
    BY <1>5, VisitorSteps
  <2>2. Content!Running' => Content!Running
    BY <2>1 DEF Content!Running
  <2>3. \A d \in Conns : LinkedAt(d)'
    BY <2>1, <2>2, NothingLinked
  <2> QED
    BY <2>1, <2>3, ContentKept, AuthKept DEF LinkedInv, LinkedAt, Both
<1> QED
  BY <1>1, <1>4, <1>5 DEF Next

(* In the beginning nobody has asked. *)
LEMMA InitLinked ==
    ASSUME Init
    PROVE  LinkedInv
<1>1. Auth!Init /\ visitors = 0 /\ Content!Init
  BY DEF Init
<1>2. AuthLinked
  <2>1. AuthP!AuthInv
    BY <1>1, SameAuth, AuthAssumptions, AuthP!InitAuth DEF AuthP!InitAuth
  <2> QED
    BY <2>1 DEF AuthLinked, AuthP!AuthInv
<1>3. ContentP!ContentInv
  BY <1>1, SameContent, ContentAssumptions, ContentP!InitContent DEF ContentP!InitContent
<1>4. ASSUME NEW c \in Conns
      PROVE  LinkedAt(c)
  <2>1. thread[c] = Auth!NoConnection
    BY <1>1 DEF Auth!Init
  <2>2. conn[c] \in {Content!NoObject, [Content!NoObject EXCEPT !.phase = "accepting"]}
    BY <1>1 DEF Content!Init
  <2>3. /\ ~conn[c].callback /\ conn[c].status = 0 /\ conn[c].reply = "none"
    BY <2>2 DEF Content!NoObject
  <2> QED
    BY <2>1, <2>3, NotConnected DEF LinkedAt
<1> QED
  BY <1>1, <1>2, <1>3, <1>4 DEF LinkedInv, LinkedAt

-----------------------------------------------------------------------------
(* Each object of the content server is in order with the auth server's    *)
(* side of the question it puts, and what has been proved of either server *)
(* alone is true of it in this system (LinkedInv).                         *)
THEOREM LinkedInvariant == Spec => []LinkedInv
BY InitLinked, NextLinked, PTL DEF Spec

(* ContentServerSpec: the auth server, its visitors and the database are   *)
(* an environment the content server is prepared for.                      *)
THEOREM ContentServerKept == Spec => ContentServerSpec
<1>1. Init => Content!Init
  BY DEF Init
<1>2. LinkedInv /\ [Next]_vars => [Content!Next]_(Content!vars)
  BY NextLinked DEF Both
<1> QED
  BY <1>1, <1>2, LinkedInvariant, PTL DEF Spec, ContentServerSpec

(* The content server is a client of the auth server as AuthConnection has *)
(* them: nothing else happens to the threads of its questions than there,  *)
(* but that one of the other clients ends the process.                     *)
THEOREM AuthServerKept ==
    Spec => /\ Auth!Init
            /\ [][\/ Auth!Next
                  \/ \E why \in {"parse", "reset"} : visitorEnds(why)]_(Auth!vars)
<1>1. Init => Auth!Init
  BY DEF Init
<1>2. LinkedInv /\ [Next]_vars => [AuthOrVisitor]_(Auth!vars)
  BY NextLinked DEF Both
<1>3. LinkedInv /\ [Next]_vars
         => [\/ Auth!Next
             \/ \E why \in {"parse", "reset"} : visitorEnds(why)]_(Auth!vars)
  BY <1>2 DEF AuthOrVisitor
<1> QED
  BY <1>1, <1>3, LinkedInvariant, PTL DEF Spec

(* AuthEndsOfQuestion: without other clients only a question without a     *)
(* token ends the auth server by what parse throws, and only the content   *)
(* server's end resets a connection.                                       *)
THEOREM OnlyQuestionsEnd == Spec => []AuthEndsOfQuestion
<1>1. ASSUME LinkedInv, authEnded = "parse", ~(visitors > 0)
      PROVE  \E c \in Conns :
                /\ conn[c].reply \in {"none", "lost"} /\ conn[c].req.method \in {"GET", "POST"}
                /\ conn[c].req.token = Null
  <2>1. AuthP!OnlyInputEnds
    BY <1>1 DEF LinkedInv, AuthLinked
  <2>2. PICK c \in Conns : \E k \in DOMAIN thread[c].stream :
           LET r == thread[c].stream[k]
           IN  \/ AuthP!Wanted(r.target) # {} /\ r.token = Null
               \/ r.target \in AuthP!Parsed /\ r.flaw = "content"
               \/ AuthP!Method[r.target] = "POST" /\ r.flaw = "length"
    BY <1>1, <2>1 DEF AuthP!OnlyInputEnds
  <2> PICK k \in DOMAIN thread[c].stream :
           \/ thread[c].stream[k].token = Null
           \/ thread[c].stream[k].flaw # "none"
    BY <2>2
  <2>3. /\ conn[c] \in ContentP!Objects /\ thread[c] \in AuthP!Connections
        /\ QuestionOK(conn[c], thread[c])
    BY <1>1, Facts
  <2>4. k = 1 /\ thread[c].stream # <<>>
    <3>1. /\ thread[c].stream \in Seq(Questions) /\ Len(thread[c].stream) <= 1
      BY <2>3 DEF AuthP!Connections, QuestionOK
    <3> QED
      BY <3>1
  <2>5. thread[c].stream[1] = Question(conn[c].req.token)
    BY <2>3, <2>4 DEF QuestionOK
  <2>6. conn[c].req.token = Null
    BY <2>4, <2>5 DEF Question
  <2>7. thread[c].thread # "none"
    BY <2>3, <2>4 DEF QuestionOK, Auth!NoConnection
  <2>8. conn[c].req.method \in {"GET", "POST"}
    BY <2>3, <2>7 DEF QuestionOK
  <2>9. conn[c].reply \notin Users \cup Content!Refusals /\ conn[c].reply # "no_id"
    BY <2>3, <2>6 DEF QuestionOK
  <2>10. conn[c].reply \in {"none", "lost"}
    BY <2>3, <2>9 DEF ContentP!Objects, ContentP!Replies, ContentP!Refusals, Content!Refusals
  <2> QED
    BY <2>6, <2>8, <2>10
<1>2. ASSUME LinkedInv, authEnded = "reset", ~(visitors > 0)
      PROVE  ~Content!Running
  <2>1. AuthP!OnlyInputEnds
    BY <1>2 DEF LinkedInv, AuthLinked
  <2>2. PICK c \in Conns : thread[c].client = "reset"
    BY <1>2, <2>1 DEF AuthP!OnlyInputEnds
  <2> QED
    BY <1>2, <2>2, Facts DEF Open, Closing
<1>3. LinkedInv => AuthEndsOfQuestion
  BY <1>1, <1>2 DEF AuthEndsOfQuestion
<1> QED
  BY <1>3, LinkedInvariant, PTL

(* QuestionsClosed: no session stays with a thread whose question is over, *)
(* unless that was refused, and the content server keeps its end open.     *)
THEOREM QuestionsAllClosed == Spec => []QuestionsClosed
<1>1. ASSUME LinkedInv, Content!Running, Auth!Running, NEW c \in Conns, thread[c].session
      PROVE  \/ conn[c].phase \in {"asking", "awaiting"}
             \/ thread[c].client # "open"
             \/ conn[c].reply \in Content!Refusals
  <2>1. /\ QuestionOK(conn[c], thread[c])
        /\ \/ Open(conn[c], thread[c], Auth!Running)
           \/ Closing(conn[c], thread[c], Auth!Running)
    BY <1>1, Facts
  <2>2. thread[c].thread \in {"reading", "parsing", "working"}
    BY <1>1, <2>1 DEF QuestionOK
  <2> QED
    BY <1>1, <2>1, <2>2 DEF Open, Closing
<1>2. LinkedInv => QuestionsClosed
  BY <1>1 DEF QuestionsClosed
<1> QED
  BY <1>2, LinkedInvariant, PTL
=============================================================================
