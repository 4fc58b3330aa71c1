------------------------ MODULE ContentServerProofs ------------------------
(***************************************************************************)
(* Proofs about ContentServer, for every number of objects, users, posts   *)
(* and sessions, whatever throws.                                          *)
(***************************************************************************)
EXTENDS ContentServer, FiniteSetTheorems, TLAPS

(* The part of StatusTellsTruth that speaks of one object. *)
Truthful(o) ==
    o.req.method = "POST" /\ o.phase \in {"replying", "closed"} =>
        /\ o.status = 200 /\ o.req.target # "unknown" => o.applied
        /\ o.status \in {400, 401} => ~o.applied

(* The part of SessionsEarned that speaks of one object. *)
Earned(o) ==
    o.dbclient =>
        \/ o.req.method = "GET"
        \/ o.req.method = "POST" /\ o.reply \in Users

(* An object that has not read a request has no callback_; one that asks   *)
(* the auth server is held by it and has changed nothing yet; so is every  *)
(* object that has a session; an id is the token's.                        *)
ObjectOK(o) ==
    /\ o.phase \in {"none", "accepting", "reading"} =>
          ~o.callback /\ ~o.applied /\ o.reply = "none"
    /\ o.phase \in {"resolving", "connecting", "asking"} => o.reply = "none"
    /\ o.phase \in {"resolving", "connecting", "asking", "awaiting"} =>
          o.callback /\ ~o.applied
    /\ o.dbclient => o.callback
    /\ Earned(o)
    /\ o.reply \in Users => o.reply = o.req.token
    /\ Truthful(o)

OneListens ==
    Running => \E c \in Conns : \A d \in Conns : conn[d].phase = "accepting" <=> d = c

ContentInv == TypeOK /\ OneListens /\ \A c \in Conns : ObjectOK(conn[c])

Reasons == {"no", "shutdown", "no session", "at(id)"}

BoardTyped ==
    /\ author \in [PostIds -> Users \cup {Null}]
    /\ fans \subseteq PostIds \X Users
    /\ shown \in [PostIds -> 0..Cardinality(Users)]

(* A handler's step from the view of its object: o is what becomes of it.  *)
Moved(c, o) ==
    /\ Running /\ conn[c].phase # "accepting" /\ o.phase # "accepting"
    /\ conn' = [conn EXCEPT ![c] = o]
    /\ o \in Objects /\ ObjectOK(o)
    /\ o.dbclient => conn[c].dbclient \/ CanConnect

-----------------------------------------------------------------------------
(* The sessions of finitely many objects can be counted.                   *)
LEMMA SessionsFinite ==
    /\ IsFiniteSet({c \in Conns : conn[c].dbclient})
    /\ Sessions \in Nat
<1>1. IsFiniteSet({c \in Conns : conn[c].dbclient})
  BY FiniteAssumption, FS_Subset
<1> QED
  BY <1>1, FS_CardinalityType DEF Sessions

Statuses == {0, 200, 204, 400, 401, 500}

(* Objects stay of their kind, field by field.                             *)
LEMMA WithReq ==
    ASSUME NEW o \in Objects, NEW req \in Requests
    PROVE  [o EXCEPT !.req = req] \in Objects
BY DEF Objects

(* The same for the reply.                                                 *)
LEMMA WithReply ==
    ASSUME NEW o \in Objects, NEW reply \in Replies
    PROVE  [o EXCEPT !.reply = reply] \in Objects
BY DEF Objects

(* The same for the phase.                                                 *)
LEMMA WithPhase ==
    ASSUME NEW o \in Objects, NEW phase \in Phases
    PROVE  [o EXCEPT !.phase = phase] \in Objects
BY DEF Objects

(* The same for the status.                                                *)
LEMMA WithStatus ==
    ASSUME NEW o \in Objects, NEW status \in Statuses
    PROVE  [o EXCEPT !.status = status] \in Objects
BY DEF Objects, Statuses

(* The same for the flags.                                                 *)
LEMMA WithFlags ==
    ASSUME NEW o \in Objects, NEW b \in BOOLEAN
    PROVE  /\ [o EXCEPT !.callback = b] \in Objects
           /\ [o EXCEPT !.dbclient = b] \in Objects
           /\ [o EXCEPT !.applied = b] \in Objects
BY DEF Objects

(* An object that begins to ask the auth server.                           *)
LEMMA AskingObject ==
    ASSUME NEW o \in Objects, NEW r \in Requests, NEW callback \in BOOLEAN,
           NEW dbclient \in BOOLEAN
    PROVE  [o EXCEPT !.req = r, !.callback = callback, !.phase = "resolving",
                     !.dbclient = dbclient] \in Objects
BY WithReq, WithPhase, WithFlags DEF Phases

(* An object that answers.                                                 *)
LEMMA AnsweringObject ==
    ASSUME NEW o \in Objects, NEW status \in Statuses
    PROVE  [o EXCEPT !.phase = "replying", !.status = status] \in Objects
BY WithPhase, WithStatus DEF Phases

(* An object that answers a request it has just read.                      *)
LEMMA ReplyingObject ==
    ASSUME NEW o \in Objects, NEW r \in Requests, NEW status \in Statuses
    PROVE  [o EXCEPT !.req = r, !.phase = "replying", !.status = status] \in Objects
BY WithReq, WithPhase, WithStatus DEF Phases

(* An object that is not there.                                            *)
LEMMA NoObjectOK == NoObject \in Objects /\ ObjectOK(NoObject)
BY RepliesAssumption DEF NoObject, Objects, ObjectOK, Truthful, Earned, NoRequest, Phases, Replies

(* A step of one object opens one session at most, and only if there is    *)
(* one.                                                                    *)
LEMMA SessionsMoved ==
    ASSUME TypeOK, NEW c \in Conns, NEW o, Moved(c, o), others' = others
    PROVE  Sessions' + others' <= MaxSessions
<1> DEFINE S == {d \in Conns : conn[d].dbclient}
<1>1. S' \subseteq S \cup {c} /\ \A d \in Conns \ {c} : conn'[d] = conn[d]
  BY DEF TypeOK, Moved
<1>2. IsFiniteSet(S) /\ Sessions \in Nat
  BY SessionsFinite
<1>5. others \in Nat /\ MaxSessions \in Nat
  <2>1. others \in 0..MaxSessions
    BY DEF TypeOK
  <2> QED
    BY <2>1, SessionsAssumption
<1>6. Sessions + others <= MaxSessions
  BY DEF TypeOK, Moved
<1>3. CASE conn[c].dbclient \/ ~o.dbclient
  <2>1. S' \subseteq S
    BY <1>1, <1>3 DEF TypeOK, Moved
  <2>2. Cardinality(S') <= Cardinality(S)
    BY <2>1, <1>2, FS_Subset
  <2>3. Sessions' <= Sessions /\ Sessions' \in Nat
    BY <2>1, <2>2, <1>2, FS_Subset, FS_CardinalityType DEF Sessions
  <2> HIDE DEF S
  <2>4. \A s, t, x, m \in Nat : s <= t /\ t + x <= m => s + x <= m
    OBVIOUS
  <2>5. Sessions' + others <= MaxSessions
    BY <1>2, <1>5, <1>6, <2>3, <2>4
  <2> QED
    BY <2>5
<1>4. CASE ~conn[c].dbclient /\ o.dbclient
  <2>1. S' = S \cup {c} /\ c \notin S
    BY <1>1, <1>4 DEF TypeOK, Moved
  <2>2. Cardinality(S') = Cardinality(S) + 1
    BY <2>1, <1>2, FS_AddElement
  <2>3. Sessions' = Sessions + 1
    BY <2>2 DEF Sessions
  <2>4. Sessions + others < MaxSessions
    BY <1>4 DEF Moved, CanConnect
  <2> QED
    BY <1>2, <1>5, <2>3, <2>4
<1> QED
  BY <1>3, <1>4

(* Whatever a handler does to its object, the invariant is kept as long    *)
(* as what becomes of it is in order.                                      *)
LEMMA MovedInv ==
    ASSUME ContentInv, NEW c \in Conns, NEW o, Moved(c, o), others' = others,
           ended' \in Reasons, BoardTyped'
    PROVE  ContentInv'
<1>1. /\ conn' \in [Conns -> Objects] /\ conn'[c] = o
      /\ \A d \in Conns \ {c} : conn'[d] = conn[d]
  BY DEF ContentInv, TypeOK, Moved
<1>2. TypeOK'
  BY <1>1, SessionsMoved DEF ContentInv, TypeOK, BoardTyped, Reasons
<1>3. OneListens'
  BY <1>1 DEF ContentInv, OneListens, Moved, Running
<1>4. \A d \in Conns : ObjectOK(conn'[d])
  BY <1>1 DEF ContentInv, Moved
<1> QED
  BY <1>2, <1>3, <1>4 DEF ContentInv

(* The acceptor hands over to the next free object: exactly one listens    *)
(* again.                                                                  *)
LEMMA AcceptInv ==
    ASSUME ContentInv, NEW c \in Conns, NEW error \in BOOLEAN,
           handle_accept(c, error), others' = others
    PROVE  ContentInv'
<1>1. PICK n \in Conns :
         /\ conn[n] = NoObject
         /\ conn' = [conn EXCEPT ![c] = IF error THEN NoObject
                                        ELSE [@ EXCEPT !.phase = "reading"],
                                 ![n].phase = "accepting"]
  BY DEF handle_accept
<1>2. /\ Running /\ conn[c].phase = "accepting" /\ conn \in [Conns -> Objects]
      /\ UNCHANGED <<ended, author, fans, shown>>
      /\ \A d \in Conns : conn[d].phase = "accepting" <=> d = c
      /\ ~conn[c].callback /\ ~conn[c].dbclient /\ ~conn[c].applied
      /\ conn[c].reply = "none"
  <2>1. Running /\ conn[c].phase = "accepting" /\ UNCHANGED <<ended, author, fans, shown>>
    BY DEF handle_accept, board
  <2>2. conn \in [Conns -> Objects] /\ ObjectOK(conn[c])
    BY DEF ContentInv, TypeOK
  <2>3. \A d \in Conns : conn[d].phase = "accepting" <=> d = c
    BY <2>1 DEF ContentInv, OneListens
  <2>4. /\ ~conn[c].callback /\ ~conn[c].dbclient /\ ~conn[c].applied
        /\ conn[c].reply = "none"
    BY <2>1, <2>2 DEF ObjectOK
  <2> QED
    BY <2>1, <2>2, <2>3, <2>4
<1>3. /\ n # c /\ conn[n].phase = "none"
      /\ conn'[n] = [conn[n] EXCEPT !.phase = "accepting"]
      /\ conn'[c] \in {NoObject, [conn[c] EXCEPT !.phase = "reading"]}
      /\ \A d \in Conns \ {c, n} : conn'[d] = conn[d]
  <2>1. n # c /\ conn[n].phase = "none"
    BY <1>1, <1>2 DEF NoObject
  <2>2. conn' = [conn EXCEPT
                   ![c] = IF error THEN NoObject ELSE [conn[c] EXCEPT !.phase = "reading"],
                   ![n] = [conn[n] EXCEPT !.phase = "accepting"]]
    BY <1>1, <1>2, <2>1
  <2> QED
    BY <1>2, <2>1, <2>2
<1>4. /\ conn'[c] \in Objects /\ ~conn'[c].dbclient /\ conn'[c].phase # "accepting"
      /\ conn'[n] \in Objects /\ ~conn'[n].dbclient /\ conn'[n].phase = "accepting"
      /\ ~conn[c].dbclient /\ ~conn[n].dbclient
  <2>1. conn[c] \in Objects /\ conn[n] \in Objects
    BY <1>2
  <2>3. /\ NoObject.phase = "none" /\ ~NoObject.dbclient
        /\ conn[n] = NoObject
    BY <1>1 DEF NoObject
  <2>4. ASSUME NEW o \in Objects, NEW phase \in Phases, NEW p,
               p = [o EXCEPT !.phase = phase], ~o.dbclient
        PROVE  p \in Objects /\ p.phase = phase /\ ~p.dbclient
    BY <2>4 DEF Objects
  <2>5. conn'[n] \in Objects /\ conn'[n].phase = "accepting" /\ ~conn'[n].dbclient
    BY <1>3, <2>1, <2>3, <2>4 DEF Phases
  <2>6. CASE conn'[c] = NoObject
    BY <1>2, <2>3, <2>5, <2>6, NoObjectOK
  <2>7. CASE conn'[c] = [conn[c] EXCEPT !.phase = "reading"]
    <3>1. conn'[c] \in Objects /\ conn'[c].phase = "reading" /\ ~conn'[c].dbclient
      BY <1>2, <2>1, <2>4, <2>7 DEF Phases
    <3> QED
      BY <1>2, <2>3, <2>5, <3>1
  <2> QED
    BY <1>3, <2>6, <2>7
<1>5. \A d \in {c, n} : ObjectOK(conn'[d])
  BY <1>1, <1>2, <1>3, NoObjectOK, RepliesAssumption DEF NoObject, ObjectOK, Truthful, Earned, Objects
<1>6. conn' \in [Conns -> Objects]
  BY <1>1, <1>2, <1>3, <1>4
<1>7. \A d \in Conns : conn'[d].dbclient <=> conn[d].dbclient
  BY <1>3, <1>4
<1>8. Sessions' = Sessions
  BY <1>7 DEF Sessions
<1>9. TypeOK'
  BY <1>2, <1>6, <1>8 DEF ContentInv, TypeOK, Running
<1>10. OneListens'
  <2>1. \A d \in Conns : conn'[d].phase = "accepting" <=> d = n
    BY <1>2, <1>3, <1>4
  <2> QED
    BY <2>1 DEF OneListens
<1>11. \A d \in Conns : ObjectOK(conn'[d])
  BY <1>3, <1>5 DEF ContentInv
<1> QED
  BY <1>7, <1>9, <1>10, <1>11 DEF ContentInv
-----------------------------------------------------------------------------
(* The handlers, each as a step of its object. *)

(* Reading a request: its object asks, answers or dies.                    *)
LEMMA ReadMoves ==
    ASSUME ContentInv, NEW c \in Conns, NEW r \in Requests, handleRead(c, r)
    PROVE  (\E o : Moved(c, o)) /\ ended' \in Reasons
<1> DEFINE p == conn[c]
<1>1. /\ Running /\ p \in Objects /\ p.phase = "reading"
      /\ ~p.callback /\ ~p.applied /\ p.reply = "none" /\ ~p.dbclient
  BY DEF ContentInv, TypeOK, ObjectOK, handleRead
<1>2. ASSUME r.method = "OPTIONS",
             Finish(c, [p EXCEPT !.req = r, !.phase = "replying", !.status = 204])
      PROVE  (\E o : Moved(c, o)) /\ ended' \in Reasons
  <2> DEFINE o == [p EXCEPT !.req = r, !.phase = "replying", !.status = 204]
  <2>1. /\ o \in Objects /\ o.phase = "replying" /\ o.req.method = "OPTIONS"
        /\ ~o.dbclient /\ o.reply = "none"
    <3>1. o \in Objects
      <4>1. 204 \in Statuses
        BY DEF Statuses
      <4> QED
        BY <1>1, <4>1, ReplyingObject, ZenonT(60)
    <3> QED
      BY <1>1, <1>2, <3>1 DEF Objects
  <2>2. ObjectOK(o)
    BY <2>1, RepliesAssumption DEF ObjectOK, Truthful, Earned
  <2> QED
    BY <1>1, <1>2, <2>1, <2>2 DEF Moved, Finish, Become, Reasons, Running
<1>3. ASSUME r.method \in {"GET", "POST"}, r.method = "GET" => CanConnect,
             Finish(c, Asking(p, r))
      PROVE  (\E o : Moved(c, o)) /\ ended' \in Reasons
  <2> DEFINE o == Asking(p, r)
  <2>1. /\ o \in Objects /\ o.phase = "resolving" /\ o.reply = "none"
        /\ o.callback /\ ~o.applied /\ (o.dbclient <=> r.method = "GET") /\ o.req = r
    <3>1. o \in Objects
      BY <1>1, AskingObject, Zenon DEF Asking
    <3>2. o.dbclient <=> r.method = "GET"
      BY <1>1 DEF Asking, Objects
    <3>3. /\ o.phase = "resolving" /\ o.reply = "none" /\ o.callback /\ ~o.applied
          /\ o.req = r
      BY <1>1 DEF Asking, Objects
    <3> QED
      BY <3>1, <3>2, <3>3
  <2>2. ObjectOK(o)
    BY <2>1, RepliesAssumption DEF ObjectOK, Truthful, Earned
  <2> QED
    BY <1>1, <1>3, <2>1, <2>2 DEF Moved, Finish, Become, Reasons, Running
<1>4. ASSUME Crash(c, [p EXCEPT !.req = r], "no session")
      PROVE  (\E o : Moved(c, o)) /\ ended' \in Reasons
  <2> DEFINE o == [[p EXCEPT !.req = r] EXCEPT !.phase = "crashed"]
  <2>1. /\ o \in Objects /\ o.phase = "crashed" /\ ~o.dbclient /\ o.reply = "none"
    <3>1. o \in Objects
      BY <1>1, WithReq, WithPhase DEF Phases
    <3> QED
      BY <1>1, <3>1 DEF Objects
  <2>2. ObjectOK(o)
    BY <2>1, RepliesAssumption DEF ObjectOK, Truthful, Earned
  <2> QED
    BY <1>1, <1>4, <2>1, <2>2 DEF Moved, Crash, Become, Reasons
<1>5. ASSUME Finish(c, Released(p, "stranded"))
      PROVE  (\E o : Moved(c, o)) /\ ended' \in Reasons
  <2>1. Released(p, "stranded") = NoObject /\ ~NoObject.dbclient
        /\ NoObject.phase = "none"
    BY <1>1 DEF Released, NoObject
  <2> QED
    BY <1>1, <1>5, <2>1, NoObjectOK DEF Moved, Finish, Become, Reasons, Running
<1> QED
  BY <1>2, <1>3, <1>4, <1>5 DEF handleRead

(* A failed read drops the object.                                         *)
LEMMA ReadErrorMoves ==
    ASSUME ContentInv, NEW c \in Conns, handleReadError(c)
    PROVE  (\E o : Moved(c, o)) /\ ended' \in Reasons
<1>1. /\ Running /\ conn[c] \in Objects /\ conn[c].phase = "reading"
      /\ ~conn[c].callback /\ ~conn[c].dbclient
  BY DEF ContentInv, TypeOK, ObjectOK, handleReadError
<1>2. conn' = [conn EXCEPT ![c] = NoObject] /\ ended' = ended
  BY <1>1 DEF handleReadError, Become, Released
<1>3. NoObject.phase = "none" /\ ~NoObject.dbclient
  BY DEF NoObject
<1> QED
  BY <1>1, <1>2, <1>3, NoObjectOK DEF Moved, Reasons, Running

(* The three handlers that bring the question to the auth server.          *)
LEMMA AskMoves ==
    ASSUME ContentInv, NEW c \in Conns, on_resolve(c) \/ on_connect(c) \/ on_write(c)
    PROVE  (\E o : Moved(c, o)) /\ ended' \in Reasons
<1> DEFINE p == conn[c]
<1>1. PICK from \in {"resolving", "connecting", "asking"},
           to \in {"connecting", "asking", "awaiting"} : Ask(c, from, to)
  BY DEF on_resolve, on_connect, on_write
<1>2. PICK phase \in {to, "stranded"} :
         Become(c, Released([p EXCEPT
                      !.reply = IF phase = to THEN "none" ELSE "lost"], phase))
  BY <1>1 DEF Ask
<1>3. /\ Running /\ p \in Objects /\ p.phase = from /\ p.callback /\ ~p.applied
      /\ ended' = ended
  BY <1>1 DEF ContentInv, TypeOK, ObjectOK, Ask
<1>7. p.dbclient => p.req.method = "GET"
  <2>1. p.reply = "none" /\ Earned(p)
    BY <1>1, <1>3 DEF ContentInv, ObjectOK
  <2> QED
    BY <2>1, RepliesAssumption DEF Earned
<1> DEFINE reply == IF phase = to THEN "none" ELSE "lost"
           o == [p EXCEPT !.reply = reply, !.phase = phase]
<1>4. conn' = [conn EXCEPT ![c] = o]
  BY <1>2, <1>3 DEF Become, Released, Objects
<1>5. /\ o \in Objects /\ o.phase = phase /\ o.reply = reply
      /\ o.callback /\ ~o.applied /\ (o.dbclient <=> p.dbclient) /\ o.req = p.req
  <2>1. o \in Objects
    BY <1>3, WithReply, WithPhase DEF Phases, Replies
  <2> QED
    BY <1>3, <2>1 DEF Objects
<1>6. ObjectOK(o)
  BY <1>5, <1>7, RepliesAssumption DEF ObjectOK, Truthful, Earned
<1> QED
  BY <1>3, <1>4, <1>5, <1>6 DEF Moved, Reasons, Running

(* The auth server's answer arrives: an id only for the token's user.      *)
LEMMA AnswersMoves ==
    ASSUME ContentInv, NEW c \in Conns, NEW reply \in Replies \ {"none"},
           AuthAnswers(c, reply)
    PROVE  (\E o : Moved(c, o)) /\ ended' \in Reasons
<1> DEFINE p == conn[c]
           o == [p EXCEPT !.reply = reply]
<1>1. /\ Running /\ p \in Objects /\ p.phase = "awaiting" /\ p.callback /\ ~p.applied
      /\ reply \in Users => reply = p.req.token
      /\ conn' = [conn EXCEPT ![c] = o] /\ ended' = ended
  BY DEF ContentInv, TypeOK, ObjectOK, AuthAnswers, Become
<1>4. p.dbclient => p.req.method = "GET"
  <2>1. p.reply = "none" /\ Earned(p)
    BY DEF ContentInv, ObjectOK, AuthAnswers
  <2> QED
    BY <2>1, RepliesAssumption DEF Earned
<1>2. /\ o \in Objects /\ o.phase = "awaiting" /\ o.reply = reply /\ o.req = p.req
      /\ o.callback /\ ~o.applied /\ (o.dbclient <=> p.dbclient)
  BY <1>1 DEF Objects
<1>3. ObjectOK(o)
  BY <1>1, <1>2, <1>4 DEF ObjectOK, Truthful, Earned
<1> QED
  BY <1>1, <1>2, <1>3 DEF Moved, Reasons, Running

(* on_read without an id: the client is told, or nobody, or the server     *)
(* ends.                                                                   *)
LEMMA RefusalMoves ==
    ASSUME ContentInv, NEW c \in Conns,
           on_readRefused(c) \/ on_readError(c) \/ on_readNoId(c)
    PROVE  (\E o : Moved(c, o)) /\ ended' \in Reasons
<1> DEFINE p == conn[c]
<1>1. /\ Running /\ p \in Objects /\ ObjectOK(p) /\ p.phase = "awaiting"
      /\ p.callback /\ ~p.applied
  BY DEF ContentInv, TypeOK, ObjectOK, on_readRefused, on_readError, on_readNoId
<1>2. CASE on_readRefused(c)
  <2> DEFINE o == [p EXCEPT !.phase = "replying", !.status = StatusOf(p.reply)]
  <2>1. /\ p.reply \in Refusals
        /\ conn' = [conn EXCEPT ![c] = o] /\ ended' = ended
    BY <1>2 DEF on_readRefused, Answer, Become
  <2>2. StatusOf(p.reply) \in {400, 401, 500}
    BY <2>1 DEF StatusOf, Refusals
  <2>3. /\ o \in Objects /\ o.phase = "replying" /\ o.status = StatusOf(p.reply)
        /\ o.req = p.req /\ o.reply = p.reply /\ o.callback /\ ~o.applied
        /\ (o.dbclient <=> p.dbclient)
    <3>1. o \in Objects
      <4>1. StatusOf(p.reply) \in Statuses
        BY <2>2 DEF Statuses
      <4> QED
        BY <1>1, <4>1, AnsweringObject, Zenon
    <3> QED
      BY <1>1, <3>1 DEF Objects
  <2>4. ObjectOK(o)
    BY <1>1, <2>2, <2>3 DEF ObjectOK, Truthful, Earned
  <2> QED
    BY <1>1, <2>1, <2>3, <2>4 DEF Moved, Reasons, Running
<1>3. CASE on_readError(c) \/ on_readNoId(c)
  <2>1. PICK phase \in {"stranded", "crashed"} :
           /\ conn' = [conn EXCEPT ![c] = [p EXCEPT !.phase = phase]]
           /\ ended' \in Reasons
    BY <1>1, <1>3 DEF on_readError, on_readNoId, Become, Crash, Reasons, Running
  <2> DEFINE o == [p EXCEPT !.phase = phase]
  <2>2. /\ o \in Objects /\ o.phase = phase /\ o.req = p.req /\ o.reply = p.reply
        /\ o.callback /\ (o.dbclient <=> p.dbclient)
    BY <1>1 DEF Objects, Phases
  <2>3. ObjectOK(o)
    BY <1>1, <2>2 DEF ObjectOK, Truthful, Earned
  <2> QED
    BY <1>1, <2>1, <2>2, <2>3 DEF Moved
<1> QED
  BY <1>2, <1>3

(* An object to which a callback has written an answer.                    *)
LEMMA AnsweredObject ==
    ASSUME NEW o \in Objects, NEW status \in Statuses
    PROVE  Answer(o, status) \in Objects
BY AnsweringObject DEF Answer

(* The same for one that has a session.                                    *)
LEMMA HoldingObject ==
    ASSUME NEW o \in Objects, NEW status \in Statuses
    PROVE  Holding(Answer(o, status)) \in Objects
BY AnsweredObject, WithFlags DEF Holding

(* The same for one that has changed the tables.                           *)
LEMMA AppliedObject ==
    ASSUME NEW o \in Objects, NEW status \in Statuses
    PROVE  [Holding(Answer(o, status)) EXCEPT !.applied = TRUE] \in Objects
BY HoldingObject, WithFlags

(* An object with an id has asked for it, and has changed nothing yet.     *)
LEMMA HasIdFacts ==
    ASSUME ContentInv, NEW c \in Conns, HasId(c)
    PROVE  /\ Running /\ conn[c] \in Objects /\ ObjectOK(conn[c])
           /\ conn[c].phase = "awaiting" /\ conn[c].callback /\ ~conn[c].applied
           /\ conn[c].reply \in Users /\ conn[c].reply = conn[c].req.token
BY DEF ContentInv, TypeOK, ObjectOK, HasId

(* What a callback leaves: an object that answers with or without having   *)
(* taken effect, or a crash.                                               *)
LEMMA AnsweredMoves ==
    ASSUME ContentInv, NEW c \in Conns, HasId(c), NEW o \in Objects,
           conn' = [conn EXCEPT ![c] = o],
           o.phase \in {"replying", "crashed"}, o.req = conn[c].req,
           o.reply = conn[c].reply, o.callback,
           o.dbclient => conn[c].dbclient \/ CanConnect,
           o.dbclient => conn[c].dbclient \/ conn[c].req.method = "POST",
           o.phase = "replying" /\ o.req.method = "POST" =>
              /\ o.status \in {200, 500}
              /\ o.status = 200 /\ o.req.target # "unknown" => o.applied
    PROVE  \E p : Moved(c, p)
<1>1. ObjectOK(o)
  <2>1. o.reply \in Users /\ o.reply = o.req.token /\ ObjectOK(conn[c])
    BY HasIdFacts
  <2>2. Earned(o)
    BY <2>1 DEF Earned, ObjectOK
  <2>3. Truthful(o)
    BY DEF Truthful
  <2> QED
    BY <2>1, <2>2, <2>3, RepliesAssumption DEF ObjectOK
<1>2. Running /\ conn[c].phase = "awaiting"
  BY HasIdFacts
<1>3. Moved(c, o)
  BY <1>1, <1>2 DEF Moved
<1> QED
  BY <1>3

(* The callback of a GET: an answer, or the end of the process.            *)
LEMMA GetMoves ==
    ASSUME ContentInv, NEW c \in Conns, callbackGet(c)
    PROVE  (\E o : Moved(c, o)) /\ ended' \in Reasons
<1> DEFINE p == conn[c]
<1>0. p \in Objects
  BY DEF ContentInv, TypeOK
<1>1. HasId(c) /\ p.req.method = "GET" /\ p \in Objects /\ p.callback /\ Running
  BY HasIdFacts DEF callbackGet
<1>2. CASE Crash(c, p, "no session")
  <2> DEFINE o == [p EXCEPT !.phase = "crashed"]
  <2>1. o \in Objects
    BY <1>1, WithPhase DEF Phases
  <2>2. /\ o.phase = "crashed" /\ o.req = p.req /\ o.reply = p.reply /\ o.callback
        /\ (o.dbclient <=> p.dbclient)
    BY <1>1 DEF Objects
  <2>3. conn' = [conn EXCEPT ![c] = o] /\ ended' = "no session"
    BY <1>2 DEF Crash, Become
  <2> QED
    BY <1>1, <2>1, <2>2, <2>3, AnsweredMoves DEF Reasons
<1>3. ASSUME NEW status \in {200, 400, 500}, Finish(c, Answer(p, status))
      PROVE  (\E o : Moved(c, o)) /\ ended' \in Reasons
  <2> DEFINE o == Answer(p, status)
  <2>1. o \in Objects
    <3>1. status \in Statuses
      BY DEF Statuses
    <3> QED
      BY <1>0, <3>1, AnsweredObject, SMT
  <2>2. /\ o.phase = "replying" /\ o.req = p.req /\ o.reply = p.reply /\ o.callback
        /\ (o.dbclient <=> p.dbclient)
    BY <1>1 DEF Answer, Objects
  <2>3. conn' = [conn EXCEPT ![c] = o] /\ ended' \in Reasons
    BY <1>1, <1>3 DEF Finish, Become, Reasons, Running
  <2> QED
    BY <1>1, <2>1, <2>2, <2>3, AnsweredMoves, ZenonT(60)
<1> DEFINE statuses == CASE p.req.target = "getId" -> {200}
                         [] p.req.target = "read" -> {200, 500}
                         [] p.req.target = "unknown" -> {400}
<1>4. p.req.target \in {"getId", "read", "unknown"}
  BY <1>0, <1>1 DEF Objects, Requests, NoRequest
<1>5. statuses \subseteq {200, 400, 500}
  <2>1. CASE p.req.target = "getId"
    BY <2>1
  <2>2. CASE p.req.target = "read"
    BY <2>2
  <2>3. CASE p.req.target = "unknown"
    BY <2>3
  <2> QED
    BY <1>4, <2>1, <2>2, <2>3
<1>6. \/ Crash(c, p, "no session")
      \/ \E status \in statuses : Finish(c, Answer(p, status))
  BY Zenon DEF callbackGet
<1> HIDE DEF statuses
<1>7. ASSUME NEW status \in statuses, Finish(c, Answer(p, status))
      PROVE  (\E o : Moved(c, o)) /\ ended' \in Reasons
  BY <1>3, <1>5, <1>7
<1> QED
  BY <1>2, <1>6, <1>7

(* The answers of callbackPostCaught, callbackPost and callbackPostUnknown. *)
LEMMA PostMoves ==
    ASSUME ContentInv, NEW c \in Conns,
           callbackPostCaught(c) \/ callbackPost(c) \/ callbackPostUnknown(c)
    PROVE  (\E o : Moved(c, o)) /\ ended' \in Reasons
<1> DEFINE p == conn[c]
<1>0. p \in Objects
  BY DEF ContentInv, TypeOK
<1>1. /\ HasId(c) /\ p.req.method = "POST" /\ p \in Objects /\ p.callback /\ ~p.applied
      /\ Running
  BY HasIdFacts DEF callbackPostCaught, callbackPost, callbackPostUnknown
<1>2. ASSUME Finish(c, Answer(p, 500))
      PROVE  (\E o : Moved(c, o)) /\ ended' \in Reasons
  <2> DEFINE o == Answer(p, 500)
  <2>1. o \in Objects
    <3>1. 500 \in Statuses
      BY DEF Statuses
    <3> QED
      BY <1>0, <3>1, AnsweredObject, SMT
  <2>2. /\ o.phase = "replying" /\ o.req = p.req /\ o.reply = p.reply /\ o.callback
        /\ (o.dbclient <=> p.dbclient) /\ o.status = 500
    BY <1>1 DEF Answer, Objects
  <2>3. conn' = [conn EXCEPT ![c] = o] /\ ended' \in Reasons
    BY <1>1, <1>2 DEF Finish, Become, Reasons, Running
  <2>4. /\ o.status \in {200, 500}
        /\ o.status = 200 /\ o.req.target # "unknown" => o.applied
    BY <2>2
  <2> HIDE DEF o
  <2>5. \E x : Moved(c, x)
    BY <1>1, <2>1, <2>2, <2>3, <2>4, AnsweredMoves, ZenonT(60)
  <2> QED
    BY <2>3, <2>5
<1>3. ASSUME NEW status \in {200, 500}, Finish(c, Holding(Answer(p, status))), CanConnect,
             status = 200 => p.req.target = "unknown"
      PROVE  (\E o : Moved(c, o)) /\ ended' \in Reasons
  <2> DEFINE o == Holding(Answer(p, status))
  <2>1. o \in Objects
    <3>1. status \in Statuses
      BY DEF Statuses
    <3> QED
      BY <1>0, <3>1, HoldingObject, SMT
  <2>2. /\ o.phase = "replying" /\ o.req = p.req /\ o.reply = p.reply /\ o.callback
        /\ o.dbclient /\ o.status = status /\ ~o.applied
    BY <1>1 DEF Holding, Answer, Objects
  <2>3. conn' = [conn EXCEPT ![c] = o] /\ ended' \in Reasons
    BY <1>1, <1>3 DEF Finish, Become, Reasons, Running
  <2>4. /\ o.status \in {200, 500}
        /\ o.status = 200 /\ o.req.target # "unknown" => o.applied
    BY <1>3, <2>2
  <2> HIDE DEF o
  <2>5. \E x : Moved(c, x)
    BY <1>1, <1>3, <2>1, <2>2, <2>3, <2>4, AnsweredMoves
  <2> QED
    BY <2>3, <2>5
<1>4. ASSUME NEW status \in {200, 500}, CanConnect, p.req.target # "unknown",
             conn' = [conn EXCEPT ![c] =
                         [Holding(Answer(p, status)) EXCEPT !.applied = TRUE]]
      PROVE  \E o : Moved(c, o)
  <2> DEFINE o == [Holding(Answer(p, status)) EXCEPT !.applied = TRUE]
  <2>1. o \in Objects
    <3>1. status \in Statuses
      BY DEF Statuses
    <3> QED
      BY <1>0, <3>1, AppliedObject, SMT
  <2>2. /\ o.phase = "replying" /\ o.req = p.req /\ o.reply = p.reply /\ o.callback
        /\ o.dbclient /\ o.status = status /\ o.applied
    BY <1>1 DEF Holding, Answer, Objects
  <2>3. /\ o.status \in {200, 500}
        /\ o.status = 200 /\ o.req.target # "unknown" => o.applied
    BY <1>4, <2>2
  <2>4. conn' = [conn EXCEPT ![c] = o]
    BY <1>4
  <2> HIDE DEF o
  <2> QED
    BY <1>1, <1>4, <2>1, <2>2, <2>3, <2>4, AnsweredMoves
<1>5. CASE callbackPostCaught(c)
  <2>1. CASE Finish(c, Answer(p, 500))
    BY <1>2, <2>1
  <2>2. CASE CanConnect /\ Finish(c, Holding(Answer(p, 500)))
    BY <1>3, <2>2
  <2> QED
    BY <1>5, <2>1, <2>2 DEF callbackPostCaught, CaughtStatus
<1>6. CASE callbackPost(c)
  <2>1. p.req.target # "unknown"
    BY <1>6 DEF callbackPost, Perform
  <2>2. CanConnect /\ \E status \in {200, CaughtStatus("500")} :
           Finish(c, [Holding(Answer(p, status)) EXCEPT !.applied = TRUE])
    BY <1>6, Zenon DEF callbackPost
  <2>3. PICK status \in {200, CaughtStatus("500")} :
           Finish(c, [Holding(Answer(p, status)) EXCEPT !.applied = TRUE])
    BY <2>2, Zenon
  <2>4. /\ status \in {200, 500}
        /\ conn' = [conn EXCEPT ![c] =
                       [Holding(Answer(p, status)) EXCEPT !.applied = TRUE]]
        /\ ended' = ended \/ ended' = "shutdown"
    BY <2>3, Zenon DEF Finish, Become, CaughtStatus
  <2>5. \E o : Moved(c, o)
    BY <1>4, <2>1, <2>2, <2>4, ZenonT(60)
  <2> QED
    BY <1>1, <2>4, <2>5 DEF Reasons, Running
<1>7. CASE callbackPostUnknown(c)
  BY <1>3, <1>7 DEF callbackPostUnknown
<1> QED
  BY <1>5, <1>6, <1>7

(* After the answer is sent.                                               *)
LEMMA WriteMoves ==
    ASSUME ContentInv, NEW c \in Conns, handleWrite(c)
    PROVE  (\E o : Moved(c, o)) /\ ended' \in Reasons
<1> DEFINE p == conn[c]
           o == Released(p, "closed")
<1>1. Running /\ p.phase = "replying" /\ p \in Objects /\ ObjectOK(p)
  BY DEF ContentInv, TypeOK, handleWrite
<1>2. conn' = [conn EXCEPT ![c] = o] /\ ended' \in Reasons
  BY <1>1 DEF handleWrite, Finish, Become, Reasons, Running
<1>3. CASE p.callback
  <2>1. o = [p EXCEPT !.phase = "closed"]
    BY <1>3 DEF Released
  <2>2. o \in Objects
    BY <1>1, <2>1, WithPhase DEF Phases
  <2>3. /\ o.phase = "closed" /\ o.req = p.req /\ o.reply = p.reply /\ o.callback
        /\ (o.dbclient <=> p.dbclient) /\ o.status = p.status
        /\ (o.applied <=> p.applied)
    BY <1>1, <1>3, <2>1 DEF Objects
  <2>4. ObjectOK(o)
    BY <1>1, <2>3 DEF ObjectOK, Truthful, Earned
  <2> QED
    BY <1>1, <1>2, <2>2, <2>3, <2>4 DEF Moved
<1>4. CASE ~p.callback
  <2>1. o = NoObject /\ NoObject.phase = "none" /\ ~NoObject.dbclient /\ ~p.dbclient
    BY <1>1, <1>4 DEF Released, NoObject, ObjectOK
  <2> QED
    BY <1>1, <1>2, <2>1, NoObjectOK DEF Moved
<1> QED
  BY <1>3, <1>4
-----------------------------------------------------------------------------
(* Every step of an object other than an accept is one of these. *)
ObjectStep(c) ==
    \/ \E r \in Requests : handleRead(c, r)
    \/ handleReadError(c)
    \/ \E reply \in Replies \ {"none"} : AuthAnswers(c, reply)
    \/ Handler(c)
    \/ handleWrite(c)

(* So every handler is a step of its object alone.                         *)
LEMMA ObjectMoves ==
    ASSUME ContentInv, NEW c \in Conns, ObjectStep(c)
    PROVE  (\E o : Moved(c, o)) /\ ended' \in Reasons
<1>1. ASSUME NEW r \in Requests, handleRead(c, r)
      PROVE  (\E o : Moved(c, o)) /\ ended' \in Reasons
  BY <1>1, ReadMoves, Zenon
<1>2. ASSUME NEW reply \in Replies \ {"none"}, AuthAnswers(c, reply)
      PROVE  (\E o : Moved(c, o)) /\ ended' \in Reasons
  BY <1>2, AnswersMoves, Zenon
<1>3. ASSUME Handler(c)
      PROVE  (\E o : Moved(c, o)) /\ ended' \in Reasons
  BY <1>3, AskMoves, RefusalMoves, GetMoves, PostMoves, Zenon DEF Handler
<1> QED
  BY <1>1, <1>2, <1>3, ReadErrorMoves, WriteMoves, Zenon DEF ObjectStep

(* Only callbackPost touches the tables. *)
LEMMA BoardSteps ==
    ASSUME NEW c \in Conns, ObjectStep(c)
    PROVE  UNCHANGED board \/ callbackPost(c)
BY DEF ObjectStep, Handler, handleRead, handleReadError, AuthAnswers, on_resolve, on_connect,
       on_write, Ask, on_readRefused, on_readError, on_readNoId, callbackGet,
       callbackPostCaught, callbackPostUnknown, handleWrite, board

(* What a callback does to the tables, it does as the token's user.        *)
LEMMA PostFacts ==
    ASSUME ContentInv, NEW c \in Conns, callbackPost(c)
    PROVE  \E u \in Users, p \in PostIds :
              /\ u = conn[c].req.token
              /\ Board!Publish(p, u) \/ Board!Remove(p, u) \/ Board!Toggle(p, u)
<1>1. conn[c].reply \in Users /\ conn[c].reply = conn[c].req.token
  BY HasIdFacts DEF callbackPost
<1>2. conn[c].req \in Requests \cup {NoRequest} /\ conn[c].req.method = "POST"
  <2>1. conn[c] \in Objects
    BY DEF ContentInv, TypeOK
  <2> QED
    BY <2>1, Zenon DEF callbackPost, Objects
<1>3. Perform(conn[c].req, conn[c].reply)
  BY DEF callbackPost
<1>4. conn[c].req.target \in {"deletePost", "likeClicked"} => conn[c].req.post \in PostIds
  BY <1>2 DEF Requests, NoRequest
<1> QED
  BY <1>1, <1>3, <1>4 DEF Perform

(* PostBoard's Cardinality is that of FiniteSets. *)
LEMMA SameCardinality ==
    ASSUME NEW S
    PROVE  Board!Cardinality(S) = Cardinality(S)
BY DEF Cardinality, Board!Cardinality

(* The tables' types are kept by each step of PostBoard.                   *)
LEMMA BoardStays ==
    ASSUME BoardTyped, NEW u \in Users, NEW p \in PostIds,
           Board!Publish(p, u) \/ Board!Remove(p, u) \/ Board!Toggle(p, u)
    PROVE  BoardTyped'
<1>1. Cardinality(Users) \in Nat
  BY FiniteAssumption, FS_CardinalityType
<1>2. CASE Board!Publish(p, u)
  BY <1>2 DEF BoardTyped, Board!Publish
<1>3. CASE Board!Remove(p, u)
  BY <1>1, <1>3 DEF BoardTyped, Board!Remove
<1>4. CASE Board!Toggle(p, u)
  <2>1. Board!FansOf(p, fans') \subseteq Users
    BY DEF Board!FansOf
  <2>2. Cardinality(Board!FansOf(p, fans')) \in 0..Cardinality(Users)
    BY <1>1, <2>1, FiniteAssumption, FS_Subset, FS_CardinalityType
  <2>3. fans' \subseteq PostIds \X Users /\ author' = author
    BY <1>4 DEF BoardTyped, Board!Toggle
  <2>4. PICK n \in 0..Cardinality(Users) : shown' = [shown EXCEPT ![p] = n]
    BY <1>4, <2>2, SameCardinality DEF Board!Toggle
  <2>5. shown' \in [PostIds -> 0..Cardinality(Users)]
    BY <2>4 DEF BoardTyped
  <2> QED
    BY <2>3, <2>5 DEF BoardTyped
<1> QED
  BY <1>2, <1>3, <1>4

-----------------------------------------------------------------------------
(* At first one object listens and there is no other.                      *)
LEMMA InitContent == Init => ContentInv
<1> SUFFICES ASSUME Init PROVE ContentInv
  OBVIOUS
<1>1. PICK c \in Conns :
         conn = [d \in Conns |-> IF d = c THEN [NoObject EXCEPT !.phase = "accepting"]
                                          ELSE NoObject]
  BY DEF Init
<1> DEFINE first == [NoObject EXCEPT !.phase = "accepting"]
<1>2. first \in Objects
  BY NoObjectOK, WithPhase DEF Phases
<1>3. /\ first.phase = "accepting" /\ ~first.dbclient /\ ~first.callback /\ ~first.applied
      /\ first.reply = "none"
      /\ NoObject.phase = "none" /\ ~NoObject.dbclient
  BY DEF NoObject
<1>4. ObjectOK(first)
  BY <1>3, RepliesAssumption DEF ObjectOK, Truthful, Earned
<1> HIDE DEF first
<1>5. conn \in [Conns -> Objects] /\ \A d \in Conns : conn[d] = first \/ conn[d] = NoObject
  BY <1>1, <1>2, NoObjectOK DEF first
<1>6. OneListens
  BY <1>1, <1>3 DEF OneListens, first
<1>7. {d \in Conns : conn[d].dbclient} = {}
  BY <1>3, <1>5
<1>8. Sessions = 0
  BY <1>7, FS_EmptySet DEF Sessions
<1>9. BoardTyped
  <2>1. Cardinality(Users) \in Nat
    BY FiniteAssumption, FS_CardinalityType
  <2>2. \A p : Cardinality(Board!FansOf(p, fans)) \in 0..Cardinality(Users)
    <3> TAKE p
    <3>1. Board!FansOf(p, fans) \subseteq Users
      BY DEF Board!FansOf
    <3> QED
      BY <2>1, <3>1, FiniteAssumption, FS_Subset, FS_CardinalityType
  <2> QED
    BY <2>2 DEF Init, BoardTyped
<1>10. TypeOK
  BY <1>5, <1>8, <1>9, SessionsAssumption DEF Init, TypeOK, BoardTyped
<1> QED
  BY <1>4, <1>5, <1>6, <1>10, NoObjectOK DEF ContentInv

(* ContentInv is inductive.                                                *)
LEMMA NextContent == ContentInv /\ [Next]_vars => ContentInv'
<1> SUFFICES ASSUME ContentInv, [Next]_vars PROVE ContentInv'
  OBVIOUS
<1>1. ASSUME NEW c \in Conns, NEW error \in BOOLEAN, handle_accept(c, error), UNCHANGED others
      PROVE  ContentInv'
  BY <1>1, AcceptInv
<1>2. ASSUME NEW c \in Conns, ObjectStep(c), UNCHANGED others
      PROVE  ContentInv'
  <2>1. (\E o : Moved(c, o)) /\ ended' \in Reasons
    BY <1>2, ObjectMoves
  <2>2. BoardTyped
    BY DEF ContentInv, TypeOK, BoardTyped
  <2>3. BoardTyped'
    <3>1. CASE UNCHANGED board
      BY <2>2, <3>1 DEF BoardTyped, board
    <3>2. CASE callbackPost(c)
      BY <2>2, <3>2, PostFacts, BoardStays
    <3> QED
      BY <1>2, <3>1, <3>2, BoardSteps
  <2> QED
    BY <1>2, <2>1, <2>3, MovedInv
<1>3. CASE OthersConnect
  <2>1. /\ conn' = conn /\ ended' = ended /\ UNCHANGED <<author, fans, shown>>
        /\ others' \in 0..MaxSessions
        /\ Running => Sessions + others' <= MaxSessions
    BY <1>3 DEF OthersConnect, board
  <2>2. Sessions' = Sessions
    BY <2>1 DEF Sessions
  <2>3. TypeOK'
    BY <2>1, <2>2 DEF ContentInv, TypeOK, Running
  <2> QED
    BY <2>1, <2>3 DEF ContentInv, OneListens, Running
<1>4. CASE UNCHANGED vars
  <2>1. Sessions' = Sessions
    BY <1>4 DEF Sessions, vars
  <2>2. TypeOK'
    BY <1>4, <2>1 DEF ContentInv, TypeOK, Running, vars
  <2> QED
    BY <1>4, <2>2 DEF ContentInv, OneListens, Running, vars
<1> QED
  BY <1>1, <1>2, <1>3, <1>4 DEF Next, Step, ObjectStep

(* Every reachable state has all the parts of ContentInv. *)
THEOREM ContentInvariant == Spec => []ContentInv
BY InitContent, NextContent, PTL DEF Spec

(* TypeOK: objects and tables are of their kinds, and no more sessions are *)
(* held than the database grants.                                          *)
THEOREM TypeCorrect == Spec => []TypeOK
<1>1. ContentInv => TypeOK
  BY DEF ContentInv
<1> QED
  BY <1>1, ContentInvariant, PTL

(* AlwaysListening: exactly one object waits for the next client while the *)
(* process runs, however many accepts have failed.                         *)
THEOREM ListensAlways == Spec => []AlwaysListening
<1>1. ContentInv => AlwaysListening
  <2> SUFFICES ASSUME ContentInv, Running
               PROVE  Cardinality({c \in Conns : conn[c].phase = "accepting"}) = 1
    BY DEF AlwaysListening
  <2>1. PICK c \in Conns : \A d \in Conns : conn[d].phase = "accepting" <=> d = c
    BY DEF ContentInv, OneListens
  <2>2. {d \in Conns : conn[d].phase = "accepting"} = {c}
    BY <2>1
  <2> QED
    BY <2>2, FS_Singleton
<1> QED
  BY <1>1, ContentInvariant, PTL

(* StatusTellsTruth: what a client concludes from the status of its POST   *)
(* is right, whatever threw on the way to it.                              *)
THEOREM StatusesTruthful == Spec => []StatusTellsTruth
<1>1. ContentInv => StatusTellsTruth
  BY DEF ContentInv, ObjectOK, Truthful, StatusTellsTruth
<1> QED
  BY <1>1, ContentInvariant, PTL

(* SessionsEarned: what costs a database session is a GET, or a POST with  *)
(* a token that the auth server has confirmed.                             *)
THEOREM AllSessionsEarned == Spec => []SessionsEarned
<1>1. ContentInv => SessionsEarned
  BY DEF ContentInv, ObjectOK, Earned, SessionsEarned
<1> QED
  BY <1>1, ContentInvariant, PTL

-----------------------------------------------------------------------------
(* An object whose handler threw keeps its request.                        *)
LEMMA CrashedObject ==
    ASSUME NEW o \in Objects
    PROVE  /\ [o EXCEPT !.phase = "crashed"].phase = "crashed"
           /\ [o EXCEPT !.phase = "crashed"].req = o.req
BY DEF Objects

(* The request read is the one the object has.                             *)
LEMMA RequestOf ==
    ASSUME NEW o \in Objects, NEW r \in Requests
    PROVE  [o EXCEPT !.req = r].req = r
BY DEF Objects

(* When no session is left, all are taken.                                 *)
LEMMA NothingLeft ==
    ASSUME NEW s \in Nat, NEW x \in Nat, NEW m \in Nat, ~(s + x < m), s + x <= m
    PROVE  s + x = m
BY SMT

(* Sessions of others are counted too.                                     *)
LEMMA OthersCounted ==
    ASSUME NEW x \in 0..MaxSessions
    PROVE  x \in Nat
BY SessionsAssumption

(* Where a session is missed: in handleRead and in callbackGet, for a GET. *)
LEMMA EndsOfSessions ==
    ASSUME ContentInv, NEW c \in Conns, ObjectStep(c), Running, ended' = "no session"
    PROVE  MayNotConnect /\ conn'[c].phase = "crashed" /\ conn'[c].req.method = "GET"
<1>1. conn \in [Conns -> Objects] /\ conn[c] \in Objects
  BY DEF ContentInv, TypeOK
<1>2. ASSUME NEW r \in Requests, handleRead(c, r)
      PROVE  MayNotConnect /\ conn'[c].phase = "crashed" /\ conn'[c].req.method = "GET"
  <2>1. /\ r.method = "GET" /\ MayNotConnect
        /\ Crash(c, [conn[c] EXCEPT !.req = r], "no session")
    BY <1>2 DEF handleRead, Finish, Running
  <2>2. conn'[c] = [[conn[c] EXCEPT !.req = r] EXCEPT !.phase = "crashed"]
    BY <1>1, <2>1 DEF Crash, Become
  <2>3. conn'[c].phase = "crashed" /\ conn'[c].req = r
    <3>1. [conn[c] EXCEPT !.req = r] \in Objects
      BY <1>1, <1>2, WithReq
    <3>2. [conn[c] EXCEPT !.req = r].req = r
      BY <1>1, <1>2, RequestOf
    <3>3. \A o \in Objects :
             /\ [o EXCEPT !.phase = "crashed"].phase = "crashed"
             /\ [o EXCEPT !.phase = "crashed"].req = o.req
      BY CrashedObject
    <3> QED
      BY <2>2, <3>1, <3>2, <3>3, Zenon
  <2> QED
    BY <2>1, <2>3
<1>3. CASE callbackGet(c)
  <2>1. MayNotConnect /\ Crash(c, conn[c], "no session") /\ conn[c].req.method = "GET"
    BY <1>3, Zenon DEF callbackGet, Finish, Running
  <2>2. conn'[c] = [conn[c] EXCEPT !.phase = "crashed"]
    BY <1>1, <2>1 DEF Crash, Become
  <2>3. conn'[c].phase = "crashed" /\ conn'[c].req = conn[c].req
    BY <1>1, <2>2, CrashedObject, Zenon
  <2> QED
    BY <2>1, <2>3
<1>4. ASSUME \/ handleReadError(c) \/ on_resolve(c) \/ on_connect(c) \/ on_write(c)
             \/ \E reply \in Replies \ {"none"} : AuthAnswers(c, reply)
             \/ on_readRefused(c) \/ on_readError(c) \/ on_readNoId(c)
      PROVE  FALSE
  BY <1>4 DEF handleReadError, on_resolve, on_connect, on_write, Ask, AuthAnswers,
              on_readRefused, on_readError, on_readNoId, Crash, Running
<1>5. ASSUME callbackPostCaught(c) \/ callbackPost(c) \/ callbackPostUnknown(c) \/ handleWrite(c)
      PROVE  FALSE
  BY <1>5, Zenon DEF callbackPostCaught, callbackPost, callbackPostUnknown, handleWrite,
              Finish, Running
<1> QED
  BY <1>2, <1>3, <1>4, <1>5, Zenon DEF ObjectStep, Handler

(* OnlyGetDiesOfSessions: a POST that finds no session is answered 500, a  *)
(* GET ends the server, and only when the last session is taken or opening *)
(* one fails by itself.                                                    *)
THEOREM GetsDieOfSessions == Spec => OnlyGetDiesOfSessions
<1> DEFINE Dies ==
        Running /\ ended' = "no session" =>
          /\ \E c \in Conns : conn'[c].phase = "crashed" /\ conn'[c].req.method = "GET"
          /\ "connect" \in Throws \/ Sessions + others = MaxSessions
<1>1. ContentInv /\ [Next]_vars => Dies
  <2> SUFFICES ASSUME ContentInv, [Next]_vars, Running, ended' = "no session"
               PROVE  /\ \E c \in Conns : /\ conn'[c].phase = "crashed"
                                          /\ conn'[c].req.method = "GET"
                      /\ "connect" \in Throws \/ Sessions + others = MaxSessions
    BY DEF Running
  <2>1. PICK c \in Conns : ObjectStep(c)
    BY DEF Next, Step, ObjectStep, handle_accept, OthersConnect, vars, Running
  <2>2. MayNotConnect /\ conn'[c].phase = "crashed" /\ conn'[c].req.method = "GET"
    BY <2>1, EndsOfSessions
  <2>3. CASE ~CanConnect
    <3>1. Sessions \in Nat /\ MaxSessions \in Nat
      BY SessionsFinite, SessionsAssumption
    <3>2. others \in 0..MaxSessions
      BY DEF ContentInv, TypeOK
    <3>5. Sessions + others <= MaxSessions
      BY DEF ContentInv, TypeOK
    <3>3. others \in Nat
      BY <3>2, OthersCounted
    <3>4. ~(Sessions + others < MaxSessions)
      BY <2>3 DEF CanConnect
    <3>6. Sessions + others = MaxSessions
      BY <3>1, <3>3, <3>4, <3>5, NothingLeft
    <3> QED
      BY <2>2, <3>6
  <2> QED
    BY <2>2, <2>3 DEF MayNotConnect
<1> QED
  BY <1>1, ContentInvariant, PTL DEF Spec, OnlyGetDiesOfSessions

(* EffectsAuthorised: the tables change for one request at a time, never   *)
(* twice for the same, and only in rows of the user whose token it bears.  *)
THEOREM AllEffectsAuthorised == Spec => EffectsAuthorised
<1> DEFINE Own(c) ==
        \A p \in PostIds :
           /\ {author[p], author'[p]} \ {Null, conn[c].req.token} # {}
                => author'[p] = author[p]
           /\ \A u \in Users \ {conn[c].req.token} :
                (<<p, u>> \in fans') # (<<p, u>> \in fans)
                  => author[p] = conn[c].req.token /\ author'[p] = Null
           Authorised ==
        board' # board =>
          \E c \in Conns : /\ ~conn[c].applied /\ conn'[c].applied
                           /\ conn[c].req.method = "POST"
                           /\ Own(c)
<1>1. ContentInv /\ [Next]_vars => Authorised
  <2> SUFFICES ASSUME ContentInv, [Next]_vars, board' # board
               PROVE  \E c \in Conns : /\ ~conn[c].applied /\ conn'[c].applied
                                       /\ conn[c].req.method = "POST"
                                       /\ Own(c)
    OBVIOUS
  <2>1. PICK c \in Conns : callbackPost(c)
    BY BoardSteps DEF Next, Step, ObjectStep, handle_accept, OthersConnect, vars, board
  <2>2. ~conn[c].applied /\ conn[c].req.method = "POST"
    BY <2>1, HasIdFacts DEF callbackPost
  <2>3. conn'[c].applied
    <3>1. conn \in [Conns -> Objects] /\ conn[c] \in Objects
      BY DEF ContentInv, TypeOK
    <3>2. PICK status \in {200, CaughtStatus("500")} :
             conn' = [conn EXCEPT ![c] =
                        [Holding(Answer(conn[c], status)) EXCEPT !.applied = TRUE]]
      BY <2>1, Zenon DEF callbackPost, Finish, Become
    <3> QED
      BY <3>1, <3>2 DEF Holding, Answer, Objects
  <2>4. PICK u \in Users, p \in PostIds :
           /\ u = conn[c].req.token
           /\ Board!Publish(p, u) \/ Board!Remove(p, u) \/ Board!Toggle(p, u)
    BY <2>1, PostFacts
  <2>5. author \in [PostIds -> Users \cup {Null}] /\ fans \subseteq PostIds \X Users
    BY DEF ContentInv, TypeOK
  <2>6. ASSUME Board!Publish(p, u) PROVE Own(c)
    BY <2>4, <2>5, <2>6 DEF Board!Publish
  <2>7. ASSUME Board!Remove(p, u) PROVE Own(c)
    BY <2>4, <2>5, <2>7 DEF Board!Remove
  <2>8. ASSUME Board!Toggle(p, u) PROVE Own(c)
    BY <2>4, <2>5, <2>8 DEF Board!Toggle
  <2>9. Own(c)
    BY <2>4, <2>6, <2>7, <2>8
  <2> QED
    BY <2>2, <2>3, <2>9
<1> QED
  BY <1>1, ContentInvariant, PTL DEF Spec, EffectsAuthorised
=============================================================================
