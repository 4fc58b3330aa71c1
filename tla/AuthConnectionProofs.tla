------------------------ MODULE AuthConnectionProofs ------------------------
(***************************************************************************)
(* Proofs about AuthConnection, for any number of connections, requests of *)
(* all kinds, streams of any length cut anywhere, and all faults.          *)
(***************************************************************************)
EXTENDS AuthConnection, SequenceTheorems, WellFoundedInduction, TLAPS

(* request holds a part of the stream that begins and ends where TCP or    *)
(* request.clear() may have put its ends.                                  *)
Kept(o) ==
    /\ o.from <= o.to /\ o.to <= End(o)
    /\ CanCut(o, o.from) /\ CanCut(o, o.to)

(* The beginning of request r has been cleared away. *)
Begun(o, r) == 4 * r - 4 < o.from

(* A whole request is at the beginning of the buffer. *)
AtHead(o) == o.from % 4 = 0 /\ o.from + 4 <= o.to

(* A refused request is at the beginning of the buffer, and will not get   *)
(* past parse or past checkAccesstoken any more: behind a POST there is    *)
(* something, as soon as it is parsed again, and the token that the search *)
(* for "Bearer " finds remains the refused one.                            *)
Refusing(o, gone) ==
    /\ AtHead(o) /\ o.thread # "working"
    /\ Asked(o).target \in Guarded /\ Asked(o).flaw # "content"
    /\ IF Method[Asked(o).target] = "POST"
       THEN Asked(o).flaw # "length" /\ (o.thread = "parsing" => o.from + 4 < o.to)
       ELSE ~NoOrigin(o) /\ Presenting(o, Guarded) # {} /\ TokenOf(o, Guarded) \in gone

OwnOf(own, token) == token = own \/ (own = Null /\ Pipelining)

Staged(o) ==
    /\ o.thread \in {"none", "starting"} => o.from = 0 /\ o.to = 0
    /\ o.thread = "parsing" => o.from < o.to
    /\ o.thread = "working" =>
          /\ AtHead(o)
          /\ Asked(o).target \in Guarded => OwnOf(Asked(o).token, o.token)

(* What has been answered has been cleared away, or is a refused request. *)
Replied(o, gone) == \A i \in DOMAIN o.replies :
    /\ o.replies[i].req \in DOMAIN o.stream
    /\ \/ Begun(o, o.replies[i].req)
       \/ /\ o.replies[i].req = First(o) /\ o.replies[i].status = 401
          /\ Refusing(o, gone)

(* What has taken effect has been cleared away. *)
Performed(o) == \A i \in DOMAIN o.done :
    /\ o.done[i].req \in DOMAIN o.stream /\ Begun(o, o.done[i].req)
    /\ \A j \in DOMAIN o.done : i < j => o.done[i].req < o.done[j].req
    /\ o.stream[o.done[i].req].target \in Guarded =>
          OwnOf(o.stream[o.done[i].req].token, o.done[i].token)

Truthful(o) == \A i \in DOMAIN o.replies :
    /\ i \in Sends(o, 200, Inserting) => o.replies[i].req \in Effects(o)
    /\ o.replies[i].status \in {400, 401} => o.replies[i].req \notin Effects(o)

ForGood(o) == \A i \in Sends(o, 401, Guarded) : \A j \in DOMAIN o.replies :
    o.replies[j].req = o.replies[i].req => o.replies[j].status = 401

(* A client in lock-step. *)
InStep(o) == \A i \in DOMAIN o.replies : o.replies[i].req = i
Answered(o) == Len(o.replies)
Sent(o) == Len(o.stream)

(* All is well: the n-th answer was to the n-th request. *)
Waiting(o) ==
    /\ InStep(o)
    /\ o.from = 4 * Answered(o) /\ Sent(o) \in {Answered(o), Answered(o) + 1}
    /\ o.thread = "reading" => o.to < o.from + 4

(* The last answer was a refusal of a POST, which is still in the buffer. *)
PostRefused(o) ==
    /\ InStep(o) /\ Answered(o) # 0
    /\ o.from = 4 * Answered(o) - 4 /\ Sent(o) \in {Answered(o), Answered(o) + 1}
    /\ Answered(o) \in Sends(o, 401, {"update"})
    /\ o.stream[Answered(o)].flaw = "none"
    /\ o.thread # "working" /\ o.from + 4 <= o.to
    /\ o.thread = "reading" => o.to = o.from + 4
    /\ o.thread = "parsing" => o.from + 4 < o.to

(* Why the last request was cleared away: it was not read at once, nothing *)
(* handles it, it has no Origin, or it followed a refused POST.            *)
Explained(o) ==
    \/ <<Sent(o), "cut short">> \in o.dropped
    \/ <<Sent(o), "unsupported">> \in o.dropped
       /\ (o.stream[Sent(o)].target \in Unknown \cup {"put"} \/ ~o.stream[Sent(o)].origin)
    \/ <<Sent(o), "behind">> \in o.dropped
       /\ Sends(o, 401, {"update"}) # {}

(* The last request's beginning was cleared away, so it is never answered. *)
Lost(o) ==
    /\ InStep(o)
    /\ o.from > 4 * Answered(o) /\ Sent(o) = Answered(o) + 1
    /\ o.thread # "working" /\ Explained(o)

(* A GET was refused, and every recv since then brought another refusal. *)
GetRefused(o, gone) ==
    /\ \A i \in DOMAIN o.replies : o.replies[i].status # 401 => o.replies[i].req = i
    /\ Refusing(o, gone) /\ Method[Asked(o).target] # "POST"
    /\ Answered(o) + 1 >= Sent(o)
    /\ o.thread = "reading" /\ o.to = End(o) => Answered(o) >= Sent(o)

LockStep(o, gone) ==
    Waiting(o) \/ PostRefused(o) \/ Lost(o) \/ GetRefused(o, gone)

ConnOK(o, gone) ==
    /\ Kept(o) /\ Staged(o)
    /\ Replied(o, gone) /\ Performed(o) /\ Truthful(o) /\ ForGood(o)
    /\ ~Pipelining => LockStep(o, gone)

AuthInv ==
    /\ TypeOK /\ OnlyInputEnds
    /\ \A c \in Conns : ConnOK(conn[c], expired)

-----------------------------------------------------------------------------
(* Positions and requests. *)
LEMMA Positions ==
    ASSUME NEW p \in Nat
    PROVE  /\ RequestAt(p) \in Nat /\ RequestAt(p) >= 1
           /\ p % 4 \in {0, 1, 2, 3}
           /\ p = 4 * RequestAt(p) - 4 + (p % 4)
BY DEF RequestAt

(* What a connection keeps is of its kind. *)
LEMMA Fields ==
    ASSUME NEW o \in Connections
    PROVE  /\ o.from \in Nat /\ o.to \in Nat
           /\ o.stream \in Seq(Requests) /\ Len(o.stream) \in Nat
           /\ DOMAIN o.stream = 1..Len(o.stream)
           /\ o.replies \in Seq([req : Nat, status : Nat]) /\ Len(o.replies) \in Nat
           /\ DOMAIN o.replies = 1..Len(o.replies)
           /\ o.done \in Seq([req : Nat, token : Tokens \cup {Null}])
           /\ Len(o.done) \in Nat /\ DOMAIN o.done = 1..Len(o.done)
           /\ o.dropped \in SUBSET (Nat \X Reasons)
BY DEF Connections

(* What has been sent is of a kind that is handled somehow. *)
LEMMA Kinds ==
    ASSUME NEW o \in Connections, NEW k \in DOMAIN o.stream
    PROVE  /\ o.stream[k] \in Requests
           /\ o.stream[k].target \in DOMAIN Method
           /\ o.stream[k].token \in Tokens \cup {Null}
           /\ o.stream[k].flaw \in {"none", "content", "length"}
<1>1. o.stream[k] \in Requests
  BY Fields, ElementOfSeq
<1> QED
  BY <1>1, RequestsAssumption DEF AllRequests

(* The request the buffer begins in, and how much of it has been cleared   *)
(* away.                                                                   *)
LEMMA HeadPosition ==
    ASSUME NEW o \in Connections
    PROVE  /\ First(o) \in Nat /\ First(o) >= 1
           /\ o.from % 4 \in {0, 1, 2, 3}
           /\ o.from = 4 * First(o) - 4 + (o.from % 4)
           /\ 4 * First(o) - 4 <= o.from /\ o.from < 4 * First(o)
<1>1. \A p \in Nat : /\ RequestAt(p) \in Nat /\ RequestAt(p) >= 1
                     /\ p % 4 \in {0, 1, 2, 3}
                     /\ p = 4 * RequestAt(p) - 4 + (p % 4)
  BY Positions, Zenon
<1>2. /\ First(o) \in Nat /\ First(o) >= 1
      /\ o.from % 4 \in {0, 1, 2, 3}
      /\ o.from = 4 * First(o) - 4 + (o.from % 4)
  BY <1>1, Fields, Zenon DEF First
<1>3. \A f, r, p : f \in Nat /\ r \in {0, 1, 2, 3} /\ p = 4 * f - 4 + r
         => 4 * f - 4 <= p /\ p < 4 * f
  OBVIOUS
<1> QED
  BY <1>2, <1>3, Zenon

(* A buffer that is not empty begins in a request that has been sent. *)
LEMMA HeadSent ==
    ASSUME NEW o \in Connections, Kept(o), o.from < o.to
    PROVE  First(o) \in DOMAIN o.stream
<1>1. o.from \in Nat /\ o.to \in Nat /\ Len(o.stream) \in Nat
  BY Fields
<1>2. 4 * First(o) - 4 <= o.from /\ First(o) \in Nat /\ First(o) >= 1
  BY HeadPosition
<1>3. o.to <= 4 * Len(o.stream)
  BY DEF Kept, End
<1>4. First(o) <= Len(o.stream)
  BY <1>1, <1>2, <1>3
<1> QED
  BY <1>2, <1>4, <1>1, Fields

(* The searches of the buffer find the first header, wherever it ends.     *)
LEMMA HeadersAt ==
    ASSUME NEW o \in Connections, Kept(o), AtHead(o)
    PROVE  /\ First(o) \in WithHeaders(o)
           /\ \A k \in WithHeaders(o) : First(o) <= k
<1>1. o.from \in Nat /\ o.to \in Nat /\ Len(o.stream) \in Nat
  BY Fields
<1>2. 4 * First(o) - 4 = o.from /\ First(o) \in Nat /\ o.from + 4 <= o.to
  <2>1. o.from % 4 = 0 /\ o.from + 4 <= o.to
    BY DEF AtHead
  <2> QED
    BY <2>1, <1>1, HeadPosition
<1>3. First(o) \in DOMAIN o.stream
  BY <1>1, <1>2, HeadSent
<1>4. \A k \in WithHeaders(o) : k \in Nat /\ o.from < 4 * k - 1
  BY Fields DEF WithHeaders, HeadersEnd
<1> QED
  BY <1>1, <1>2, <1>3, <1>4 DEF WithHeaders, HeadersEnd

-----------------------------------------------------------------------------
(* parse. *)
LEMMA Methods ==
    /\ DOMAIN Method = {"options", "getNewToken", "read", "getId", "makeFriend",
                        "deleteFriend", "unknownGet", "login", "registration", "update",
                        "unknownPost", "put"}
    /\ \A t \in DOMAIN Method : Method[t] = "OTHER" <=> t = "put"
    /\ \A t \in DOMAIN Method : Method[t] = "POST" <=>
          t \in {"login", "registration", "update", "unknownPost"}
BY DEF Method

(* check_is_full_request says a request is whole when it is, unless it is  *)
(* a POST with something behind it, or one with a bad Content-Length.      *)
LEMMA CheckFull ==
    ASSUME NEW o \in Connections, Kept(o), o.from < o.to, o.from % 4 = 0
    PROVE  LET check == check_is_full_request(o)
               method == Method[Asked(o).target]
               bad == method = "POST" /\ Asked(o).flaw = "length"
           IN  /\ check \in {"not_full_req", "success", "bad_http", "throws"}
               /\ check = "success" <=>
                     AtHead(o) /\ (method = "POST" => o.to = o.from + 4) /\ ~bad
               /\ check = "not_full_req" => o.to < o.from + 4
               /\ check = "bad_http" <=> method = "POST" /\ o.from + 4 < o.to /\ ~bad
               /\ check = "throws" => bad
<1> DEFINE method == Method[Asked(o).target]
           size == o.to - o.from
           long == Asked(o).flaw = "length"
<1>1. size \in Nat /\ o.from \in Nat /\ o.to \in Nat /\ size = o.to - o.from
  BY Fields
<1>2. size = 3 => method = "POST"
  <2>1. HAVE size = 3
  <2>2. \A f, p \in Nat : f % 4 = 0 /\ p - f = 3 => p % 4 = 3 /\ RequestAt(p) = RequestAt(f)
    BY DEF RequestAt
  <2>3. o.to % 4 = 3 /\ RequestAt(o.to) = First(o)
    BY <1>1, <2>1, <2>2 DEF First
  <2> QED
    BY <2>3 DEF Kept, CanCut, Asked
<1>3. AtHead(o) <=> size >= 4
  BY <1>1 DEF AtHead
<1>4. check_is_full_request(o) =
         IF size < 3 THEN "not_full_req"
         ELSE IF method # "POST" THEN "success"
         ELSE IF long THEN "throws"
         ELSE IF size = 3 THEN "not_full_req"
         ELSE IF size = 4 THEN "success" ELSE "bad_http"
  BY <1>1 DEF check_is_full_request
<1>5. /\ o.to = o.from + 4 <=> size = 4
      /\ o.to < o.from + 4 <=> size < 4
      /\ o.from + 4 < o.to <=> size > 4
  BY <1>1
<1> HIDE DEF method, size, long
<1>6. CASE method = "POST"
  BY <1>1, <1>3, <1>4, <1>5, <1>6 DEF method, long
<1>7. CASE method # "POST"
  BY <1>1, <1>2, <1>3, <1>4, <1>5, <1>7 DEF method
<1> QED
  BY <1>6, <1>7

(* What parse makes of a buffer that begins with a request.                *)
LEMMA ParseHead ==
    ASSUME NEW o \in Connections, Kept(o), o.from < o.to, o.from % 4 = 0,
           o.to # o.from + 1
    PROVE  /\ check_is_full_request(o) = "success" => parse(o) = {parseFull(o)}
           /\ check_is_full_request(o) # "success" =>
                 parse(o) = {check_is_full_request(o)}
BY DEF parse

(* What becomes of a whole request.                                        *)
LEMMA ParseFull ==
    ASSUME NEW o \in Connections, First(o) \in DOMAIN o.stream
    PROVE  LET target == Asked(o).target
           IN  /\ parseFull(o) \in {"not_support_type", "bad_http", "throws", "success"}
               /\ parseFull(o) = "success" => ~Unparsable(o) /\ ~NoOrigin(o)
               /\ parseFull(o) = "throws" => Unparsable(o)
               /\ parseFull(o) \in {"not_support_type", "bad_http"} =>
                     target \in Unknown \cup {"put"} \/ NoOrigin(o)
               /\ target \in Guarded /\ ~Unparsable(o) /\ ~NoOrigin(o)
                     => parseFull(o) = "success"
<1> DEFINE target == Asked(o).target
<1>1. target \in DOMAIN Method
  BY Kinds DEF Asked
<1>2. target \in Guarded => target \notin Unknown \cup {"put"}
  BY DEF Guarded, GuardedGets, Unknown
<1> HIDE DEF target
<1> QED
  BY <1>1, <1>2, Methods DEF parseFull, target

(* Only a whole request at the head of the buffer is handled.              *)
LEMMA Succeeds ==
    ASSUME NEW o \in Connections, Kept(o), o.from < o.to, "success" \in parse(o)
    PROVE  /\ AtHead(o) /\ ~Unparsable(o) /\ ~NoOrigin(o)
           /\ Method[Asked(o).target] = "POST" =>
                 o.to = o.from + 4 /\ Asked(o).flaw # "length"
           /\ Wanted(Asked(o).target) # {} =>
                 Presenting(o, Wanted(Asked(o).target)) # {}
<1>1. o.from % 4 = 0 /\ o.to # o.from + 1
  BY DEF parse, parseRest
<1>2. First(o) \in DOMAIN o.stream
  BY HeadSent
<1>3. check_is_full_request(o) = "success"
  BY <1>1, ParseHead
<1>4. parseFull(o) = "success"
  BY <1>1, <1>3, ParseHead
<1>5. ~Unparsable(o) /\ ~NoOrigin(o)
  BY <1>2, <1>4, ParseFull
<1> QED
  BY <1>1, <1>3, <1>5, CheckFull DEF Unparsable

(* parse throws for a bad Content-Length; and for what cannot be parsed,   *)
(* when the request has arrived whole.                                     *)
LEMMA Throwing ==
    ASSUME NEW o \in Connections, Kept(o), o.from < o.to, "throws" \in parse(o)
    PROVE  \/ Method[Asked(o).target] = "POST" /\ Asked(o).flaw = "length"
           \/ AtHead(o) /\ Unparsable(o)
<1>1. o.from % 4 = 0 /\ o.to # o.from + 1
  BY DEF parse, parseRest
<1>2. First(o) \in DOMAIN o.stream
  BY HeadSent
<1>3. CASE check_is_full_request(o) = "success"
  BY <1>1, <1>2, <1>3, ParseHead, CheckFull, ParseFull
<1>4. CASE check_is_full_request(o) # "success"
  BY <1>1, <1>4, ParseHead, CheckFull
<1> QED
  BY <1>3, <1>4

(* The head of the buffer is waited for only while it is not all there. *)
LEMMA StaysUnread ==
    ASSUME NEW o \in Connections, Kept(o), o.from < o.to, "not_full_req" \in parse(o),
           o.from % 4 = 0
    PROVE  o.to < o.from + 4
<1>1. o.to # o.from + 1
  BY DEF parse
<1>2. First(o) \in DOMAIN o.stream
  BY HeadSent
<1>3. check_is_full_request(o) = "not_full_req"
  BY <1>1, <1>2, ParseHead, CheckFull, ParseFull
<1> QED
  BY <1>3, CheckFull

(* What is cleared away without an answer, and why. *)
LEMMA Discarded ==
    ASSUME NEW o \in Connections, Kept(o), o.from < o.to, o.from % 4 = 0,
           o.to # o.from + 1,
           "bad_http" \in parse(o) \/ "not_support_type" \in parse(o)
    PROVE  \/ o.from + 4 < o.to /\ Method[Asked(o).target] = "POST"
           \/ Asked(o).target \in Unknown \cup {"put"} \/ ~Asked(o).origin
<1>2. First(o) \in DOMAIN o.stream
  BY HeadSent
<1>3. CASE check_is_full_request(o) = "success"
  <2>1. AtHead(o)
    BY <1>3, CheckFull
  <2>2. NoOrigin(o) => ~Asked(o).origin
    BY <2>1, HeadersAt DEF NoOrigin, Asked
  <2>3. Asked(o).target \in Unknown \cup {"put"} \/ NoOrigin(o)
    BY <1>2, <1>3, ParseHead, ParseFull
  <2> QED
    BY <2>2, <2>3
<1>4. CASE check_is_full_request(o) # "success"
  BY <1>4, ParseHead, CheckFull
<1> QED
  BY <1>3, <1>4

(* A refused request stays refused: a POST is cleared away when it is      *)
(* parsed again, a GET gets as far as checkAccesstoken every time.         *)
LEMMA RefusingParsed ==
    ASSUME NEW o \in Connections, NEW gone, Kept(o), Refusing(o, gone),
           o.thread = "parsing"
    PROVE  parse(o) = {IF Method[Asked(o).target] = "POST" THEN "bad_http" ELSE "success"}
<1>1. /\ o.from \in Nat /\ o.to \in Nat /\ o.from + 4 <= o.to /\ o.from % 4 = 0
      /\ AtHead(o)
  BY Fields DEF Refusing, AtHead
<1>2. o.from < o.to /\ o.to # o.from + 1 /\ ~(o.to < o.from + 4)
  BY <1>1
<1>3. First(o) \in DOMAIN o.stream /\ Asked(o).target \in Guarded
  BY <1>2, HeadSent DEF Refusing
<1>4. CASE Method[Asked(o).target] = "POST"
  <2>1. o.from + 4 < o.to /\ Asked(o).flaw # "length"
    BY <1>1, <1>4 DEF Refusing
  <2>2. check_is_full_request(o) = "bad_http"
    BY <1>1, <1>2, <1>4, <2>1, CheckFull
  <2> QED
    BY <1>1, <1>2, <1>4, <2>2, ParseHead
<1>5. CASE Method[Asked(o).target] # "POST"
  <2>1. check_is_full_request(o) = "success"
    BY <1>1, <1>2, <1>5, CheckFull
  <2>2. ~Unparsable(o) /\ ~NoOrigin(o)
    BY <1>3, <1>5 DEF Unparsable, Wanted, Refusing
  <2>3. parseFull(o) = "success"
    BY <1>3, <2>2, ParseFull
  <2> QED
    BY <1>1, <1>2, <1>5, <2>1, <2>3, ParseHead
<1> QED
  BY <1>4, <1>5

-----------------------------------------------------------------------------
(* The searches for a header. *)

(* Every set of numbers has a least one. *)
LEMMA Least ==
    ASSUME NEW S, S \subseteq Nat, S # {}
    PROVE  \E m \in S : \A k \in S : m <= k
<1> DEFINE Less == {p \in Nat \X Nat : p[1] < p[2]}
<1>1. IsWellFoundedOn(OpToRel(<, Nat), Nat)
  BY NatLessThanWellFounded
<1>2. OpToRel(<, Nat) = Less
  BY DEF OpToRel
<1>3. IsWellFoundedOn(Less, Nat)
  BY <1>1, <1>2
<1>4. \E x \in S : \A y \in S : <<y, x>> \notin Less
  <2> HIDE DEF Less
  <2> QED BY <1>3, WFMin
<1>5. PICK x \in S : \A y \in S : <<y, x>> \notin Less
  BY <1>4
<1>6. ASSUME NEW y \in S PROVE x <= y
  <2>1. x \in Nat /\ y \in Nat
    OBVIOUS
  <2>2. ~(y < x)
    BY <1>5, <2>1
  <2> QED
    BY <2>1, <2>2
<1> QED
  BY <1>6

(* The token found is the first one presented. *)
LEMMA TokenFound ==
    ASSUME NEW o \in Connections, NEW targets, NEW k \in Presenting(o, targets),
           \A j \in Presenting(o, targets) : k <= j
    PROVE  TokenOf(o, targets) = o.stream[k].token
<1> DEFINE found == CHOOSE m \in Presenting(o, targets) :
                       \A j \in Presenting(o, targets) : m <= j
<1>1. /\ found \in Presenting(o, targets)
      /\ \A j \in Presenting(o, targets) : found <= j
  OBVIOUS
<1>2. Presenting(o, targets) \subseteq Nat
  BY Fields DEF Presenting, WithHeaders
<1>3. found = k
  <2> HIDE DEF found
  <2>1. found <= k /\ k <= found /\ found \in Nat /\ k \in Nat
    BY <1>1, <1>2
  <2> QED
    BY <2>1
<1> QED
  BY <1>3 DEF TokenOf

(* Where there is a token to be found, the first one is found. *)
LEMMA FirstPresented ==
    ASSUME NEW o \in Connections, NEW targets, Presenting(o, targets) # {}
    PROVE  \E k \in Presenting(o, targets) :
              /\ \A j \in Presenting(o, targets) : k <= j
              /\ TokenOf(o, targets) = o.stream[k].token
<1>1. Presenting(o, targets) \subseteq Nat
  BY Fields DEF Presenting, WithHeaders
<1> QED
  BY <1>1, Least, TokenFound

(* A whole request is given its own token, if it has one. *)
LEMMA OwnTokenFound ==
    ASSUME NEW o \in Connections, NEW targets, Kept(o), AtHead(o),
           Asked(o).target \in targets, Asked(o).token # Null
    PROVE  /\ Presenting(o, targets) # {}
           /\ TokenOf(o, targets) = Asked(o).token
<1>1. First(o) \in Presenting(o, targets)
  BY HeadersAt DEF Presenting, Asked
<1>2. \A k \in Presenting(o, targets) : First(o) <= k
  BY HeadersAt DEF Presenting
<1> QED
  BY <1>1, <1>2, TokenFound DEF Asked

(* More of the stream behind the buffer does not change what is found. *)
Grown(o, p) ==
    /\ p.from = o.from /\ o.to <= p.to
    /\ DOMAIN o.stream \subseteq DOMAIN p.stream
    /\ \A k \in DOMAIN o.stream : p.stream[k] = o.stream[k]

(* What a search of the buffer finds, it still finds when more has         *)
(* arrived.                                                                *)
LEMMA TokenStays ==
    ASSUME NEW o \in Connections, NEW p \in Connections, NEW targets,
           Kept(o), Grown(o, p), Presenting(o, targets) # {}
    PROVE  /\ Presenting(p, targets) # {}
           /\ TokenOf(p, targets) = TokenOf(o, targets)
<1>1. PICK k \in Presenting(o, targets) :
         /\ \A j \in Presenting(o, targets) : k <= j
         /\ TokenOf(o, targets) = o.stream[k].token
  BY FirstPresented
<1>2. /\ k \in DOMAIN o.stream /\ k \in Nat /\ k <= Len(o.stream)
      /\ o.from < 4 * k - 1 /\ 4 * k - 1 <= o.to
      /\ o.to \in Nat /\ p.to \in Nat /\ o.to <= p.to /\ p.from = o.from
      /\ DOMAIN p.stream = 1..Len(p.stream) /\ Len(p.stream) \in Nat
      /\ DOMAIN o.stream = 1..Len(o.stream) /\ Len(o.stream) \in Nat
  BY Fields, SMTT(30) DEF Presenting, WithHeaders, HeadersEnd, Grown
<1>3. k \in Presenting(p, targets)
  <2>1. p.stream[k] = o.stream[k] /\ k \in DOMAIN p.stream
    BY <1>2 DEF Grown
  <2>2. p.from < 4 * k - 1 /\ 4 * k - 1 <= p.to
    BY <1>2
  <2> QED
    BY <2>1, <2>2 DEF Presenting, WithHeaders, HeadersEnd
<1>4. ASSUME NEW j \in Presenting(p, targets) PROVE k <= j
  <2>1. /\ j \in DOMAIN p.stream /\ j \in Nat /\ j >= 1
        /\ p.from < 4 * j - 1 /\ 4 * j - 1 <= p.to
        /\ p.stream[j].target \in targets /\ p.stream[j].token # Null
    BY <1>2 DEF Presenting, WithHeaders, HeadersEnd
  <2>2. CASE j \in DOMAIN o.stream /\ 4 * j - 1 <= o.to
    <3>1. j \in Presenting(o, targets)
      BY <1>2, <2>1, <2>2 DEF Presenting, WithHeaders, HeadersEnd, Grown
    <3> QED
      BY <1>1, <3>1
  <2>3. CASE j \notin DOMAIN o.stream
    BY <1>2, <2>1, <2>3
  <2>4. CASE ~(4 * j - 1 <= o.to)
    BY <1>2, <2>1, <2>4
  <2> QED
    BY <2>2, <2>3, <2>4
<1>5. p.stream[k] = o.stream[k]
  BY <1>2 DEF Grown
<1> QED
  BY <1>1, <1>3, <1>4, <1>5, TokenFound

(* So is an Origin. *)
LEMMA OriginStays ==
    ASSUME NEW o \in Connections, NEW p \in Connections, Grown(o, p), ~NoOrigin(o)
    PROVE  ~NoOrigin(p)
<1>1. PICK k \in WithHeaders(o) : o.stream[k].origin
  BY DEF NoOrigin
<1>2. /\ k \in DOMAIN o.stream /\ k \in Nat /\ o.from < 4 * k - 1 /\ 4 * k - 1 <= o.to
      /\ o.to \in Nat /\ p.to \in Nat /\ o.to <= p.to /\ p.from = o.from
  BY Fields DEF WithHeaders, HeadersEnd, Grown
<1>3. p.stream[k] = o.stream[k] /\ k \in DOMAIN p.stream
  BY <1>2 DEF Grown
<1>4. p.from < 4 * k - 1 /\ 4 * k - 1 <= p.to
  BY <1>2
<1>5. k \in WithHeaders(p)
  BY <1>3, <1>4 DEF WithHeaders, HeadersEnd
<1> QED
  BY <1>1, <1>3, <1>5 DEF NoOrigin

-----------------------------------------------------------------------------
(* What a step does to a connection, field by field.                       *)
Threads == {"none", "starting", "reading", "parsing", "working", "closed"}
History(o) == <<o.replies, o.done, o.dropped>>
Place(o) == <<o.stream, o.from, o.to, o.token>>

(* The stream is longer by a request. *)
LEMMA SendFields ==
    ASSUME NEW o \in Connections, NEW r \in Requests, NEW p,
           p = [o EXCEPT !.stream = Append(o.stream, r)]
    PROVE  /\ p \in Connections
           /\ p.stream = Append(o.stream, r)
           /\ p.thread = o.thread /\ p.from = o.from /\ p.to = o.to /\ p.token = o.token
           /\ History(p) = History(o)
<1>1. Append(o.stream, r) \in Seq(Requests)
  BY Fields, AppendProperties
<1> QED
  BY <1>1 DEF Connections, History

(* Only the client has changed. *)
LEMMA CloseFields ==
    ASSUME NEW o \in Connections, NEW how \in {"closing", "reset"}, NEW p,
           p = [o EXCEPT !.client = how]
    PROVE  /\ p \in Connections
           /\ p.thread = o.thread /\ Place(p) = Place(o) /\ History(p) = History(o)
BY DEF Connections, History, Place

(* Only the thread has changed. *)
LEMMA ThreadFields ==
    ASSUME NEW o \in Connections, NEW thread \in Threads, NEW p,
           p = [o EXCEPT !.thread = thread]
    PROVE  /\ p \in Connections
           /\ p.thread = thread /\ Place(p) = Place(o) /\ History(p) = History(o)
BY DEF Connections, Threads, History, Place

(* Only the session has changed. *)
LEMMA SessionFields ==
    ASSUME NEW o \in Connections, NEW session \in BOOLEAN, NEW p,
           p = [o EXCEPT !.session = session]
    PROVE  /\ p \in Connections
           /\ p.thread = o.thread /\ Place(p) = Place(o) /\ History(p) = History(o)
BY DEF Connections, History, Place

(* One more reply, to the request at the head. *)
LEMMA ReplyFields ==
    ASSUME NEW o \in Connections, NEW status \in Nat
    PROVE  /\ Reply(o, status) \in Connections
           /\ Reply(o, status).thread = o.thread /\ Place(Reply(o, status)) = Place(o)
           /\ Reply(o, status).replies =
                 Append(o.replies, [req |-> First(o), status |-> status])
           /\ Reply(o, status).done = o.done /\ Reply(o, status).dropped = o.dropped
<1>1. [req |-> First(o), status |-> status] \in [req : Nat, status : Nat]
  BY HeadPosition
<1>2. Append(o.replies, [req |-> First(o), status |-> status])
         \in Seq([req : Nat, status : Nat])
  BY <1>1, Fields, AppendProperties
<1> QED
  BY <1>2 DEF Reply, Connections, Place

(* One more effect, of the request at the head. *)
LEMMA PerformFields ==
    ASSUME NEW o \in Connections
    PROVE  /\ Perform(o) \in Connections
           /\ Perform(o).thread = o.thread /\ Place(Perform(o)) = Place(o)
           /\ Perform(o).done = Append(o.done, [req |-> First(o), token |-> o.token])
           /\ Perform(o).replies = o.replies /\ Perform(o).dropped = o.dropped
<1>1. [req |-> First(o), token |-> o.token] \in [req : Nat, token : Tokens \cup {Null}]
  BY HeadPosition DEF Connections
<1>2. Append(o.done, [req |-> First(o), token |-> o.token])
         \in Seq([req : Nat, token : Tokens \cup {Null}])
  BY <1>1, Fields, AppendProperties
<1> QED
  BY <1>2 DEF Perform, Connections, Place

(* The requests that are cleared away without an answer. *)
Unanswered(o) == {k \in First(o)..RequestAt(o.to - 1) :
                     \A i \in DOMAIN o.replies : o.replies[i].req # k}

(* The buffer is empty, and what was in it without an answer is noted. *)
LEMMA ClearFields ==
    ASSUME NEW o \in Connections, NEW why \in Reasons
    PROVE  /\ Clear(o, why) \in Connections
           /\ Clear(o, why).thread = "reading" /\ Clear(o, why).stream = o.stream
           /\ Clear(o, why).from = o.to /\ Clear(o, why).to = o.to
           /\ Clear(o, why).replies = o.replies /\ Clear(o, why).done = o.done
           /\ Clear(o, why).dropped = o.dropped \cup {<<k, why>> : k \in Unanswered(o)}
<1> DEFINE more == {<<k, why>> : k \in Unanswered(o)}
<1>1. Unanswered(o) \subseteq Nat
  <2>1. First(o) \in Nat
    BY HeadPosition
  <2> QED
    BY <2>1 DEF Unanswered
<1>2. o.dropped \cup more \in SUBSET (Nat \X Reasons)
  BY <1>1, Fields
<1>3. Clear(o, why) = [o EXCEPT !.thread = "reading", !.from = o.to, !.token = Null,
                                !.dropped = o.dropped \cup more]
  BY DEF Clear, Unanswered
<1> HIDE DEF more
<1>4. Clear(o, why) \in Connections
  BY <1>2, <1>3 DEF Connections
<1> QED
  BY <1>3, <1>4 DEF Connections, more

-----------------------------------------------------------------------------
(* What a step that answers nothing and clears nothing away leaves as it   *)
(* is: the stream may grow, and so may the buffer.                         *)

(* A place in the middle of a request is in one that has been sent. *)
LEMMA CutStays ==
    ASSUME NEW o \in Connections, NEW p \in Connections, Grown(o, p),
           NEW m \in Nat, m <= End(o), CanCut(o, m)
    PROVE  CanCut(p, m)
<1> SUFFICES ASSUME m % 4 = 3 PROVE Method[p.stream[RequestAt(m)].target] = "POST"
  BY DEF CanCut
<1>1. RequestAt(m) \in Nat /\ RequestAt(m) >= 1 /\ 4 * RequestAt(m) - 1 = m
  <2>1. /\ RequestAt(m) \in Nat /\ RequestAt(m) >= 1
        /\ m = 4 * RequestAt(m) - 4 + (m % 4)
    BY Positions, Zenon
  <2>2. \A r \in Nat, n \in Nat : n = 4 * r - 4 + 3 => 4 * r - 1 = n
    OBVIOUS
  <2> QED
    BY <2>1, <2>2
<1>2. Len(o.stream) \in Nat /\ DOMAIN o.stream = 1..Len(o.stream) /\ m <= 4 * Len(o.stream)
  BY Fields DEF End
<1>3. RequestAt(m) \in DOMAIN o.stream
  BY <1>1, <1>2
<1> QED
  BY <1>3 DEF CanCut, Grown

(* The ends of a buffer that has grown are where they may be. *)
LEMMA KeptGrown ==
    ASSUME NEW o \in Connections, NEW p \in Connections, Grown(o, p), Kept(o),
           p.to <= End(p), p.to = o.to \/ CanCut(p, p.to)
    PROVE  Kept(p)
<1>1. o.from \in Nat /\ o.to \in Nat /\ p.to \in Nat /\ Len(o.stream) \in Nat
      /\ End(o) \in Nat
  BY Fields DEF End
<1>2. o.from <= o.to /\ o.to <= End(o) /\ p.from = o.from /\ o.to <= p.to
  BY DEF Kept, Grown
<1>3. o.from <= End(o) /\ p.from <= p.to
  BY <1>1, <1>2
<1>4. CanCut(p, o.from) /\ CanCut(p, o.to)
  BY <1>1, <1>2, <1>3, CutStays DEF Kept
<1> QED
  BY <1>2, <1>3, <1>4 DEF Kept

(* The head of a buffer that has grown is the same. *)
LEMMA HeadGrown ==
    ASSUME NEW o \in Connections, NEW p \in Connections, Grown(o, p), Kept(o)
    PROVE  /\ First(p) = First(o) /\ (AtHead(o) => AtHead(p))
           /\ \A r : Begun(p, r) <=> Begun(o, r)
           /\ o.from < o.to => First(o) \in DOMAIN o.stream /\ Asked(p) = Asked(o)
<1>1. o.from \in Nat /\ o.to \in Nat /\ p.to \in Nat /\ p.from = o.from /\ o.to <= p.to
  BY Fields DEF Grown
<1>2. First(p) = First(o) /\ \A r : Begun(p, r) <=> Begun(o, r)
  BY <1>1 DEF First, Begun
<1>3. AtHead(o) => AtHead(p)
  <2>1. \A f, s, t \in Nat : s <= t /\ f + 4 <= s => f + 4 <= t
    OBVIOUS
  <2> QED
    BY <1>1, <2>1 DEF AtHead
<1>4. o.from < o.to => First(o) \in DOMAIN o.stream /\ Asked(p) = Asked(o)
  BY <1>2, HeadSent DEF Asked, Grown
<1> QED
  BY <1>2, <1>3, <1>4

(* A refused request at the head of a buffer remains refused when the      *)
(* buffer grows.                                                           *)
LEMMA RefusingGrown ==
    ASSUME NEW o \in Connections, NEW p \in Connections, NEW gone, Grown(o, p), Kept(o),
           Refusing(o, gone), p.thread # "working",
           Method[Asked(o).target] = "POST" =>
              (p.thread = "parsing" => o.from + 4 < p.to)
    PROVE  Refusing(p, gone) /\ Asked(p) = Asked(o)
<1>1. o.from < o.to /\ AtHead(o)
  BY Fields DEF Refusing, AtHead
<1>2. Asked(p) = Asked(o) /\ AtHead(p)
  BY <1>1, HeadGrown
<1>3. Method[Asked(o).target] # "POST" =>
         Presenting(p, Guarded) # {} /\ TokenOf(p, Guarded) \in gone
  BY TokenStays DEF Refusing
<1>4. Method[Asked(o).target] # "POST" => ~NoOrigin(p)
  BY OriginStays DEF Refusing
<1> QED
  BY <1>2, <1>3, <1>4 DEF Refusing, Grown

(* What holds of answers and effects still holds of them when the buffer   *)
(* grows.                                                                  *)
LEMMA HistoryGrown ==
    ASSUME NEW o \in Connections, NEW p \in Connections, NEW gone, Grown(o, p),
           History(p) = History(o), Kept(o), Replied(o, gone), Performed(o),
           Truthful(o), ForGood(o), Refusing(o, gone) => Refusing(p, gone)
    PROVE  /\ Replied(p, gone) /\ Performed(p) /\ Truthful(p) /\ ForGood(p)
           /\ \A status, targets : Sends(p, status, targets) = Sends(o, status, targets)
<1>1. /\ p.replies = o.replies /\ p.done = o.done
      /\ First(p) = First(o) /\ \A r : Begun(p, r) <=> Begun(o, r)
      /\ \A k \in DOMAIN o.stream : k \in DOMAIN p.stream /\ p.stream[k] = o.stream[k]
  BY HeadGrown DEF History, Grown
<1>2. \A i \in DOMAIN o.replies : o.replies[i].req \in DOMAIN o.stream
  BY DEF Replied
<1>3. \A i \in DOMAIN o.done : o.done[i].req \in DOMAIN o.stream
  BY DEF Performed
<1>4. \A status, targets : Sends(p, status, targets) = Sends(o, status, targets)
  BY <1>1, <1>2, Zenon DEF Sends
<1>5. Effects(p) = Effects(o)
  BY <1>1 DEF Effects
<1>6. Replied(p, gone)
  BY <1>1, <1>2 DEF Replied
<1>7. Performed(p)
  <2>1. ASSUME NEW i \in DOMAIN p.done
        PROVE  /\ p.done[i].req \in DOMAIN p.stream /\ Begun(p, p.done[i].req)
               /\ \A j \in DOMAIN p.done : i < j => p.done[i].req < p.done[j].req
               /\ p.stream[p.done[i].req].target \in Guarded =>
                     OwnOf(p.stream[p.done[i].req].token, p.done[i].token)
    BY <1>1, <1>3, <2>1, Zenon DEF Performed
  <2> QED
    BY <2>1, Zenon DEF Performed
<1>8. Truthful(p)
  BY <1>1, <1>4, <1>5 DEF Truthful
<1>9. ForGood(p)
  BY <1>1, <1>4 DEF ForGood
<1> QED
  BY <1>4, <1>6, <1>7, <1>8, <1>9

(* Tokens that expire put no connection out of order. *)
LEMMA GoneGrows ==
    ASSUME NEW o \in Connections, NEW gone, NEW more, gone \subseteq more, ConnOK(o, gone)
    PROVE  ConnOK(o, more)
<1>1. Refusing(o, gone) => Refusing(o, more)
  BY DEF Refusing
<1>2. Replied(o, more)
  BY <1>1 DEF ConnOK, Replied
<1>3. LockStep(o, gone) => LockStep(o, more)
  BY <1>1 DEF LockStep, GetRefused
<1> QED
  BY <1>2, <1>3 DEF ConnOK

(* A refused POST is at the head of the buffer, and will not be carried    *)
(* out.                                                                    *)
LEMMA PostRefusing ==
    ASSUME NEW o \in Connections, NEW gone, Kept(o), PostRefused(o)
    PROVE  /\ Refusing(o, gone)
           /\ First(o) = Answered(o) /\ Asked(o).target = "update"
<1>1. Answered(o) \in Nat /\ Answered(o) \in DOMAIN o.replies /\ o.from \in Nat /\ o.to \in Nat
  BY Fields DEF Answered, PostRefused
<1>2. o.from = 4 * Answered(o) - 4
  BY DEF PostRefused
<1>3. First(o) = Answered(o) /\ o.from % 4 = 0
  <2>1. /\ First(o) \in Nat /\ o.from % 4 \in {0, 1, 2, 3}
        /\ o.from = 4 * First(o) - 4 + (o.from % 4)
    BY HeadPosition
  <2>2. \A f, n \in Nat, r \in {0, 1, 2, 3} : 4 * n - 4 = 4 * f - 4 + r => f = n /\ r = 0
    OBVIOUS
  <2> QED
    BY <1>1, <1>2, <2>1, <2>2
<1>4. Asked(o).target = "update" /\ Asked(o).flaw = "none"
  BY <1>1, <1>3 DEF PostRefused, InStep, Sends, Asked
<1>5. "update" \in Guarded /\ Method["update"] = "POST"
  BY Methods DEF Guarded
<1>6. o.from + 4 <= o.to /\ o.thread # "working" /\ (o.thread = "parsing" => o.from + 4 < o.to)
  BY DEF PostRefused
<1> QED
  BY <1>3, <1>4, <1>5, <1>6 DEF Refusing, AtHead

(* What has been cleared away, and why, is not forgotten. *)
LEMMA StillExplained ==
    ASSUME NEW o, NEW p, Explained(o), Sent(p) = Sent(o), p.stream = o.stream,
           o.dropped \subseteq p.dropped,
           Sends(o, 401, {"update"}) \subseteq Sends(p, 401, {"update"})
    PROVE  Explained(p)
BY ZenonT(60) DEF Explained

(* A thread that goes on without touching the buffer, or a client's end.   *)
LEMMA QuietConn ==
    ASSUME NEW o \in Connections, NEW p \in Connections, NEW gone, ConnOK(o, gone),
           Place(p) = Place(o), History(p) = History(o),
           p.thread \in {"working", "parsing"} => p.thread = o.thread,
           p.thread \in {"none", "starting"} => o.thread \in {"none", "starting"},
           p.thread = "reading" /\ o.thread # "reading" /\ ~Pipelining =>
              /\ ~GetRefused(o, gone) /\ ~PostRefused(o)
              /\ Waiting(o) => o.to < o.from + 4
    PROVE  ConnOK(p, gone)
<1>1. /\ p.stream = o.stream /\ p.from = o.from /\ p.to = o.to /\ p.token = o.token
      /\ p.replies = o.replies /\ p.done = o.done /\ p.dropped = o.dropped
  BY DEF Place, History
<1>2. Grown(o, p) /\ End(p) = End(o)
  BY <1>1, Fields DEF Grown, End
<1>3. Kept(o) /\ Staged(o) /\ Replied(o, gone) /\ Performed(o) /\ Truthful(o) /\ ForGood(o)
  BY DEF ConnOK
<1>4. Kept(p)
  BY <1>1, <1>3 DEF Kept, CanCut, End
<1>5. Asked(p) = Asked(o) /\ AtHead(p) = AtHead(o) /\ First(p) = First(o)
  BY <1>1 DEF Asked, AtHead, First
<1>6. Staged(p)
  BY <1>1, <1>3, <1>5 DEF Staged
<1>7. Refusing(o, gone) => Refusing(p, gone)
  <2> SUFFICES ASSUME Refusing(o, gone) PROVE Refusing(p, gone)
    OBVIOUS
  <2>1. p.thread # "working"
    BY DEF Refusing
  <2>2. Method[Asked(o).target] = "POST" => (p.thread = "parsing" => o.from + 4 < p.to)
    BY <1>1 DEF Refusing
  <2> QED
    BY <1>2, <1>3, <2>1, <2>2, RefusingGrown
<1>8. /\ Replied(p, gone) /\ Performed(p) /\ Truthful(p) /\ ForGood(p)
      /\ \A status, targets : Sends(p, status, targets) = Sends(o, status, targets)
  BY <1>2, <1>3, <1>7, HistoryGrown
<1>9. ASSUME ~Pipelining PROVE LockStep(p, gone)
  <2>0. Answered(p) = Answered(o) /\ Sent(p) = Sent(o) /\ (InStep(o) => InStep(p))
    BY <1>1 DEF Answered, Sent, InStep
  <2>1. CASE Waiting(o)
    BY <1>1, <1>9, <2>0, <2>1 DEF Waiting, LockStep
  <2>2. CASE PostRefused(o)
    BY <1>1, <1>8, <1>9, <2>0, <2>2 DEF PostRefused, LockStep
  <2>3. CASE Lost(o)
    <3>1. Explained(p)
      BY <1>1, <1>8, <2>0, <2>3, StillExplained DEF Lost
    <3> QED
      BY <1>1, <2>0, <2>3, <3>1 DEF Lost, LockStep
  <2>4. CASE GetRefused(o, gone)
    BY <1>1, <1>2, <1>5, <1>7, <1>9, <2>0, <2>4 DEF GetRefused, LockStep
  <2> QED
    BY <1>9, <2>1, <2>2, <2>3, <2>4 DEF ConnOK, LockStep
<1> QED
  BY <1>4, <1>6, <1>8, <1>9 DEF ConnOK

(* The client sends a request; one in lock-step has all its answers.       *)
LEMMA SendConn ==
    ASSUME NEW o \in Connections, NEW p \in Connections, NEW gone, ConnOK(o, gone),
           NEW r \in Requests, p.stream = Append(o.stream, r), p.thread = o.thread,
           p.from = o.from, p.to = o.to, p.token = o.token, History(p) = History(o),
           Pipelining \/ Len(o.replies) >= Len(o.stream)
    PROVE  ConnOK(p, gone)
<1>1. /\ Len(p.stream) = Len(o.stream) + 1 /\ DOMAIN o.stream \subseteq DOMAIN p.stream
      /\ \A k \in DOMAIN o.stream : p.stream[k] = o.stream[k]
      /\ Len(o.stream) \in Nat /\ Len(o.replies) \in Nat
      /\ o.from \in Nat /\ o.to \in Nat
  <2>1. /\ DOMAIN o.stream = 1..Len(o.stream) /\ DOMAIN p.stream = 1..Len(p.stream)
        /\ o.stream \in Seq(Requests) /\ Len(o.stream) \in Nat
        /\ Len(o.replies) \in Nat /\ o.from \in Nat /\ o.to \in Nat
    BY Fields
  <2>2. /\ Len(p.stream) = Len(o.stream) + 1
        /\ \A k \in 1..Len(o.stream) : p.stream[k] = o.stream[k]
    BY <2>1, AppendProperties
  <2> QED
    BY <2>1, <2>2
<1>2. Grown(o, p)
  BY <1>1 DEF Grown
<1>3. Kept(o) /\ Staged(o) /\ Replied(o, gone) /\ Performed(o) /\ Truthful(o) /\ ForGood(o)
  BY DEF ConnOK
<1>4. Kept(p)
  <2>1. p.to <= End(p)
    BY <1>1, <1>3 DEF Kept, End
  <2> QED
    BY <1>2, <1>3, <2>1, KeptGrown
<1>5. First(p) = First(o) /\ (AtHead(o) => AtHead(p) /\ Asked(p) = Asked(o))
  <2>1. AtHead(o) => o.from < o.to
    BY <1>1 DEF AtHead
  <2> QED
    BY <1>2, <1>3, <2>1, HeadGrown
<1>6. Staged(p)
  BY <1>3, <1>5 DEF Staged
<1>7. Refusing(o, gone) => Refusing(p, gone) /\ Asked(p) = Asked(o)
  <2> SUFFICES ASSUME Refusing(o, gone) PROVE Refusing(p, gone) /\ Asked(p) = Asked(o)
    OBVIOUS
  <2>1. p.thread # "working"
    BY DEF Refusing
  <2>2. Method[Asked(o).target] = "POST" => (p.thread = "parsing" => o.from + 4 < p.to)
    BY DEF Refusing
  <2> QED
    BY <1>2, <1>3, <2>1, <2>2, RefusingGrown
<1>8. /\ Replied(p, gone) /\ Performed(p) /\ Truthful(p) /\ ForGood(p)
      /\ \A status, targets : Sends(p, status, targets) = Sends(o, status, targets)
  BY <1>2, <1>3, <1>7, HistoryGrown
<1>9. ASSUME ~Pipelining PROVE LockStep(p, gone)
  <2>0. /\ Answered(p) = Answered(o) /\ Sent(p) = Sent(o) + 1 /\ (InStep(o) => InStep(p))
        /\ p.replies = o.replies
        /\ Answered(o) \in Nat /\ Sent(o) \in Nat /\ Answered(o) >= Sent(o)
        /\ End(p) = End(o) + 4 /\ o.to <= End(o) /\ End(o) \in Nat
    BY <1>1, <1>3, <1>9 DEF Answered, Sent, InStep, History, End, Kept
  <2>1. CASE Waiting(o)
    BY <2>0, <2>1 DEF Waiting, LockStep
  <2>2. CASE PostRefused(o)
    <3>1. p.stream[Answered(o)] = o.stream[Answered(o)]
      <4>1. Answered(o) \in DOMAIN o.replies /\ o.replies[Answered(o)].req = Answered(o)
        BY <2>2 DEF PostRefused, InStep, Sends
      <4> QED
        BY <1>1, <1>3, <4>1 DEF Replied
    <3> QED
      BY <1>8, <2>0, <2>2, <3>1 DEF PostRefused, LockStep
  <2>3. CASE Lost(o)
    BY <2>0, <2>3 DEF Lost
  <2>4. CASE GetRefused(o, gone)
    <3>1. ~(p.to = End(p)) /\ Answered(p) + 1 >= Sent(p)
      BY <1>1, <2>0
    <3> QED
      BY <1>7, <2>0, <2>4, <3>1 DEF GetRefused, LockStep
  <2> QED
    BY <1>9, <2>1, <2>2, <2>3, <2>4 DEF ConnOK, LockStep
<1> QED
  BY <1>4, <1>6, <1>8, <1>9 DEF ConnOK

(* recv brings more of the stream. *)
LEMMA RecvConn ==
    ASSUME NEW o \in Connections, NEW p \in Connections, NEW gone, ConnOK(o, gone),
           p.stream = o.stream, p.from = o.from, p.token = o.token,
           o.to < p.to, p.to <= End(o), CanCut(o, p.to), p.thread = "parsing",
           o.thread = "reading", History(p) = History(o)
    PROVE  ConnOK(p, gone)
<1>1. /\ o.from \in Nat /\ o.to \in Nat /\ p.to \in Nat /\ o.from <= o.to
      /\ Kept(o) /\ Staged(o) /\ Replied(o, gone) /\ Performed(o) /\ Truthful(o) /\ ForGood(o)
  BY Fields DEF ConnOK, Kept
<1>2. Grown(o, p) /\ End(p) = End(o)
  BY <1>1 DEF Grown, End
<1>3. Kept(p)
  <2>1. CanCut(p, p.to)
    BY DEF CanCut
  <2> QED
    BY <1>1, <1>2, <2>1, KeptGrown
<1>4. Staged(p)
  BY <1>1 DEF Staged
<1>5. Refusing(o, gone) => Refusing(p, gone) /\ Asked(p) = Asked(o)
  <2> SUFFICES ASSUME Refusing(o, gone) PROVE Refusing(p, gone) /\ Asked(p) = Asked(o)
    OBVIOUS
  <2>1. o.from + 4 < p.to
    BY <1>1 DEF Refusing, AtHead
  <2> QED
    BY <1>1, <1>2, <2>1, RefusingGrown
<1>6. /\ Replied(p, gone) /\ Performed(p) /\ Truthful(p) /\ ForGood(p)
      /\ \A status, targets : Sends(p, status, targets) = Sends(o, status, targets)
  BY <1>1, <1>2, <1>5, HistoryGrown
<1>7. ASSUME ~Pipelining PROVE LockStep(p, gone)
  <2>0. /\ Answered(p) = Answered(o) /\ Sent(p) = Sent(o) /\ (InStep(o) => InStep(p))
        /\ p.replies = o.replies /\ p.dropped = o.dropped
    BY DEF Answered, Sent, InStep, History
  <2>1. CASE Waiting(o)
    BY <2>0, <2>1 DEF Waiting, LockStep
  <2>2. CASE PostRefused(o)
    <3>1. p.from + 4 < p.to /\ p.from + 4 <= p.to
      BY <1>1, <2>2 DEF PostRefused
    <3> QED
      BY <1>6, <2>0, <2>2, <3>1 DEF PostRefused, LockStep
  <2>3. CASE Lost(o)
    <3>1. Explained(p)
      BY <1>6, <2>0, <2>3, StillExplained DEF Lost
    <3> QED
      BY <2>0, <2>3, <3>1 DEF Lost, LockStep
  <2>4. CASE GetRefused(o, gone)
    BY <1>5, <2>0, <2>4 DEF GetRefused, LockStep
  <2> QED
    BY <1>7, <2>1, <2>2, <2>3, <2>4 DEF ConnOK, LockStep
<1> QED
  BY <1>3, <1>4, <1>6, <1>7 DEF ConnOK

-----------------------------------------------------------------------------
(* Answers. *)

(* One more reply, to the request at the head of the buffer. *)
Replies(o, p, status) ==
    /\ DOMAIN p.replies = 1..Len(o.replies) + 1 /\ Len(p.replies) = Len(o.replies) + 1
    /\ \A i \in 1..Len(o.replies) : p.replies[i] = o.replies[i]
    /\ p.replies[Len(o.replies) + 1] = [req |-> First(o), status |-> status]

(* Reply appends to the replies. *)
LEMMA ReplyAppended ==
    ASSUME NEW o \in Connections, NEW p \in Connections, NEW status \in Nat,
           p.replies = Append(o.replies, [req |-> First(o), status |-> status])
    PROVE  Replies(o, p, status)
<1>1. [req |-> First(o), status |-> status] \in [req : Nat, status : Nat]
  BY HeadPosition
<1>2. o.replies \in Seq([req : Nat, status : Nat]) /\ Len(o.replies) \in Nat
      /\ DOMAIN p.replies = 1..Len(p.replies)
  BY Fields
<1> QED
  BY <1>1, <1>2, AppendProperties DEF Replies

(* The head of the buffer has not taken effect, nor been answered yet when *)
(* it is worked on.                                                        *)
LEMMA HeadUndone ==
    ASSUME NEW o \in Connections, o.from % 4 = 0, Performed(o)
    PROVE  ~Begun(o, First(o)) /\ First(o) \notin Effects(o)
<1>1. o.from \in Nat /\ First(o) \in Nat /\ o.from = 4 * First(o) - 4
  BY HeadPosition, Fields
<1>2. ~Begun(o, First(o))
  BY <1>1 DEF Begun
<1> QED
  BY <1>2 DEF Performed, Effects

(* After a success, the head is not one that was refused before, unless it *)
(* is a GET whose token is refused again.                                  *)
LEMMA NotRefusing ==
    ASSUME NEW o \in Connections, NEW gone, Kept(o), o.thread = "parsing",
           "success" \in parse(o), Refusing(o, gone)
    PROVE  /\ Method[Asked(o).target] # "POST" /\ Asked(o).target \in Guarded
           /\ TokenOf(o, Guarded) \in gone
<1>1. Method[Asked(o).target] # "POST"
  BY RefusingParsed
<1> QED
  BY <1>1 DEF Refusing

(* In lock-step, the last request is the one at the head. *)
LEMMA LastAtHead ==
    ASSUME NEW o \in Connections, Kept(o), AtHead(o), Waiting(o)
    PROVE  /\ Sent(o) = Answered(o) + 1 /\ First(o) = Sent(o)
           /\ o.to = o.from + 4 /\ End(o) = o.to
<1>1. /\ o.from \in Nat /\ o.to \in Nat /\ Answered(o) \in Nat /\ Sent(o) \in Nat
      /\ o.from = 4 * Answered(o) /\ Sent(o) \in {Answered(o), Answered(o) + 1}
      /\ o.from + 4 <= o.to /\ o.to <= 4 * Sent(o) /\ End(o) = 4 * Sent(o)
      /\ First(o) \in Nat /\ o.from = 4 * First(o) - 4
  BY Fields, HeadPosition DEF Waiting, Answered, Sent, AtHead, Kept, End
<1> QED
  BY <1>1

(* A request whose beginning is gone is no whole request. *)
LEMMA LostNotAtHead ==
    ASSUME NEW o \in Connections, Kept(o), Lost(o)
    PROVE  ~AtHead(o)
<1>1. /\ o.from \in Nat /\ o.to \in Nat /\ Answered(o) \in Nat /\ Sent(o) \in Nat
      /\ o.from > 4 * Answered(o) /\ Sent(o) = Answered(o) + 1
      /\ o.to <= 4 * Sent(o)
  BY Fields DEF Lost, Answered, Sent, Kept, End
<1>2. ~(o.from + 4 <= o.to)
  BY <1>1
<1> QED
  BY <1>2 DEF AtHead

(* checkAccesstoken refuses: the reply is 401, the request stays.          *)
LEMMA RefuseConn ==
    ASSUME NEW o \in Connections, NEW p \in Connections, NEW gone, ConnOK(o, gone),
           o.thread = "parsing", "success" \in parse(o), Asked(o).target \in Guarded,
           TokenOf(o, Guarded) \in gone,
           Replies(o, p, 401), p.thread = "reading", Place(p) = Place(o),
           p.done = o.done, p.dropped = o.dropped
    PROVE  ConnOK(p, gone)
<1>1. /\ p.stream = o.stream /\ p.from = o.from /\ p.to = o.to /\ p.token = o.token
      /\ Kept(o) /\ Staged(o) /\ Replied(o, gone) /\ Performed(o) /\ Truthful(o) /\ ForGood(o)
  BY DEF Place, ConnOK
<1>2. Grown(o, p) /\ End(p) = End(o) /\ First(p) = First(o) /\ Asked(p) = Asked(o)
      /\ AtHead(p) = AtHead(o) /\ \A r : Begun(p, r) <=> Begun(o, r)
  BY <1>1, Fields DEF Grown, End, First, Asked, AtHead, Begun
<1>3. Kept(p) /\ Staged(p)
  BY <1>1 DEF Kept, Staged, CanCut, End
<1>4. /\ o.from < o.to /\ AtHead(o) /\ First(o) \in DOMAIN o.stream
      /\ Method[Asked(o).target] = "POST" => o.to = o.from + 4 /\ Asked(o).flaw # "length"
      /\ Presenting(o, Guarded) # {} /\ ~NoOrigin(o) /\ Asked(o).flaw # "content"
  <2>1. o.from < o.to
    BY <1>1 DEF Staged
  <2>2. Wanted(Asked(o).target) = Guarded /\ Wanted(Asked(o).target) # {}
        /\ Asked(o).target \in Parsed
    BY DEF Wanted, Guarded, Parsed
  <2>3. AtHead(o) /\ ~Unparsable(o) /\ ~NoOrigin(o)
    BY <1>1, <2>1, Succeeds
  <2>4. Asked(o).flaw # "content"
    BY <2>2, <2>3 DEF Unparsable
  <2> QED
    BY <1>1, <2>1, <2>2, <2>3, <2>4, Succeeds, HeadSent
<1>5. Refusing(p, gone)
  <2>1. Presenting(p, Guarded) # {} /\ TokenOf(p, Guarded) \in gone
    BY <1>1, <1>2, <1>4, TokenStays
  <2>2. ~NoOrigin(p)
    BY <1>2, <1>4, OriginStays
  <2> QED
    BY <1>2, <1>4, <2>1, <2>2 DEF Refusing
<1>6. Len(o.replies) \in Nat /\ DOMAIN o.replies = 1..Len(o.replies)
  BY Fields
<1> DEFINE n == Len(o.replies) + 1
<1>7. /\ \A i \in DOMAIN p.replies : i \in DOMAIN o.replies \/ i = n
      /\ \A i \in DOMAIN o.replies : i \in DOMAIN p.replies /\ i < n
                                     /\ p.replies[i] = o.replies[i]
      /\ n \in DOMAIN p.replies /\ n \in Nat
      /\ p.replies[n].req = First(o) /\ p.replies[n].status = 401
  BY <1>6 DEF Replies
<1> HIDE DEF n
<1>8. Replied(p, gone)
  <2>1. ASSUME NEW i \in DOMAIN p.replies
        PROVE  /\ p.replies[i].req \in DOMAIN p.stream
               /\ \/ Begun(p, p.replies[i].req)
                  \/ p.replies[i].req = First(p) /\ p.replies[i].status = 401
    BY <1>1, <1>2, <1>4, <1>7 DEF Replied
  <2> QED
    BY <1>5, <2>1 DEF Replied
<1>9. Effects(p) = Effects(o)
  BY DEF Effects
<1>10. Performed(p)
  BY <1>1, <1>2 DEF Performed
<1>11. First(o) \notin Effects(o) /\ ~Begun(o, First(o))
  BY <1>1, <1>4, HeadUndone DEF AtHead
<1>12. \A status, targets : \A i \in DOMAIN o.replies :
          i \in Sends(p, status, targets) <=> i \in Sends(o, status, targets)
  BY <1>1, <1>7 DEF Sends
<1>13. Truthful(p)
  <2>1. ASSUME NEW i \in DOMAIN p.replies
        PROVE  /\ i \in Sends(p, 200, Inserting) => p.replies[i].req \in Effects(p)
               /\ p.replies[i].status \in {400, 401} => p.replies[i].req \notin Effects(p)
    <3>1. CASE i \in DOMAIN o.replies
      BY <1>1, <1>7, <1>9, <1>12, <3>1 DEF Truthful
    <3>2. CASE i = n
      BY <1>7, <1>9, <1>11, <3>2 DEF Sends
    <3> QED
      BY <1>7, <3>1, <3>2
  <2> QED
    BY <2>1 DEF Truthful
<1>14. ForGood(p)
  <2>1. ASSUME NEW i \in Sends(p, 401, Guarded), NEW j \in DOMAIN p.replies,
               p.replies[j].req = p.replies[i].req
        PROVE  p.replies[j].status = 401
    <3>1. CASE j = n
      BY <1>7, <3>1
    <3>2. CASE j \in DOMAIN o.replies /\ i \in DOMAIN o.replies
      <4>1. i \in Sends(o, 401, Guarded)
        BY <1>12, <2>1, <3>2
      <4> QED
        BY <1>1, <1>7, <2>1, <3>2, <4>1 DEF ForGood
    <3>3. CASE j \in DOMAIN o.replies /\ i = n
      <4>1. o.replies[j].req = First(o)
        BY <1>7, <2>1, <3>3
      <4> QED
        BY <1>1, <1>7, <1>11, <3>3, <4>1 DEF Replied
    <3> QED
      BY <1>7, <2>1, <3>1, <3>2, <3>3 DEF Sends
  <2> QED
    BY <2>1 DEF ForGood
<1>15. ASSUME ~Pipelining PROVE LockStep(p, gone)
  <2>0. /\ Answered(p) = Answered(o) + 1 /\ Answered(p) = n /\ Sent(p) = Sent(o)
        /\ Answered(o) \in Nat /\ Sent(o) \in Nat
    BY <1>1, <1>6, Fields DEF Answered, Sent, Replies, n
  <2>1. CASE Waiting(o)
    <3>1. /\ Sent(o) = Answered(o) + 1 /\ First(o) = Sent(o)
          /\ o.to = o.from + 4 /\ End(o) = o.to /\ o.from = 4 * Answered(o)
      BY <1>1, <1>4, <2>1, LastAtHead DEF Waiting
    <3>2. InStep(p)
      BY <1>7, <2>0, <2>1, <3>1 DEF InStep, Waiting
    <3>3. CASE Method[Asked(o).target] = "POST"
      <4>1. Asked(o).target = "update" /\ Asked(o).flaw = "none"
        <5>1. Asked(o).flaw \in {"none", "content", "length"}
          BY <1>4, Kinds DEF Asked
        <5> QED
          BY <1>4, <3>3, <5>1, Methods DEF Guarded, GuardedGets
      <4>2. n \in Sends(p, 401, {"update"})
        BY <1>1, <1>7, <4>1 DEF Sends, Asked
      <4>3. p.from = 4 * Answered(p) - 4 /\ p.from + 4 <= p.to /\ Answered(p) # 0
            /\ p.to = p.from + 4
            /\ Sent(p) = Answered(p)
        BY <1>1, <2>0, <3>1, Fields
      <4>4. p.stream[Answered(p)].flaw = "none"
        BY <1>1, <2>0, <3>1, <4>1 DEF Asked
      <4> QED
        BY <2>0, <3>2, <4>2, <4>3, <4>4 DEF PostRefused, LockStep
    <3>4. CASE Method[Asked(o).target] # "POST"
      <4>1. Answered(p) + 1 >= Sent(p) /\ Answered(p) >= Sent(p)
        BY <2>0, <3>1
      <4> QED
        BY <1>2, <1>5, <3>2, <3>4, <4>1 DEF GetRefused, LockStep, InStep
    <3> QED
      BY <3>3, <3>4
  <2>2. CASE PostRefused(o)
    <3>1. Method[Asked(o).target] = "POST"
      BY <1>1, <2>2, PostRefusing, Methods
    <3> QED
      BY <1>1, <2>2, <3>1, PostRefusing, NotRefusing
  <2>3. CASE Lost(o)
    BY <1>1, <1>4, <2>3, LostNotAtHead
  <2>4. CASE GetRefused(o, gone)
    <3>1. \A i \in DOMAIN p.replies : p.replies[i].status # 401 => p.replies[i].req = i
      BY <1>7, <2>4 DEF GetRefused
    <3>2. Answered(p) + 1 >= Sent(p) /\ Answered(p) >= Sent(p)
      BY <2>0, <2>4 DEF GetRefused
    <3> QED
      BY <1>2, <1>5, <2>4, <3>1, <3>2 DEF GetRefused, LockStep
  <2> QED
    BY <1>15, <2>1, <2>2, <2>3, <2>4 DEF ConnOK, LockStep
<1> QED
  BY <1>3, <1>8, <1>10, <1>13, <1>14, <1>15 DEF ConnOK

(* checkAccesstoken admits, or does not want to know. *)
LEMMA AdmitConn ==
    ASSUME NEW o \in Connections, NEW p \in Connections, NEW gone, ConnOK(o, gone),
           o.thread = "parsing", "success" \in parse(o),
           Asked(o).target \in Guarded =>
              /\ TokenOf(o, Guarded) \notin gone
              /\ p.token = TokenOf(o, Guarded),
           p.stream = o.stream, p.from = o.from, p.to = o.to, p.thread = "working",
           History(p) = History(o)
    PROVE  ConnOK(p, gone)
<1>1. /\ Kept(o) /\ Staged(o) /\ Replied(o, gone) /\ Performed(o) /\ Truthful(o) /\ ForGood(o)
  BY DEF ConnOK
<1>2. Grown(o, p) /\ End(p) = End(o) /\ First(p) = First(o) /\ Asked(p) = Asked(o)
      /\ AtHead(p) = AtHead(o)
  BY Fields DEF Grown, End, First, Asked, AtHead
<1>3. Kept(p)
  BY <1>1 DEF Kept, CanCut, End
<1>4. /\ o.from < o.to /\ AtHead(o) /\ First(o) \in DOMAIN o.stream
      /\ Asked(o).target \in Guarded => Presenting(o, Guarded) # {}
  <2>1. o.from < o.to
    BY <1>1 DEF Staged
  <2>2. Asked(o).target \in Guarded => Wanted(Asked(o).target) = Guarded /\ Guarded # {}
    BY DEF Wanted, Guarded
  <2> QED
    BY <1>1, <2>1, <2>2, Succeeds, HeadSent
<1>5. ~Refusing(o, gone)
  BY <1>1, NotRefusing
<1>6. /\ Replied(p, gone) /\ Performed(p) /\ Truthful(p) /\ ForGood(p)
      /\ \A status, targets : Sends(p, status, targets) = Sends(o, status, targets)
  BY <1>1, <1>2, <1>5, HistoryGrown
<1>7. ~Pipelining => Waiting(o)
  <2>1. ~PostRefused(o)
    BY <1>1, <1>5, PostRefusing
  <2>2. ~Lost(o)
    BY <1>1, <1>4, LostNotAtHead
  <2>3. ~GetRefused(o, gone)
    BY <1>5 DEF GetRefused
  <2> QED
    BY <2>1, <2>2, <2>3 DEF ConnOK, LockStep
<1>8. Asked(o).target \in Guarded => OwnOf(Asked(o).token, p.token)
  <2> SUFFICES ASSUME Asked(o).target \in Guarded, p.token # Asked(o).token
               PROVE  Asked(o).token = Null /\ Pipelining
    BY DEF OwnOf
  <2>1. Asked(o).token = Null
    BY <1>1, <1>4, OwnTokenFound
  <2>2. CASE ~Pipelining
    <3>1. First(o) = Sent(o)
      BY <1>1, <1>4, <1>7, <2>2, LastAtHead
    <3>2. \A k \in WithHeaders(o) : k = First(o)
      <4>1. \A k \in WithHeaders(o) : First(o) <= k
        BY <1>1, <1>4, HeadersAt
      <4>2. \A k \in WithHeaders(o) : k \in Nat /\ k <= Sent(o)
        BY Fields DEF WithHeaders, Sent
      <4>3. First(o) \in Nat
        BY HeadPosition
      <4> QED
        BY <3>1, <4>1, <4>2, <4>3
    <3>3. Presenting(o, Guarded) = {}
      BY <2>1, <3>2 DEF Presenting, Asked
    <3> QED
      BY <1>4, <3>3
  <2> QED
    BY <2>1, <2>2
<1>9. Staged(p)
  BY <1>2, <1>4, <1>8 DEF Staged
<1>10. ASSUME ~Pipelining PROVE LockStep(p, gone)
  <2>1. Answered(p) = Answered(o) /\ Sent(p) = Sent(o) /\ (InStep(o) => InStep(p))
    BY DEF Answered, Sent, InStep, History
  <2> QED
    BY <1>7, <1>10, <2>1 DEF Waiting, LockStep
<1> QED
  BY <1>3, <1>6, <1>9, <1>10 DEF ConnOK

(* What is at the head, and what was cleared away before, is cleared away  *)
(* when the buffer is.                                                     *)
LEMMA HeadCleared ==
    ASSUME NEW o \in Connections, NEW p \in Connections, o.from < p.from
    PROVE  /\ Begun(p, First(o))
           /\ \A r \in Nat : Begun(o, r) => Begun(p, r)
<1>1. /\ o.from \in Nat /\ p.from \in Nat /\ First(o) \in Nat
      /\ 4 * First(o) - 4 <= o.from
  BY Fields, HeadPosition
<1> QED
  BY <1>1 DEF Begun

(* The part before a position that is not past request n + 1 belongs to    *)
(* it.                                                                     *)
LEMMA RequestHolds ==
    ASSUME NEW n \in Nat, NEW t \in Nat, 4 * n < t, t <= 4 * n + 4
    PROVE  RequestAt(t - 1) = n + 1
<1> DEFINE m == t - 1
<1>1. m \in Nat /\ 4 * n <= m /\ m < 4 * n + 4
  OBVIOUS
<1> HIDE DEF m
<1>2. /\ RequestAt(m) \in Nat /\ RequestAt(m) >= 1 /\ m % 4 \in {0, 1, 2, 3}
      /\ m = 4 * RequestAt(m) - 4 + (m % 4)
  BY <1>1, Positions, Zenon
<1>3. \A f, r : f \in Nat /\ r \in {0, 1, 2, 3} /\ m = 4 * f - 4 + r => f = n + 1
  BY <1>1
<1>4. RequestAt(m) = n + 1
  BY <1>2, <1>3, Zenon
<1> QED
  BY <1>4 DEF m

(* The buffer is cleared without an answer. *)
LEMMA DiscardConn ==
    ASSUME NEW o \in Connections, NEW p \in Connections, NEW gone, ConnOK(o, gone),
           o.thread = "parsing", "bad_http" \in parse(o) \/ "not_support_type" \in parse(o),
           p.thread = "reading", p.stream = o.stream, p.from = o.to, p.to = o.to,
           p.replies = o.replies, p.done = o.done,
           p.dropped = o.dropped \cup {<<k, WhyDiscarded(o)>> : k \in Unanswered(o)}
    PROVE  ConnOK(p, gone)
<1>1. /\ Kept(o) /\ Staged(o) /\ Replied(o, gone) /\ Performed(o) /\ Truthful(o) /\ ForGood(o)
      /\ o.from \in Nat /\ o.to \in Nat
  BY Fields DEF ConnOK
<1>2. o.from < o.to /\ o.from < p.from
  BY <1>1 DEF Staged
<1>3. Kept(p) /\ Staged(p)
  BY <1>1 DEF Kept, Staged, CanCut, End
<1>4. ~(Refusing(o, gone) /\ Method[Asked(o).target] # "POST")
  BY <1>1, RefusingParsed
<1>5. /\ \A status, targets : Sends(p, status, targets) = Sends(o, status, targets)
      /\ Effects(p) = Effects(o)
  BY DEF Sends, Effects
<1>6. ForGood(p)
  BY <1>1, <1>5 DEF ForGood
<1>7. Replied(p, gone)
  <2>1. ASSUME NEW i \in DOMAIN o.replies
        PROVE  o.replies[i].req \in DOMAIN o.stream /\ Begun(p, o.replies[i].req)
    <3>1. o.replies[i].req \in DOMAIN o.stream /\ o.replies[i].req \in Nat
      BY <1>1, Fields, SMTT(30) DEF Replied
    <3> QED
      BY <1>1, <1>2, <3>1, HeadCleared DEF Replied
  <2> QED
    BY <2>1 DEF Replied
<1>8. Performed(p)
  <2>1. \A i \in DOMAIN o.done : Begun(p, o.done[i].req)
    <3>1. \A i \in DOMAIN o.done : o.done[i].req \in Nat
      BY <1>1, Fields DEF Performed
    <3> QED
      BY <1>1, <1>2, <3>1, HeadCleared DEF Performed
  <2> QED
    BY <1>1, <2>1 DEF Performed
<1>9. Truthful(p)
  BY <1>1, <1>5 DEF Truthful
<1>10. ASSUME ~Pipelining PROVE LockStep(p, gone)
  <2>0. /\ Answered(p) = Answered(o) /\ Sent(p) = Sent(o) /\ (InStep(o) => InStep(p))
        /\ Answered(o) \in Nat /\ Sent(o) \in Nat /\ o.to <= 4 * Sent(o)
        /\ DOMAIN o.replies = 1..Answered(o)
    BY <1>1, Fields DEF Answered, Sent, InStep, Kept, End
  <2>2. CASE Waiting(o)
    <3>1. /\ o.from = 4 * Answered(o) /\ Sent(o) = Answered(o) + 1
          /\ o.to <= o.from + 4
      BY <1>1, <1>2, <2>0, <2>2 DEF Waiting
    <3>2. First(o) = Sent(o) /\ RequestAt(o.to - 1) = Sent(o) /\ o.from % 4 = 0
      <4>1. /\ First(o) \in Nat /\ o.from % 4 \in {0, 1, 2, 3}
            /\ o.from = 4 * First(o) - 4 + (o.from % 4)
        BY HeadPosition
      <4>2. \A r : r \in {0, 1, 2, 3} /\ o.from = 4 * First(o) - 4 + r
               => First(o) = Answered(o) + 1 /\ r = 0
        BY <2>0, <3>1, <4>1
      <4>3. 4 * Answered(o) < o.to /\ o.to <= 4 * Answered(o) + 4
        BY <1>1, <1>2, <3>1
      <4>4. RequestAt(o.to - 1) = Answered(o) + 1
        BY <1>1, <2>0, <4>3, RequestHolds
      <4>5. First(o) = Answered(o) + 1 /\ o.from % 4 = 0
        BY <4>1, <4>2, Zenon
      <4> QED
        BY <3>1, <4>4, <4>5
    <3>3. Sent(o) \in Unanswered(o)
      BY <2>0, <2>2, <3>1, <3>2 DEF Unanswered, Waiting, InStep
    <3>4. <<Sent(o), WhyDiscarded(o)>> \in p.dropped
      BY <3>3
    <3>5. \/ WhyDiscarded(o) = "cut short"
          \/ /\ WhyDiscarded(o) = "unsupported"
             /\ Asked(o).target \in Unknown \cup {"put"} \/ ~Asked(o).origin
      <4>1. ~(o.to > o.from + 4)
        BY <1>1, <3>1
      <4>2. CASE o.to = o.from + 1
        BY <4>2 DEF WhyDiscarded
      <4>3. CASE o.to # o.from + 1
        BY <1>1, <1>2, <3>2, <4>1, <4>3, Discarded DEF WhyDiscarded
      <4> QED
        BY <4>2, <4>3
    <3>6. Explained(p)
      BY <2>0, <3>2, <3>4, <3>5, Zenon DEF Explained, Asked
    <3>7. p.from > 4 * Answered(p)
      BY <1>1, <1>2, <2>0, <3>1
    <3> QED
      BY <2>0, <2>2, <3>1, <3>6, <3>7 DEF Lost, LockStep, Waiting
  <2>3. CASE PostRefused(o)
    <3>1. First(o) = Answered(o) /\ Refusing(o, gone)
      BY <1>1, <2>3, PostRefusing
    <3>2. /\ o.from = 4 * Answered(o) - 4 /\ o.from + 4 < o.to
          /\ Sent(o) \in {Answered(o), Answered(o) + 1} /\ Answered(o) # 0
          /\ o.from % 4 = 0
      BY <2>3, <3>1 DEF PostRefused, Refusing, AtHead
    <3>3. 4 * Answered(o) < o.to /\ Sent(o) = Answered(o) + 1 /\ o.to <= 4 * Answered(o) + 4
      BY <1>1, <2>0, <3>2
    <3>4. Sent(o) \in Unanswered(o)
      <4>1. RequestAt(o.to - 1) = Sent(o)
        BY <1>1, <2>0, <3>3, RequestHolds
      <4>2. Sent(o) \in First(o)..RequestAt(o.to - 1)
        BY <2>0, <3>1, <3>3, <4>1
      <4>3. \A i \in DOMAIN o.replies : o.replies[i].req # Sent(o)
        BY <2>0, <2>3, <3>3 DEF PostRefused, InStep
      <4> QED
        BY <4>2, <4>3 DEF Unanswered
    <3>5. WhyDiscarded(o) = "behind"
      <4>1. o.to > o.from + 4 /\ o.to # o.from + 1
        BY <1>1, <3>2
      <4> QED
        BY <3>2, <4>1, Zenon DEF WhyDiscarded
    <3>6. <<Sent(o), "behind">> \in p.dropped
      BY <3>4, <3>5
    <3>7. Sends(o, 401, {"update"}) # {}
      BY <2>3 DEF PostRefused
    <3>8. Explained(p)
      <4>1. <<Sent(p), "behind">> \in p.dropped /\ Sends(p, 401, {"update"}) # {}
        BY <1>5, <2>0, <3>6, <3>7
      <4> QED
        BY <4>1, Zenon DEF Explained
    <3> QED
      BY <2>0, <2>3, <3>3, <3>8 DEF Lost, LockStep, PostRefused
  <2>4. CASE Lost(o)
    <3>1. Explained(p)
      BY <1>5, <2>0, <2>4, StillExplained DEF Lost
    <3>2. p.from > 4 * Answered(p)
      BY <1>1, <1>2, <2>0, <2>4 DEF Lost
    <3> QED
      BY <2>0, <2>4, <3>1, <3>2 DEF Lost, LockStep
  <2>5. CASE GetRefused(o, gone)
    BY <1>4, <2>5 DEF GetRefused
  <2> QED
    BY <1>10, <2>2, <2>3, <2>4, <2>5 DEF ConnOK, LockStep
<1> QED
  BY <1>3, <1>6, <1>7, <1>8, <1>9, <1>10 DEF ConnOK

(* One more effect, of the request at the head of the buffer. *)
Performs(o, p) ==
    /\ DOMAIN p.done = 1..Len(o.done) + 1
    /\ \A i \in 1..Len(o.done) : p.done[i] = o.done[i]
    /\ p.done[Len(o.done) + 1] = [req |-> First(o), token |-> o.token]

(* Perform appends to the effects. *)
LEMMA PerformAppended ==
    ASSUME NEW o \in Connections, NEW p \in Connections,
           p.done = Append(o.done, [req |-> First(o), token |-> o.token])
    PROVE  Performs(o, p)
<1>1. [req |-> First(o), token |-> o.token] \in [req : Nat, token : Tokens \cup {Null}]
  BY HeadPosition DEF Connections
<1>2. o.done \in Seq([req : Nat, token : Tokens \cup {Null}]) /\ Len(o.done) \in Nat
      /\ DOMAIN p.done = 1..Len(p.done)
  BY Fields
<1> QED
  BY <1>1, <1>2, AppendProperties DEF Performs

(* A branch of the two switches: perhaps an effect, an answer, and then    *)
(* the buffer is cleared.                                                  *)
LEMMA AnswerConn ==
    ASSUME NEW o \in Connections, NEW p \in Connections, NEW gone, ConnOK(o, gone),
           o.thread = "working", NEW status \in Nat, NEW performed \in BOOLEAN,
           status = 200 /\ Asked(o).target \in Inserting => performed,
           status \in {400, 401} => ~performed,
           p.thread = "reading", p.stream = o.stream, p.from = o.to, p.to = o.to,
           Replies(o, p, status),
           IF performed THEN Performs(o, p) ELSE p.done = o.done
    PROVE  ConnOK(p, gone)
<1>1. /\ Kept(o) /\ Staged(o) /\ Replied(o, gone) /\ Performed(o) /\ Truthful(o) /\ ForGood(o)
      /\ o.from \in Nat /\ o.to \in Nat /\ AtHead(o)
      /\ Len(o.replies) \in Nat /\ DOMAIN o.replies = 1..Len(o.replies)
      /\ Len(o.done) \in Nat /\ DOMAIN o.done = 1..Len(o.done)
  BY Fields DEF ConnOK, Staged
<1>2. o.from < o.to /\ o.from < p.from /\ o.from % 4 = 0
  BY <1>1 DEF AtHead
<1>3. Kept(p) /\ Staged(p)
  BY <1>1 DEF Kept, Staged, CanCut, End
<1>4. ~Refusing(o, gone)
  BY DEF Refusing
<1>5. /\ First(o) \in DOMAIN o.stream /\ Begun(p, First(o))
      /\ ~Begun(o, First(o)) /\ First(o) \notin Effects(o)
  BY <1>1, <1>2, HeadSent, HeadCleared, HeadUndone
<1>6. \A r \in DOMAIN o.stream : Begun(o, r) => Begun(p, r) /\ r # First(o)
  <2>1. \A r \in DOMAIN o.stream : r \in Nat
    BY Fields
  <2> QED
    BY <1>2, <1>5, <2>1, HeadCleared
<1> DEFINE n == Len(o.replies) + 1
<1>7. /\ \A i \in DOMAIN p.replies : i \in DOMAIN o.replies \/ i = n
      /\ \A i \in DOMAIN o.replies : p.replies[i] = o.replies[i]
      /\ n \in DOMAIN p.replies /\ n \in Nat
      /\ p.replies[n].req = First(o) /\ p.replies[n].status = status
  BY <1>1 DEF Replies
<1> HIDE DEF n
<1>8. \A i \in DOMAIN o.replies : o.replies[i].req \in DOMAIN o.stream /\ Begun(o, o.replies[i].req)
  BY <1>1, <1>4 DEF Replied
<1>9. Replied(p, gone)
  <2>1. ASSUME NEW i \in DOMAIN p.replies
        PROVE  p.replies[i].req \in DOMAIN p.stream /\ Begun(p, p.replies[i].req)
    BY <1>5, <1>6, <1>7, <1>8
  <2> QED
    BY <2>1 DEF Replied
<1>10. Performed(p) /\ Effects(p) = (IF performed THEN Effects(o) \cup {First(o)} ELSE Effects(o))
  <2>1. CASE ~performed
    <3>1. p.done = o.done
      BY <2>1
    <3> QED
      BY <1>1, <1>6, <2>1, <3>1 DEF Performed, Effects
  <2>2. CASE performed
    <3> DEFINE m == Len(o.done) + 1
    <3>1. /\ \A i \in DOMAIN p.done : i \in DOMAIN o.done \/ i = m
          /\ \A i \in DOMAIN o.done : i \in DOMAIN p.done /\ p.done[i] = o.done[i] /\ i < m
          /\ m \in DOMAIN p.done /\ m \in Nat
          /\ p.done[m].req = First(o) /\ p.done[m].token = o.token
      <4> DEFINE size == Len(o.done)
      <4>1. size \in Nat /\ DOMAIN o.done = 1..size
        BY <1>1
      <4>2. /\ DOMAIN p.done = 1..size + 1
            /\ \A i \in 1..size : p.done[i] = o.done[i]
            /\ p.done[size + 1] = [req |-> First(o), token |-> o.token]
        BY <2>2 DEF Performs
      <4> HIDE DEF size
      <4>3. /\ \A i \in DOMAIN p.done : i \in DOMAIN o.done \/ i = size + 1
            /\ \A i \in DOMAIN o.done : i \in DOMAIN p.done /\ i < size + 1
            /\ size + 1 \in DOMAIN p.done /\ size + 1 \in Nat
        BY <4>1, <4>2
      <4> QED
        BY <4>1, <4>2, <4>3 DEF size
    <3>2. \A i \in DOMAIN p.done : ~(m < i)
      BY <1>1, <3>1
    <3> HIDE DEF m
    <3>3. Effects(p) = Effects(o) \cup {First(o)}
      BY <3>1 DEF Effects
    <3>4. \A r \in DOMAIN o.stream : Begun(o, r) => r < First(o)
      <4>1. /\ First(o) \in Nat /\ o.from = 4 * First(o) - 4
            /\ DOMAIN o.stream = 1..Len(o.stream) /\ Len(o.stream) \in Nat
        BY <1>2, HeadPosition, Fields
      <4> QED
        BY <4>1 DEF Begun
    <3>5. Asked(o).target \in Guarded => OwnOf(Asked(o).token, o.token)
      BY <1>1 DEF Staged
    <3>6. ASSUME NEW i \in DOMAIN p.done
          PROVE  /\ p.done[i].req \in DOMAIN p.stream /\ Begun(p, p.done[i].req)
                 /\ \A j \in DOMAIN p.done : i < j => p.done[i].req < p.done[j].req
                 /\ p.stream[p.done[i].req].target \in Guarded =>
                       OwnOf(p.stream[p.done[i].req].token, p.done[i].token)
      <4>1. CASE i = m
        BY <1>5, <3>1, <3>2, <3>5, <4>1 DEF Asked
      <4>2. CASE i \in DOMAIN o.done
        <5>1. /\ o.done[i].req \in DOMAIN o.stream /\ Begun(o, o.done[i].req)
              /\ \A j \in DOMAIN o.done : i < j => o.done[i].req < o.done[j].req
              /\ o.stream[o.done[i].req].target \in Guarded =>
                    OwnOf(o.stream[o.done[i].req].token, o.done[i].token)
          BY <1>1, <4>2 DEF Performed
        <5>2. \A j \in DOMAIN p.done : i < j => p.done[i].req < p.done[j].req
          BY <3>1, <3>4, <4>2, <5>1
        <5> QED
          BY <1>6, <3>1, <4>2, <5>1, <5>2
      <4> QED
        BY <3>1, <4>1, <4>2
    <3> QED
      BY <2>2, <3>3, <3>6 DEF Performed
  <2> QED
    BY <2>1, <2>2
<1>11. \A s, targets : \A i \in DOMAIN o.replies :
          i \in Sends(p, s, targets) <=> i \in Sends(o, s, targets)
  <2>1. DOMAIN o.replies \subseteq DOMAIN p.replies
    BY <1>1 DEF Replies
  <2> QED
    BY <1>7, <2>1 DEF Sends
<1>12. Truthful(p)
  <2>1. ASSUME NEW i \in DOMAIN p.replies
        PROVE  /\ i \in Sends(p, 200, Inserting) => p.replies[i].req \in Effects(p)
               /\ p.replies[i].status \in {400, 401} => p.replies[i].req \notin Effects(p)
    <3>1. CASE i \in DOMAIN o.replies
      <4>1. /\ i \in Sends(o, 200, Inserting) => o.replies[i].req \in Effects(o)
            /\ o.replies[i].status \in {400, 401} => o.replies[i].req \notin Effects(o)
        BY <1>1, <3>1 DEF Truthful
      <4>2. o.replies[i].req # First(o)
        BY <1>6, <1>8, <3>1
      <4> QED
        BY <1>7, <1>10, <1>11, <3>1, <4>1, <4>2
    <3>2. CASE i = n
      <4>1. i \in Sends(p, 200, Inserting) => status = 200 /\ Asked(o).target \in Inserting
        BY <1>7, <3>2 DEF Sends, Asked
      <4> QED
        BY <1>5, <1>7, <1>10, <3>2, <4>1
    <3> QED
      BY <1>7, <3>1, <3>2
  <2> QED
    BY <2>1 DEF Truthful
<1>13. ForGood(p)
  <2>1. \A i \in DOMAIN o.replies : o.replies[i].req # First(o)
    BY <1>6, <1>8
  <2>2. ASSUME NEW i \in Sends(p, 401, Guarded), NEW j \in DOMAIN p.replies,
               p.replies[j].req = p.replies[i].req
        PROVE  p.replies[j].status = 401
    <3>1. p.replies[i].status = 401 /\ i \in DOMAIN p.replies
      BY <2>2 DEF Sends
    <3>2. CASE i = n
      <4>1. j = n
        BY <1>7, <2>1, <2>2, <3>2
      <4> QED
        BY <3>1, <3>2, <4>1
    <3>3. CASE i \in DOMAIN o.replies
      <4>1. j \in DOMAIN o.replies
        BY <1>7, <2>1, <2>2, <3>3
      <4>2. i \in Sends(o, 401, Guarded)
        BY <1>11, <2>2, <3>3
      <4> QED
        BY <1>1, <1>7, <2>2, <3>3, <4>1, <4>2 DEF ForGood
    <3> QED
      BY <1>7, <3>1, <3>2, <3>3
  <2> QED
    BY <2>2 DEF ForGood
<1>14. ASSUME ~Pipelining PROVE LockStep(p, gone)
  <2>1. Waiting(o)
    <3>1. ~PostRefused(o) /\ ~Lost(o) /\ ~GetRefused(o, gone)
      BY <1>4 DEF PostRefused, Lost, GetRefused
    <3> QED
      BY <1>14, <3>1 DEF ConnOK, LockStep
  <2>2. /\ Sent(o) = Answered(o) + 1 /\ First(o) = Sent(o)
        /\ o.to = o.from + 4 /\ o.from = 4 * Answered(o)
    BY <1>1, <2>1, LastAtHead DEF Waiting
  <2>3. /\ Answered(p) = Answered(o) + 1 /\ n = Answered(p) /\ Sent(p) = Sent(o)
        /\ Answered(o) \in Nat
    BY <1>1 DEF Answered, Sent, Replies, n
  <2>4. InStep(p)
    BY <1>7, <2>1, <2>2, <2>3 DEF InStep, Waiting
  <2>5. p.from = 4 * Answered(p) /\ p.to < p.from + 4 /\ Sent(p) = Answered(p)
    BY <1>1, <2>2, <2>3
  <2> QED
    BY <2>4, <2>5 DEF Waiting, LockStep
<1> QED
  BY <1>3, <1>9, <1>10, <1>12, <1>13, <1>14 DEF ConnOK

(* Answer leaves an empty buffer and one more reply. *)
LEMMA AnswerFields ==
    ASSUME NEW q \in Connections, NEW status \in Nat
    PROVE  /\ Answer(q, status) \in Connections
           /\ Answer(q, status).thread = "reading"
           /\ Answer(q, status).stream = q.stream
           /\ Answer(q, status).from = q.to /\ Answer(q, status).to = q.to
           /\ Answer(q, status).replies =
                 Append(q.replies, [req |-> First(q), status |-> status])
           /\ Answer(q, status).done = q.done
<1>1. Reply(q, status) \in Connections /\ "behind" \in Reasons
  BY ReplyFields DEF Reasons
<1> QED
  BY <1>1, ReplyFields, ClearFields DEF Answer, Place

(* The session may be found to be lost while the answer is sent.           *)
LEMMA AnswerStep ==
    ASSUME NEW o \in Connections, NEW gone, ConnOK(o, gone), o.thread = "working",
           NEW status \in Nat, NEW performed \in BOOLEAN, NEW session \in BOOLEAN, NEW p,
           \/ p = Answer(IF performed THEN Perform(o) ELSE o, status)
           \/ p = [Answer(IF performed THEN Perform(o) ELSE o, status)
                      EXCEPT !.session = session],
           status = 200 /\ Asked(o).target \in Inserting => performed,
           status \in {400, 401} => ~performed
    PROVE  p \in Connections /\ ConnOK(p, gone)
<1> DEFINE q == IF performed THEN Perform(o) ELSE o
           a == Answer(q, status)
<1>1. /\ q \in Connections /\ q.stream = o.stream /\ q.from = o.from /\ q.to = o.to
      /\ q.replies = o.replies
      /\ q.done = IF performed THEN Append(o.done, [req |-> First(o), token |-> o.token])
                               ELSE o.done
  <2>1. CASE performed
    <3>1. /\ Perform(o) \in Connections /\ Place(Perform(o)) = Place(o)
          /\ Perform(o).replies = o.replies
          /\ Perform(o).done = Append(o.done, [req |-> First(o), token |-> o.token])
      BY PerformFields
    <3>2. q = Perform(o)
      BY <2>1
    <3> QED
      BY <2>1, <3>1, <3>2 DEF Place
  <2>2. CASE ~performed
    BY <2>2
  <2> QED
    BY <2>1, <2>2
<1>2. First(q) = First(o)
  BY <1>1 DEF First
<1> HIDE DEF q
<1>3. a \in Connections /\ a.thread = "reading" /\ a.stream = o.stream
      /\ a.from = o.to /\ a.to = o.to /\ a.done = q.done
      /\ a.replies = Append(o.replies, [req |-> First(o), status |-> status])
  BY <1>1, <1>2, AnswerFields
<1> HIDE DEF a
<1>4. p = a \/ p = [a EXCEPT !.session = session]
  BY DEF a, q
<1>5. p \in Connections /\ p.thread = a.thread /\ Place(p) = Place(a) /\ History(p) = History(a)
  BY <1>3, <1>4, SessionFields
<1>6. /\ p.thread = "reading" /\ p.stream = o.stream /\ p.from = o.to /\ p.to = o.to
      /\ p.replies = Append(o.replies, [req |-> First(o), status |-> status])
      /\ p.done = q.done
  BY <1>3, <1>5 DEF Place, History
<1>7. Replies(o, p, status)
  BY <1>5, <1>6, ReplyAppended
<1>8. IF performed THEN Performs(o, p) ELSE p.done = o.done
  <2>1. CASE performed
    <3>1. p.done = Append(o.done, [req |-> First(o), token |-> o.token])
      BY <1>1, <1>6, <2>1
    <3> QED
      BY <1>5, <2>1, <3>1, PerformAppended
  <2>2. CASE ~performed
    BY <1>1, <1>6, <2>2
  <2> QED
    BY <2>1, <2>2
<1> QED
  BY <1>5, <1>6, <1>7, <1>8, AnswerConn

-----------------------------------------------------------------------------
(* The steps. *)

(* A step of one connection that keeps it in order keeps all in order.     *)
LEMMA OneConnection ==
    ASSUME AuthInv, Running, NEW c \in Conns, NEW p \in Connections,
           ConnOK(p, expired), Become(c, p), UNCHANGED <<expired, ended>>
    PROVE  AuthInv'
<1>1. conn \in [Conns -> Connections] /\ expired' = expired /\ ended' = "no"
      /\ expired \subseteq Tokens /\ conn' = [conn EXCEPT ![c] = p]
  BY DEF AuthInv, TypeOK, Become, Running
<1>2. conn' \in [Conns -> Connections]
  BY <1>1
<1>3. \A d \in Conns : ConnOK(conn'[d], expired')
  BY <1>1 DEF AuthInv
<1>4. TypeOK'
  <2>1. \A d \in Conns : conn'[d].from <= conn'[d].to /\ conn'[d].to <= End(conn'[d])
    BY <1>3 DEF ConnOK, Kept
  <2> QED
    BY <1>1, <1>2, <2>1 DEF TypeOK
<1>5. OnlyInputEnds'
  BY <1>1 DEF OnlyInputEnds
<1> QED
  BY <1>3, <1>4, <1>5 DEF AuthInv

(* A thread that throws ends the process and changes no connection.        *)
LEMMA Ends ==
    ASSUME AuthInv, UNCHANGED <<conn, expired>>, ended' \in {"parse", "reset"}, OnlyInputEnds'
    PROVE  AuthInv'
BY DEF AuthInv, TypeOK

(* What the invariant says of one connection. *)
LEMMA ThisConnection ==
    ASSUME AuthInv, NEW c \in Conns
    PROVE  /\ conn[c] \in Connections /\ ConnOK(conn[c], expired)
           /\ Kept(conn[c]) /\ Staged(conn[c])
           /\ conn[c].from \in Nat /\ conn[c].to \in Nat
BY Fields DEF AuthInv, TypeOK, ConnOK

(* send: a client in lock-step has all its answers. *)
LEMMA SendStep ==
    ASSUME AuthInv, NEW c \in Conns, NEW r \in Requests, send(c, r)
    PROVE  AuthInv'
<1> DEFINE p == [conn[c] EXCEPT !.stream = Append(conn[c].stream, r)]
<1>1. /\ Become(c, p) /\ Running /\ UNCHANGED <<expired, ended>>
      /\ Pipelining \/ Len(conn[c].replies) >= Len(conn[c].stream)
  BY DEF send, IsOpen
<1> HIDE DEF p
<1>2. /\ p \in Connections /\ p.stream = Append(conn[c].stream, r)
      /\ p.thread = conn[c].thread /\ p.from = conn[c].from /\ p.to = conn[c].to
      /\ p.token = conn[c].token /\ History(p) = History(conn[c])
  BY ThisConnection, SendFields DEF p
<1>3. ConnOK(p, expired)
  BY <1>1, <1>2, ThisConnection, SendConn
<1> QED
  BY <1>1, <1>2, <1>3, OneConnection

(* close changes nothing the server keeps. *)
LEMMA CloseStep ==
    ASSUME AuthInv, NEW c \in Conns, NEW how \in {"closing", "reset"}, close(c, how)
    PROVE  AuthInv'
<1> DEFINE p == [conn[c] EXCEPT !.client = how]
<1>1. Become(c, p) /\ Running /\ UNCHANGED <<expired, ended>>
  BY DEF close, IsOpen
<1> HIDE DEF p
<1>2. /\ p \in Connections /\ p.thread = conn[c].thread
      /\ Place(p) = Place(conn[c]) /\ History(p) = History(conn[c])
  BY ThisConnection, CloseFields DEF p
<1>3. ConnOK(p, expired)
  BY <1>2, ThisConnection, QuietConn
<1> QED
  BY <1>1, <1>2, <1>3, OneConnection

(* expire: what is refused remains refused. *)
LEMMA ExpireStep ==
    ASSUME AuthInv, NEW t \in Tokens, expire(t)
    PROVE  AuthInv'
<1>1. expired' = expired \cup {t} /\ conn' = conn /\ ended' = ended
  BY DEF expire
<1>2. \A c \in Conns : ConnOK(conn'[c], expired')
  BY <1>1, ThisConnection, GoneGrows
<1>3. TypeOK' /\ OnlyInputEnds'
  BY <1>1 DEF AuthInv, TypeOK, OnlyInputEnds
<1> QED
  BY <1>2, <1>3 DEF AuthInv

(* waitForNewConnection: nothing has been received yet. *)
LEMMA AcceptStep ==
    ASSUME AuthInv, NEW c \in Conns, waitForNewConnection(c)
    PROVE  AuthInv'
<1>1. PICK thread \in {"starting", "closed"} : Become(c, [conn[c] EXCEPT !.thread = thread])
  BY DEF waitForNewConnection
<1> DEFINE p == [conn[c] EXCEPT !.thread = thread]
<1>2. /\ Become(c, p) /\ Running /\ UNCHANGED <<expired, ended>>
      /\ conn[c].thread = "none"
  BY <1>1 DEF waitForNewConnection
<1> HIDE DEF p
<1>3. /\ p \in Connections /\ p.thread = thread
      /\ Place(p) = Place(conn[c]) /\ History(p) = History(conn[c])
  BY ThisConnection, ThreadFields DEF p, Threads
<1>4. ConnOK(p, expired)
  BY <1>2, <1>3, ThisConnection, QuietConn
<1> QED
  BY <1>2, <1>3, <1>4, OneConnection

(* run: the thread begins with an empty buffer. *)
LEMMA RunStep ==
    ASSUME AuthInv, NEW c \in Conns, run(c)
    PROVE  AuthInv'
<1>1. /\ Running /\ conn[c].thread = "starting" /\ UNCHANGED <<expired, ended>>
      /\ \/ Become(c, [conn[c] EXCEPT !.thread = "reading", !.session = TRUE])
         \/ Become(c, [conn[c] EXCEPT !.thread = "closed"])
  BY DEF run
<1>2. PICK p : /\ Become(c, p)
               /\ \/ p = [conn[c] EXCEPT !.thread = "reading", !.session = TRUE]
                  \/ p = [conn[c] EXCEPT !.thread = "closed"]
  BY <1>1
<1>3. /\ p \in Connections /\ p.thread \in {"reading", "closed"}
      /\ Place(p) = Place(conn[c]) /\ History(p) = History(conn[c])
  <2>1. CASE p = [conn[c] EXCEPT !.thread = "reading", !.session = TRUE]
    <3>1. "reading" \in Threads /\ TRUE \in BOOLEAN
      BY DEF Threads
    <3> DEFINE o == conn[c]
    <3>2. o \in Connections /\ p = [o EXCEPT !.thread = "reading", !.session = TRUE]
      BY <2>1, ThisConnection
    <3> HIDE DEF o
    <3>3. p.thread = "reading" /\ p \in Connections /\ Place(p) = Place(o) /\ History(p) = History(o)
      BY <3>2 DEF Connections, Place, History
    <3> QED
      BY <3>3 DEF o
  <2>2. CASE p = [conn[c] EXCEPT !.thread = "closed"]
    <3>1. "closed" \in Threads
      BY DEF Threads
    <3> QED
      BY <2>2, <3>1, ThisConnection, ThreadFields
  <2> QED
    BY <1>2, <2>1, <2>2
<1>4. conn[c].from = 0 /\ conn[c].to = 0
  BY <1>1, ThisConnection DEF Staged
<1>5. /\ ~GetRefused(conn[c], expired) /\ ~PostRefused(conn[c])
      /\ conn[c].to < conn[c].from + 4
  BY <1>4 DEF GetRefused, Refusing, AtHead, PostRefused
<1>6. ConnOK(p, expired)
  BY <1>1, <1>3, <1>5, ThisConnection, QuietConn
<1> QED
  BY <1>1, <1>2, <1>3, <1>6, OneConnection

(* recv: the buffer grows up to a place where TCP may cut. *)
LEMMA RecvStep ==
    ASSUME AuthInv, NEW c \in Conns, recv(c)
    PROVE  AuthInv'
<1>1. PICK upto \in conn[c].to + 1..End(conn[c]) :
         /\ upto < End(conn[c]) => CanCut(conn[c], upto)
         /\ Become(c, [conn[c] EXCEPT !.thread = "parsing", !.to = upto])
  BY DEF recv
<1> DEFINE p == [conn[c] EXCEPT !.thread = "parsing", !.to = upto]
<1>2. /\ Become(c, p) /\ Running /\ UNCHANGED <<expired, ended>>
      /\ conn[c].thread = "reading"
  BY <1>1 DEF recv
<1>3. /\ End(conn[c]) = 4 * Len(conn[c].stream) /\ Len(conn[c].stream) \in Nat
      /\ conn[c].to \in Nat
  BY ThisConnection, Fields DEF End
<1>4. upto \in Nat /\ conn[c].to < upto /\ upto <= End(conn[c])
  BY <1>3
<1> DEFINE o == conn[c]
<1> HIDE DEF p, o
<1>5. /\ p \in Connections /\ p.thread = "parsing" /\ p.stream = conn[c].stream
      /\ p.from = conn[c].from /\ p.to = upto /\ p.token = conn[c].token
      /\ History(p) = History(conn[c])
  <2>1. o \in Connections /\ p = [o EXCEPT !.thread = "parsing", !.to = upto]
    BY ThisConnection DEF o, p
  <2>2. /\ p \in Connections /\ p.thread = "parsing" /\ p.stream = o.stream
        /\ p.from = o.from /\ p.to = upto /\ p.token = o.token
        /\ History(p) = History(o)
    BY <1>4, <2>1 DEF Connections, History
  <2> QED
    BY <2>2 DEF o
<1>6. CanCut(conn[c], upto)
  <2>1. CASE upto < End(conn[c])
    BY <1>1, <2>1
  <2>2. CASE upto = End(conn[c])
    <3>1. \A n \in Nat : (4 * n) % 4 = 0
      OBVIOUS
    <3>2. upto % 4 = 0
      BY <1>3, <2>2, <3>1
    <3> QED
      BY <3>2 DEF CanCut
  <2> QED
    BY <1>3, <1>4, <2>1, <2>2
<1>7. ConnOK(p, expired)
  BY <1>2, <1>4, <1>5, <1>6, ThisConnection, RecvConn
<1> QED
  BY <1>2, <1>5, <1>7, OneConnection

(* recvEnd closes a connection and leaves the rest as it is. *)
LEMMA RecvEndStep ==
    ASSUME AuthInv, NEW c \in Conns, recvEnd(c)
    PROVE  AuthInv'
<1> DEFINE o == conn[c]
           p == [o EXCEPT !.thread = "closed", !.session = FALSE]
<1>1. Become(c, p) /\ Running /\ UNCHANGED <<expired, ended>>
  BY DEF recvEnd
<1>2. o \in Connections /\ ConnOK(o, expired)
  BY ThisConnection
<1> HIDE DEF o
<1>3. /\ p \in Connections /\ p.thread = "closed"
      /\ Place(p) = Place(o) /\ History(p) = History(o)
  BY <1>2 DEF Connections, Place, History
<1> HIDE DEF p
<1>4. ConnOK(p, expired)
  BY <1>2, <1>3, QuietConn
<1> QED
  BY <1>1, <1>3, <1>4, OneConnection

(* recvError ends the process for a client that is reset. *)
LEMMA RecvErrorStep ==
    ASSUME AuthInv, NEW c \in Conns, recvError(c)
    PROVE  AuthInv'
<1>1. ended' = "reset" /\ conn' = conn /\ expired' = expired /\ conn[c].client = "reset"
  BY DEF recvError
<1>2. OnlyInputEnds'
  BY <1>1 DEF OnlyInputEnds
<1> QED
  BY <1>1, <1>2, Ends

(* A thread that parses has something to parse. *)
LEMMA SomethingToParse ==
    ASSUME AuthInv, NEW c \in Conns, NEW status, Parsing(c, status)
    PROVE  /\ conn[c].from < conn[c].to /\ conn[c].thread = "parsing"
           /\ status \in parse(conn[c]) /\ Running
BY ThisConnection DEF Parsing, Staged

(* notFull: no whole request is at the head, and none that was refused. *)
LEMMA NotFullStep ==
    ASSUME AuthInv, NEW c \in Conns, notFull(c)
    PROVE  AuthInv'
<1> DEFINE p == [conn[c] EXCEPT !.thread = "reading"]
<1>1. /\ Become(c, p) /\ UNCHANGED <<expired, ended>> /\ Running
      /\ conn[c].from < conn[c].to /\ conn[c].thread = "parsing"
      /\ "not_full_req" \in parse(conn[c])
  BY SomethingToParse DEF notFull
<1> HIDE DEF p
<1>2. /\ p \in Connections /\ p.thread = "reading"
      /\ Place(p) = Place(conn[c]) /\ History(p) = History(conn[c])
  BY ThisConnection, ThreadFields DEF p, Threads
<1>3. ~GetRefused(conn[c], expired) /\ ~PostRefused(conn[c])
  <2>1. ~Refusing(conn[c], expired)
    BY <1>1, ThisConnection, RefusingParsed
  <2> QED
    BY <2>1, ThisConnection, PostRefusing DEF GetRefused
<1>4. Waiting(conn[c]) => conn[c].to < conn[c].from + 4
  <2> SUFFICES ASSUME Waiting(conn[c]) PROVE conn[c].to < conn[c].from + 4
    OBVIOUS
  <2>1. conn[c].from = 4 * Answered(conn[c]) /\ Answered(conn[c]) \in Nat
    BY ThisConnection, Fields DEF Waiting, Answered
  <2>2. \A n \in Nat : (4 * n) % 4 = 0
    OBVIOUS
  <2>3. conn[c].from % 4 = 0
    BY <2>1, <2>2
  <2> QED
    BY <1>1, <2>3, ThisConnection, StaysUnread
<1>5. ConnOK(p, expired)
  BY <1>2, <1>3, <1>4, ThisConnection, QuietConn
<1> QED
  BY <1>1, <1>2, <1>5, OneConnection

(* discard: what is cleared away is no refused GET. *)
LEMMA DiscardStep ==
    ASSUME AuthInv, NEW c \in Conns, discard(c)
    PROVE  AuthInv'
<1> DEFINE o == conn[c]
           p == Clear(o, WhyDiscarded(o))
<1>1. /\ Become(c, p) /\ UNCHANGED <<expired, ended>> /\ Running
      /\ o.thread = "parsing"
      /\ "bad_http" \in parse(o) \/ "not_support_type" \in parse(o)
  BY DEF discard, Parsing
<1>2. o \in Connections /\ ConnOK(o, expired) /\ WhyDiscarded(o) \in Reasons
  BY ThisConnection DEF WhyDiscarded, Reasons
<1> HIDE DEF o
<1>3. /\ p \in Connections /\ p.thread = "reading" /\ p.stream = o.stream
      /\ p.from = o.to /\ p.to = o.to /\ p.replies = o.replies /\ p.done = o.done
      /\ p.dropped = o.dropped \cup {<<k, WhyDiscarded(o)>> : k \in Unanswered(o)}
  BY <1>2, ClearFields
<1> HIDE DEF p
<1>4. ConnOK(p, expired)
  BY <1>1, <1>2, <1>3, DiscardConn
<1> QED
  BY <1>1, <1>3, <1>4, OneConnection

(* parseThrows: the request that ends the process has no token, or cannot  *)
(* be parsed.                                                              *)
LEMMA ParseThrowsStep ==
    ASSUME AuthInv, NEW c \in Conns, parseThrows(c)
    PROVE  AuthInv'
<1> DEFINE o == conn[c]
           r == Asked(o)
<1>1. ended' = "parse" /\ conn' = conn /\ expired' = expired
  BY DEF parseThrows
<1>2. /\ o \in Connections /\ Kept(o) /\ o.from < o.to /\ "throws" \in parse(o)
  BY ThisConnection, SomethingToParse DEF parseThrows
<1> HIDE DEF o
<1>3. /\ First(o) \in DOMAIN o.stream
      /\ \/ Method[r.target] = "POST" /\ r.flaw = "length"
         \/ AtHead(o) /\ Unparsable(o)
  BY <1>2, Throwing, HeadSent
<1>4. AtHead(o) /\ Wanted(r.target) # {} /\ Presenting(o, Wanted(r.target)) = {}
         => r.token = Null
  <2>1. Wanted(r.target) # {} => r.target \in Wanted(r.target)
    BY DEF Wanted
  <2> QED
    BY <1>2, <2>1, OwnTokenFound
<1>5. \/ Wanted(r.target) # {} /\ r.token = Null
      \/ r.target \in Parsed /\ r.flaw = "content"
      \/ Method[r.target] = "POST" /\ r.flaw = "length"
  BY <1>3, <1>4, Zenon DEF Unparsable
<1>6. OnlyInputEnds'
  BY <1>1, <1>3, <1>5 DEF OnlyInputEnds, o, Asked
<1> QED
  BY <1>1, <1>6, Ends

(* refuse: the request was whole and stays where it is. *)
LEMMA RefuseStep ==
    ASSUME AuthInv, NEW c \in Conns, refuse(c)
    PROVE  AuthInv'
<1> DEFINE o == conn[c]
           p == Refuse(o)
<1>1. /\ Become(c, p) /\ UNCHANGED <<expired, ended>> /\ Running
      /\ o.thread = "parsing" /\ "success" \in parse(o)
      /\ Asked(o).target \in Guarded /\ TokenOf(o, Guarded) \in expired
  BY DEF refuse, Parsing
<1>2. o \in Connections /\ ConnOK(o, expired)
  BY ThisConnection
<1> HIDE DEF o
<1> DEFINE q == Reply(o, 401)
<1>3. /\ q \in Connections /\ Place(q) = Place(o)
      /\ q.replies = Append(o.replies, [req |-> First(o), status |-> 401])
      /\ q.done = o.done /\ q.dropped = o.dropped
  BY <1>2, ReplyFields
<1>4. p = [q EXCEPT !.thread = "reading"]
  BY DEF Refuse
<1> HIDE DEF q, p
<1>5. /\ p \in Connections /\ p.thread = "reading"
      /\ Place(p) = Place(q) /\ History(p) = History(q)
  BY <1>3, <1>4, ThreadFields DEF Threads
<1>6. /\ Place(p) = Place(o) /\ p.done = o.done /\ p.dropped = o.dropped
      /\ p.replies = Append(o.replies, [req |-> First(o), status |-> 401])
  BY <1>3, <1>5 DEF History
<1>7. Replies(o, p, 401)
  BY <1>2, <1>5, <1>6, ReplyAppended
<1>8. ConnOK(p, expired)
  BY <1>1, <1>2, <1>5, <1>6, <1>7, RefuseConn
<1> QED
  BY <1>1, <1>5, <1>8, OneConnection

(* admit: the token found is the own one, if there is one. *)
LEMMA AdmitStep ==
    ASSUME AuthInv, NEW c \in Conns, admit(c)
    PROVE  AuthInv'
<1> DEFINE o == conn[c]
           wanted == Wanted(Asked(o).target)
           token == IF wanted = {} THEN Null ELSE TokenOf(o, wanted)
           p == [o EXCEPT !.thread = "working", !.token = token]
<1>1. /\ Become(c, p) /\ UNCHANGED <<expired, ended>> /\ Running
      /\ o.thread = "parsing" /\ "success" \in parse(o)
      /\ wanted = Guarded => TokenOf(o, Guarded) \notin expired
  BY DEF admit, Parsing
<1>2. /\ o \in Connections /\ ConnOK(o, expired) /\ Kept(o) /\ o.from < o.to
  BY ThisConnection, SomethingToParse DEF admit
<1> HIDE DEF o
<1>3. wanted # {} => Presenting(o, wanted) # {}
  BY <1>1, <1>2, Succeeds
<1> HIDE DEF wanted
<1>4. token \in Tokens \cup {Null}
  <2>1. CASE wanted # {}
    <3>1. PICK k \in Presenting(o, wanted) : TokenOf(o, wanted) = o.stream[k].token
      BY <1>2, <1>3, <2>1, FirstPresented
    <3>2. k \in DOMAIN o.stream
      BY DEF Presenting, WithHeaders
    <3> QED
      BY <1>2, <2>1, <3>1, <3>2, Kinds
  <2> QED
    BY <2>1
<1>5. Asked(o).target \in Guarded =>
         TokenOf(o, Guarded) \notin expired /\ token = TokenOf(o, Guarded)
  BY <1>1 DEF wanted, Wanted
<1> HIDE DEF token
<1>6. /\ p \in Connections /\ p.thread = "working" /\ p.stream = o.stream
      /\ p.from = o.from /\ p.to = o.to /\ p.token = token /\ History(p) = History(o)
  BY <1>2, <1>4 DEF Connections, History
<1> HIDE DEF p
<1>7. ConnOK(p, expired)
  BY <1>1, <1>2, <1>5, <1>6, AdmitConn
<1> QED
  BY <1>1, <1>6, <1>7, OneConnection

(* A branch of the switches that is done with the request at hand.         *)
LEMMA WorkStep ==
    ASSUME AuthInv, NEW c \in Conns, Working(c),
           NEW status \in Nat, NEW performed \in BOOLEAN, NEW session \in BOOLEAN, NEW p,
           LET q == IF performed THEN Perform(conn[c]) ELSE conn[c]
           IN  p = Answer(q, status) \/ p = [Answer(q, status) EXCEPT !.session = session],
           status = 200 /\ Asked(conn[c]).target \in Inserting => performed,
           status \in {400, 401} => ~performed,
           Become(c, p), UNCHANGED <<expired, ended>>
    PROVE  AuthInv'
<1> DEFINE o == conn[c]
<1>1. /\ \/ p = Answer(IF performed THEN Perform(o) ELSE o, status)
         \/ p = [Answer(IF performed THEN Perform(o) ELSE o, status)
                    EXCEPT !.session = session]
      /\ status = 200 /\ Asked(o).target \in Inserting => performed
      /\ o.thread = "working" /\ Running
  BY DEF Working
<1>2. o \in Connections /\ ConnOK(o, expired)
  BY ThisConnection
<1> HIDE DEF o
<1>3. p \in Connections /\ ConnOK(p, expired)
  BY <1>1, <1>2, AnswerStep
<1> QED
  BY <1>1, <1>3, OneConnection

(* A branch that does nothing but answer.                                  *)
LEMMA ReplyStep ==
    ASSUME AuthInv, NEW c \in Conns, Working(c), NEW status \in Nat, NEW session \in BOOLEAN,
           \/ Become(c, Answer(conn[c], status))
           \/ Become(c, [Answer(conn[c], status) EXCEPT !.session = session]),
           status = 200 => Asked(conn[c]).target \notin Inserting,
           UNCHANGED <<expired, ended>>
    PROVE  AuthInv'
<1>1. PICK p : /\ Become(c, p)
               /\ \/ p = Answer(conn[c], status)
                  \/ p = [Answer(conn[c], status) EXCEPT !.session = session]
  OBVIOUS
<1> DEFINE performed == FALSE
           q == IF performed THEN Perform(conn[c]) ELSE conn[c]
<1>2. performed \in BOOLEAN /\ ~performed /\ q = conn[c]
  OBVIOUS
<1>3. p = Answer(q, status) \/ p = [Answer(q, status) EXCEPT !.session = session]
  BY <1>1, <1>2
<1> HIDE DEF performed
<1> QED
  BY <1>1, <1>2, <1>3, WorkStep

(* answer: neither OPTIONS nor getId is to take effect. *)
LEMMA AnswerOnlyStep ==
    ASSUME AuthInv, NEW c \in Conns, answer(c)
    PROVE  AuthInv'
<1>1. Working(c) /\ UNCHANGED <<expired, ended>>
  BY DEF answer
<1>2. PICK status \in {200, 204}, session \in BOOLEAN :
         /\ Asked(conn[c]).target \in {"options", "getId"}
         /\ \/ Become(c, Answer(conn[c], status))
            \/ Become(c, [Answer(conn[c], status) EXCEPT !.session = session])
  BY DEF answer
<1>3. Asked(conn[c]).target \notin Inserting /\ status \in Nat
  BY <1>2 DEF Inserting
<1> QED
  BY <1>1, <1>2, <1>3, ReplyStep

(* succeed: what is inserted takes effect, the rest may. *)
LEMMA SucceedStep ==
    ASSUME AuthInv, NEW c \in Conns, succeed(c)
    PROVE  AuthInv'
<1>1. Working(c) /\ UNCHANGED <<expired, ended>>
  BY DEF succeed
<1>2. PICK performed \in BOOLEAN :
         /\ ~performed => Asked(conn[c]).target \notin Inserting
         /\ Become(c, Answer(IF performed THEN Perform(conn[c]) ELSE conn[c], 200))
  BY DEF succeed
<1> QED
  BY <1>1, <1>2, WorkStep

(* What a failed call is answered with. *)
LEMMA Statuses ==
    /\ DOMAIN FailedStatus = {"login", "getNewToken", "registration", "update",
                              "makeFriend", "deleteFriend", "read"}
    /\ DOMAIN RefusedStatus = DOMAIN FailedStatus
    /\ \A t \in DOMAIN FailedStatus :
          FailedStatus[t] \cup RefusedStatus[t] \subseteq {400, 401, 404, 500}
    /\ \A t \in Effectful : FailedStatus[t] \subseteq {404, 500}
BY DEF FailedStatus, RefusedStatus, Effectful, Inserting, Matching

(* fail: nothing takes effect, and no answer says it did. *)
LEMMA FailStep ==
    ASSUME AuthInv, NEW c \in Conns, fail(c)
    PROVE  AuthInv'
<1> DEFINE target == Asked(conn[c]).target
<1>1. /\ Working(c) /\ UNCHANGED <<expired, ended>> /\ target \in DOMAIN FailedStatus
      /\ \/ \E status \in RefusedStatus[target] : Become(c, Answer(conn[c], status))
         \/ \E status \in FailedStatus[target],
               session \in {conn[c].session} \cup (IF "database" \in Faults
                                                   THEN {FALSE} ELSE {}) :
               Become(c, [Answer(conn[c], status) EXCEPT !.session = session])
  BY DEF fail
<1>2. conn[c].session \in BOOLEAN
  BY ThisConnection DEF Connections
<1>3. PICK status \in FailedStatus[target] \cup RefusedStatus[target], session \in BOOLEAN :
         \/ Become(c, Answer(conn[c], status))
         \/ Become(c, [Answer(conn[c], status) EXCEPT !.session = session])
  <2>1. CASE \E status \in RefusedStatus[target] : Become(c, Answer(conn[c], status))
    BY <2>1
  <2>2. CASE \E status \in FailedStatus[target], session \in BOOLEAN :
                Become(c, [Answer(conn[c], status) EXCEPT !.session = session])
    BY <2>2
  <2> QED
    BY <1>1, <1>2, <2>1, <2>2
<1>4. status \in Nat /\ status # 200
  BY <1>1, Statuses
<1> QED
  BY <1>1, <1>3, <1>4, ReplyStep

(* inDoubt: something takes effect, and no answer says it did not. *)
LEMMA InDoubtStep ==
    ASSUME AuthInv, NEW c \in Conns, inDoubt(c)
    PROVE  AuthInv'
<1> DEFINE target == Asked(conn[c]).target
<1>1. /\ Working(c) /\ UNCHANGED <<expired, ended>> /\ target \in Effectful
  BY DEF inDoubt
<1>2. PICK status \in FailedStatus[target] :
         Become(c, [Answer(Perform(conn[c]), status) EXCEPT !.session = FALSE])
  BY DEF inDoubt
<1>3. status \in Nat /\ status \notin {200, 400, 401}
  <2>1. status \in {404, 500}
    BY <1>1, Statuses
  <2> QED
    BY <2>1
<1> QED
  BY <1>1, <1>2, <1>3, WorkStep

(* Every step of the server and of its clients keeps every connection in   *)
(* order.                                                                  *)
LEMMA NextAuth ==
    ASSUME AuthInv, [Next]_vars
    PROVE  AuthInv'
<1>1. CASE UNCHANGED vars
  BY <1>1 DEF vars, AuthInv, TypeOK, OnlyInputEnds
<1>2. ASSUME NEW c \in Conns, waitForNewConnection(c) PROVE AuthInv'
  BY <1>2, AcceptStep
<1>3. ASSUME NEW c \in Conns, Thread(c) PROVE AuthInv'
  BY <1>3, RunStep, RecvStep, RecvEndStep, RecvErrorStep, NotFullStep, DiscardStep,
     ParseThrowsStep, RefuseStep, AdmitStep, AnswerOnlyStep, SucceedStep, FailStep,
     InDoubtStep DEF Thread
<1>4. ASSUME NEW c \in Conns, NEW r \in Requests, send(c, r) PROVE AuthInv'
  BY <1>4, SendStep
<1>5. ASSUME NEW c \in Conns, NEW how \in {"closing", "reset"}, close(c, how) PROVE AuthInv'
  BY <1>5, CloseStep
<1>6. ASSUME NEW t \in Tokens, expire(t) PROVE AuthInv'
  BY <1>6, ExpireStep
<1> QED
  BY <1>1, <1>2, <1>3, <1>4, <1>5, <1>6 DEF Next

(* Before the first connection everything is in order. *)
LEMMA InitAuth ==
    ASSUME Init
    PROVE  AuthInv
<1> DEFINE o == NoConnection
<1>1. /\ o \in Connections /\ o.thread = "none" /\ o.stream = <<>> /\ o.from = 0 /\ o.to = 0
      /\ o.replies = <<>> /\ o.done = <<>>
  BY EmptySeq DEF NoConnection, Connections
<1>2. conn = [c \in Conns |-> o] /\ expired \subseteq Tokens /\ ended = "no"
  BY DEF Init
<1> HIDE DEF o
<1>3. End(o) = 0 /\ Kept(o) /\ Staged(o)
  BY <1>1 DEF Kept, Staged, End, CanCut
<1>4. ConnOK(o, expired)
  <2>1. DOMAIN o.replies = {} /\ DOMAIN o.done = {} /\ Len(o.replies) = 0 /\ Len(o.stream) = 0
    BY <1>1
  <2>2. /\ Replied(o, expired) /\ Performed(o) /\ Truthful(o) /\ ForGood(o)
    BY <2>1 DEF Replied, Performed, Truthful, ForGood, Sends
  <2>3. Waiting(o)
    BY <1>1, <2>1 DEF Waiting, InStep, Answered, Sent
  <2> QED
    BY <1>3, <2>2, <2>3 DEF ConnOK, LockStep
<1>5. TypeOK
  BY <1>1, <1>2, <1>3 DEF TypeOK
<1>6. OnlyInputEnds
  BY <1>2 DEF OnlyInputEnds
<1> QED
  BY <1>2, <1>4, <1>5, <1>6 DEF AuthInv

-----------------------------------------------------------------------------
(* The inductive invariant: every connection's buffer, answers and effects *)
(* are in order, whatever the others, the database and the clients do.     *)
THEOREM AuthInvariant == Spec => []AuthInv
<1>1. Init => AuthInv
  BY InitAuth
<1>2. AuthInv /\ [Next]_vars => AuthInv'
  BY NextAuth
<1> QED
  BY <1>1, <1>2, PTL DEF Spec

(* Connections are of their kind and a buffer is a part of the stream that *)
(* was received, for any number of clients and streams of any length.      *)
THEOREM TypeCorrect == Spec => []TypeOK
<1>1. AuthInv => TypeOK
  BY DEF AuthInv
<1> QED
  BY <1>1, AuthInvariant, PTL

(* A client in lock-step gets no answer but a 401 that belongs to another  *)
(* request than its last: run answers the head of the buffer and clears    *)
(* it, and in all four states a lock-step connection can be in, the head   *)
(* is the next request, or nothing but 401 comes any more.                 *)
THEOREM AnswersRight == Spec => []RightAnswer
<1>1. AuthInv => RightAnswer
  BY DEF AuthInv, ConnOK, LockStep, Waiting, PostRefused, Lost, GetRefused, InStep, RightAnswer
<1> QED
  BY <1>1, AuthInvariant, PTL

(* Requests take effect in order and at most once: what has taken effect   *)
(* has been cleared away, and what is worked on has not.                   *)
THEOREM EffectsInOrder == Spec => []InOrder
<1>1. AuthInv => InOrder
  BY DEF AuthInv, ConnOK, Performed, InOrder
<1> QED
  BY <1>1, AuthInvariant, PTL

(* After 200 a user is registered and a friend made, after 400 and 401     *)
(* nothing has changed, nor does it later: a refused request never gets    *)
(* past parse or checkAccesstoken again.                                   *)
THEOREM AnswersTruthful == Spec => []AnswerTellsTruth
<1>1. AuthInv => AnswerTellsTruth
  BY DEF AuthInv, ConnOK, Truthful, AnswerTellsTruth
<1> QED
  BY <1>1, AuthInvariant, PTL

(* A request takes effect under its own token, if it has one.              *)
THEOREM TokensOwn == Spec => []OwnToken
<1>1. AuthInv => OwnToken
  BY DEF AuthInv, ConnOK, Performed, OwnOf, OwnToken
<1> QED
  BY <1>1, AuthInvariant, PTL

(* A refused request gets no answer but 401, however often it is parsed    *)
(* again: behind a POST there is something then, which is an error, and    *)
(* the search for a GET's token finds the refused one every time, since    *)
(* what comes behind it is found only where there is none before.          *)
THEOREM RefusalsFinal == Spec => []RefusedForGood
<1>1. AuthInv => RefusedForGood
  BY DEF AuthInv, ConnOK, ForGood, RefusedForGood
<1> QED
  BY <1>1, AuthInvariant, PTL

(* When a client in lock-step has no answer to wait for, its request was   *)
(* cleared away for one of three reasons.                                  *)
THEOREM WaitsAllExplained == Spec => []WaitsExplained
<1>1. ASSUME AuthInv, ~Pipelining, NEW c \in Conns, conn[c].thread = "reading",
             conn[c].to = End(conn[c]), Answered(conn[c]) < Sent(conn[c])
      PROVE  Explained(conn[c])
  <2> DEFINE o == conn[c]
  <2>1. /\ o \in Connections /\ Kept(o) /\ LockStep(o, expired)
        /\ o.thread = "reading" /\ o.to = End(o) /\ Answered(o) < Sent(o)
    BY <1>1, ThisConnection DEF ConnOK
  <2> HIDE DEF o
  <2>2. /\ Answered(o) \in Nat /\ Sent(o) \in Nat /\ End(o) = 4 * Sent(o)
        /\ o.from \in Nat /\ o.to \in Nat
    BY <2>1, Fields DEF Answered, Sent, End
  <2>3. CASE Waiting(o)
    BY <2>1, <2>2, <2>3 DEF Waiting
  <2>4. CASE PostRefused(o)
    BY <2>1, <2>2, <2>4 DEF PostRefused
  <2>5. CASE Lost(o)
    BY <2>5 DEF Lost, o
  <2>6. CASE GetRefused(o, expired)
    BY <2>1, <2>2, <2>6 DEF GetRefused
  <2> QED
    BY <2>1, <2>3, <2>4, <2>5, <2>6 DEF LockStep
<1>2. AuthInv => WaitsExplained
  BY <1>1, Zenon DEF WaitsExplained, Explained, Answered, Sent
<1> QED
  BY <1>2, AuthInvariant, PTL

(* Only a request without a token or that cannot be parsed, and a client's *)
(* reset, end the process: a request that throws for want of a token has   *)
(* been received whole, and with a token of its own it would have found    *)
(* one.                                                                    *)
THEOREM InputsOnlyEnd == Spec => []OnlyInputEnds
<1>1. AuthInv => OnlyInputEnds
  BY DEF AuthInv
<1> QED
  BY <1>1, AuthInvariant, PTL
=============================================================================
