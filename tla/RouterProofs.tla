---------------------------- MODULE RouterProofs ----------------------------
(***************************************************************************)
(* That no handler is entered without a resolved caller, its scope and its *)
(* ownership; that a stranger is told; that a request is given to the      *)
(* handler it is meant for, with the object that takes, in the canonical   *)
(* model; that the outcome is told as it was; and that a request that is   *)
(* in order gets that far: for every set of modules, any number of flaws   *)
(* in a request, anything sent for something else, any errors and any      *)
(* tokens taken out of the store at any moment.                            *)
(***************************************************************************)
EXTENDS Router, SequenceTheorems, TLAPS

Resolved == peer # Unknown /\ peer.token = request.token

Admitted ==
    /\ MayAccess(peer.role, route.module)
    /\ route.addressed = "owned" => Owns(request)

(* From authentication on the caller is known, from the context on he is    *)
(* admitted, and what a handler returned is there only after both.          *)
GuardInv ==
    /\ at \in {"query", "body", "scope", "late", "handler"} => Resolved
    /\ at \in {"late", "handler"} => Admitted
    /\ handled # Pending => at \in {"reply", "client", "done"} /\ Resolved /\ Admitted

LEMMA GuardInit == Init => GuardInv
  BY DEF Init, GuardInv

(* A new request: no handler has returned anything yet.                     *)
LEMMA GuardSend ==
    ASSUME GuardInv, at = "idle", NEW r \in Requests, Send(r)
    PROVE  GuardInv'
<1>1. at' \in {"done", "edge", "route"} /\ handled' = handled
  BY DEF Send, Proceed, outcome
<1>2. handled = Pending
  BY DEF GuardInv
<1> QED
  BY <1>1, <1>2 DEF GuardInv

(* The edge and the match come before authentication.                       *)
LEMMA GuardBefore ==
    ASSUME GuardInv, EdgeIn \/ Match
    PROVE  GuardInv'
<1>1. at \in {"edge", "route"} /\ at' \in {"route", "client", "reply", "auth"}
  BY DEF EdgeIn, Match, MatchTo, Proceed, Sends
<1>2. handled' = handled
  BY DEF EdgeIn, Match, MatchTo, Proceed, Sends, outcome
<1>3. handled = Pending
  BY <1>1 DEF GuardInv
<1> QED
  BY <1>1, <1>2, <1>3 DEF GuardInv

(* What Lookup returns for a token is nobody, or a peer under that token.   *)
LEMMA LookupFinds ==
    ASSUME NEW token, Lookup(token) # Unknown
    PROVE  Lookup(token).token = token
  BY DEF Lookup

LEMMA GuardAuthenticate ==
    ASSUME GuardInv, Authenticate
    PROVE  GuardInv'
<1>1. handled = Pending /\ handled' = handled
  BY DEF Authenticate, GuardInv, Refuse, Sends, Proceed, outcome
<1>2. CASE peer' = Unknown
  BY <1>1, <1>2 DEF Authenticate, Refuse, Sends, GuardInv
<1>3. CASE peer' # Unknown
  <2>1. peer'.token = request'.token
    BY <1>3, LookupFinds DEF Authenticate
  <2> QED
    BY <1>1, <1>3, <2>1 DEF Authenticate, Proceed, GuardInv, Resolved
<1> QED
  BY <1>2, <1>3

(* The extractors keep the peer, and what they refuse no handler has seen.  *)
LEMMA GuardExtract ==
    ASSUME GuardInv, ReadQuery \/ ReadBody
    PROVE  GuardInv'
<1>1. at \in {"query", "body"} /\ at' \in {"body", "scope", "reply"}
  BY DEF ReadQuery, ReadBody, Proceed, Refuse, Sends
<1>2. UNCHANGED <<request, route, peer, handled>>
  BY DEF ReadQuery, ReadBody, Proceed, Refuse, Sends, outcome
<1>3. handled' = Pending
  BY <1>1, <1>2 DEF GuardInv
<1>4. Resolved'
  BY <1>1, <1>2 DEF GuardInv, Resolved
<1> QED
  BY <1>1, <1>3, <1>4 DEF GuardInv

(* context_of and owned_context admit, or refuse.                           *)
LEMMA GuardContext ==
    ASSUME GuardInv, EnterContext
    PROVE  GuardInv'
<1>1. UNCHANGED <<request, route, peer, handled>> /\ handled = Pending
  BY DEF EnterContext, GuardInv, Refuse, Sends, Proceed, outcome
<1>2. Resolved'
  BY <1>1 DEF EnterContext, GuardInv, Resolved
<1>3. CASE Guard # Ok
  BY <1>1, <1>3 DEF EnterContext, Refuse, Sends, GuardInv
<1>4. CASE Guard = Ok
  <2>1. Admitted /\ at' = "late"
    BY <1>4 DEF EnterContext, Proceed, Guard, Admitted, Ok, Err, None
  <2>2. Admitted'
    BY <1>1, <2>1 DEF Admitted, Owns
  <2> QED
    BY <1>1, <1>2, <2>1, <2>2 DEF GuardInv
<1> QED
  BY <1>3, <1>4

(* The handler runs for whom the context admitted.                          *)
LEMMA GuardHandler ==
    ASSUME GuardInv, EnterHandler \/ Handle
    PROVE  GuardInv'
<1>1. Resolved /\ Admitted /\ UNCHANGED <<request, route, peer>>
  BY DEF EnterHandler, Handle, GuardInv
<1>2. Resolved' /\ Admitted'
  BY <1>1 DEF Resolved, Admitted, Owns
<1>3. CASE EnterHandler
  <2>1. handled' = Pending
    BY <1>3 DEF EnterHandler, GuardInv, Refuse, Sends, Proceed, outcome
  <2> QED
    BY <1>2, <2>1 DEF GuardInv
<1>4. CASE Handle
  BY <1>2, <1>4 DEF Handle, GuardInv
<1> QED
  BY <1>3, <1>4

(* The answer is translated, replaced and read: what the handler returned   *)
(* is not touched.                                                          *)
LEMMA GuardAnswer ==
    ASSUME GuardInv, EdgeOut \/ Receive
    PROVE  GuardInv'
<1>1. at' \in {"client", "done"} /\ UNCHANGED <<request, route, peer, handled>>
  BY DEF EdgeOut, Receive, Sends, Proceed, outcome
<1>2. (Resolved <=> Resolved') /\ (Admitted <=> Admitted')
  BY <1>1 DEF Resolved, Admitted, Owns
<1> QED
  BY <1>1, <1>2 DEF GuardInv

LEMMA GuardStep == GuardInv /\ [Next]_vars => GuardInv'
<1> SUFFICES ASSUME GuardInv, [Next]_vars PROVE GuardInv'
  OBVIOUS
<1>1. CASE at = "idle" /\ \E r \in Requests : Send(r)
  BY <1>1, GuardSend
<1>2. CASE EdgeIn \/ Match
  BY <1>2, GuardBefore
<1>3. CASE Authenticate
  BY <1>3, GuardAuthenticate
<1>4. CASE ReadQuery \/ ReadBody
  BY <1>4, GuardExtract
<1>5. CASE EnterContext
  BY <1>5, GuardContext
<1>6. CASE EnterHandler \/ Handle
  BY <1>6, GuardHandler
<1>7. CASE EdgeOut \/ Receive
  BY <1>7, GuardAnswer
<1>8. CASE Close
  BY <1>8 DEF Close, GuardInv
<1>9. CASE \E t \in Tokens : Revoke(t)
  BY <1>9 DEF Revoke, GuardInv, Resolved, Admitted, Owns, outcome
<1>10. CASE UNCHANGED vars
  BY <1>10 DEF vars, GuardInv, Resolved, Admitted, Owns
<1> QED
  BY <1>1, <1>2, <1>3, <1>4, <1>5, <1>6, <1>7, <1>8, <1>9, <1>10 DEF Next

(* A handler is entered only for a peer the store knew, within the scope of *)
(* its token and, where the path names an owner, for the owner: whatever    *)
(* the request carries and whenever tokens are revoked.                     *)
THEOREM GuardedHandlers == Spec => []Guarded
<1>1. GuardInv => Guarded
  BY DEF GuardInv, Guarded, Resolved, Admitted
<1> QED
  BY <1>1, GuardInit, GuardStep, PTL DEF Spec
-----------------------------------------------------------------------------
(* A stranger gets no further than authentication.                          *)

Refusal == answer.http \in {401, 404, 405}

EdgeRefusal == Bridging(server.version) /\ route = NoRoute /\ answer.code # NoCode

(* The store never learns of him, so where he is, nothing has been answered *)
(* or a refusal has, which carries no data for the edge to translate.       *)
StrangerInv ==
    /\ \A e \in store : e.token # "stranger"
    /\ at \in {"idle", "edge", "route"} => route = NoRoute /\ answer = NoAnswer
    /\ at = "edge" => Bridging(server.version)
    /\ request.token = "stranger" =>
        CASE at \in {"edge", "route", "auth"} -> answer = NoAnswer
          [] at = "reply" -> Refusal /\ answer.data.is = None
          [] at \in {"client", "done"} -> answer = NoAnswer \/ Refusal \/ EdgeRefusal
          [] OTHER -> at = "idle"

LEMMA StrangerInit == Init => StrangerInv
  BY DEF Init, StrangerInv, Entry

LEMMA StrangerSend ==
    ASSUME StrangerInv, at = "idle", NEW r \in Requests, Send(r)
    PROVE  StrangerInv'
<1>1. /\ at' \in {"done", "edge", "route"} /\ (at' = "edge" => Bridging(server.version))
      /\ UNCHANGED <<server, store, route, answer>>
  BY DEF Send, Proceed, outcome
<1>2. answer' = NoAnswer /\ route' = NoRoute
  BY <1>1 DEF StrangerInv
<1> QED
  BY <1>1, <1>2 DEF StrangerInv

(* What a translating router refuses at its edge, it refuses with a code.   *)
LEMMA StrangerEdge ==
    ASSUME StrangerInv, EdgeIn
    PROVE  StrangerInv'
<1>1. /\ at = "edge" /\ UNCHANGED <<server, store, request, route>>
      /\ Bridging(server.version) /\ route = NoRoute /\ answer = NoAnswer
  BY DEF EdgeIn, StrangerInv
<1>2. CASE at' = "route" /\ answer' = answer
  BY <1>1, <1>2 DEF StrangerInv
<1>3. CASE at' = "client" /\ answer'.code # NoCode
  BY <1>1, <1>3 DEF StrangerInv, EdgeRefusal
<1>4. ASSUME NEW error, error \in {"MalformedJson", "Unsupported", "Decode"},
             Sends("client", ErrorResponse(Err(error)))
      PROVE  at' = "client" /\ answer'.code # NoCode
  BY <1>4 DEF Sends, ErrorResponse, Err, StatusCode, InvalidParameters, ServerError, NoCode
<1>5. ASSUME Proceed("route") PROVE at' = "route" /\ answer' = answer
  BY <1>5 DEF Proceed, outcome
<1> QED
  BY <1>2, <1>3, <1>4, <1>5 DEF EdgeIn

LEMMA StrangerMatch ==
    ASSUME StrangerInv, Match
    PROVE  StrangerInv'
<1>1. /\ at = "route" /\ UNCHANGED <<server, store, request>> /\ answer = NoAnswer
  BY DEF Match, MatchTo, StrangerInv
<1>2. \/ at' = "auth" /\ answer' = answer
      \/ at' = "reply" /\ answer' \in {Bounced(404), Bounced(405)}
  BY DEF Match, MatchTo, Proceed, Sends, outcome
<1>3. ASSUME NEW http \in {404, 405}, answer' = Bounced(http)
      PROVE  Refusal' /\ answer'.data.is = None
  BY <1>3 DEF Refusal, Bounced, NoDoc, Doc
<1> QED
  BY <1>1, <1>2, <1>3 DEF StrangerInv

(* Nobody is found under a token the store does not have.                   *)
LEMMA StrangerAuthenticate ==
    ASSUME StrangerInv, Authenticate
    PROVE  StrangerInv'
<1>1. at = "auth" /\ UNCHANGED <<server, store, request, route>>
  BY DEF Authenticate
<1>2. at' \in {"reply", "query"}
  BY DEF Authenticate, Refuse, Sends, Proceed
<1>3. ASSUME request.token = "stranger"
      PROVE  at' = "reply" /\ Refusal' /\ answer'.data.is = None
  <2>1. Lookup(request.token) = Unknown
    BY <1>3 DEF Lookup, StrangerInv
  <2>2. Refuse(Err("Unauthorized"))
    BY <2>1 DEF Authenticate
  <2> QED
    BY <2>2 DEF Refuse, Sends, ErrorResponse, HttpStatus, Err, Refusal, NoDoc, Doc
<1> QED
  BY <1>1, <1>2, <1>3 DEF StrangerInv

(* Further on, the caller is no stranger.                                   *)
LEMMA StrangerWithin ==
    ASSUME StrangerInv, ReadQuery \/ ReadBody \/ EnterContext \/ EnterHandler \/ Handle
    PROVE  StrangerInv'
<1>1. /\ at \in {"query", "body", "scope", "late", "handler"}
      /\ at' \in {"body", "scope", "late", "handler", "reply"}
      /\ UNCHANGED <<server, store, request, route>>
  BY DEF ReadQuery, ReadBody, EnterContext, EnterHandler, Handle, Refuse, Sends, Proceed
<1>2. request.token # "stranger"
  BY <1>1 DEF StrangerInv
<1> QED
  BY <1>1, <1>2 DEF StrangerInv

(* An answer without data passes the edge as it is.                         *)
LEMMA StrangerAnswer ==
    ASSUME StrangerInv, EdgeOut \/ Receive
    PROVE  StrangerInv'
<1>1. /\ at' \in {"client", "done"} /\ UNCHANGED <<server, store, request, route>>
  BY DEF EdgeOut, Receive, Sends, Proceed
<1>2. ASSUME request.token = "stranger"
      PROVE  answer' = NoAnswer \/ Refusal' \/ EdgeRefusal'
  <2>1. CASE EdgeOut
    <3>1. Refusal /\ answer' = answer
      BY <1>2, <2>1 DEF EdgeOut, StrangerInv, Proceed, outcome
    <3> QED
      BY <3>1 DEF Refusal
  <2>2. CASE Receive
    <3>1. answer' = answer /\ (answer = NoAnswer \/ Refusal \/ EdgeRefusal)
      BY <1>2, <2>2 DEF Receive, StrangerInv
    <3> QED
      BY <1>1, <3>1 DEF Refusal, EdgeRefusal
  <2> QED
    BY <2>1, <2>2
<1> QED
  BY <1>1, <1>2 DEF StrangerInv

LEMMA StrangerStep == StrangerInv /\ [Next]_vars => StrangerInv'
<1> SUFFICES ASSUME StrangerInv, [Next]_vars PROVE StrangerInv'
  OBVIOUS
<1>1. CASE at = "idle" /\ \E r \in Requests : Send(r)
  BY <1>1, StrangerSend
<1>2. CASE EdgeIn
  BY <1>2, StrangerEdge
<1>3. CASE Match
  BY <1>3, StrangerMatch
<1>4. CASE Authenticate
  BY <1>4, StrangerAuthenticate
<1>5. CASE ReadQuery \/ ReadBody \/ EnterContext \/ EnterHandler \/ Handle
  BY <1>5, StrangerWithin
<1>6. CASE EdgeOut \/ Receive
  BY <1>6, StrangerAnswer
<1>7. CASE Close
  BY <1>7 DEF Close, StrangerInv
<1>8. CASE \E t \in Tokens : Revoke(t)
  BY <1>8 DEF Revoke, StrangerInv, Refusal, EdgeRefusal, outcome
<1>9. CASE UNCHANGED vars
  BY <1>9 DEF vars, StrangerInv, Refusal, EdgeRefusal
<1> QED
  BY <1>1, <1>2, <1>3, <1>4, <1>5, <1>6, <1>7, <1>8, <1>9 DEF Next

(* A caller nobody knows is told that, or that nothing is there to know, or *)
(* is refused by the edge of a translating router before anybody asks who   *)
(* he is: whatever is mounted and whatever he sends.                        *)
THEOREM StrangersAreTold == Spec => []StrangersTold
<1>1. StrangerInv => StrangersTold
  BY DEF StrangerInv, StrangersTold, Refusal, EdgeRefusal
<1> QED
  BY <1>1, StrangerInit, StrangerStep, PTL DEF Spec

-----------------------------------------------------------------------------
(* What the answer to an error says, and what is read from it.              *)

(* The statuses an error is answered with are read as errors of the same    *)
(* class.                                                                   *)
LEMMA StatusIsRead ==
    ASSUME NEW error, HttpStatus(error) # 200
    PROVE  StatusCode(ReadError(HttpStatus(error))) = StatusCode(error)
<1>1. CASE error.is = "MalformedJson"
  BY <1>1 DEF HttpStatus, ReadError, StatusCode, Err
<1>2. CASE error.is \in {"Unauthorized", "TokenAOutOfScope"}
  BY <1>2 DEF HttpStatus, ReadError, StatusCode, Err
<1>3. CASE error.is = "NotFound"
  BY <1>3 DEF HttpStatus, ReadError, StatusCode, Err
<1>4. CASE error.is = "MethodNotAllowed"
  BY <1>4 DEF HttpStatus, ReadError, StatusCode, Err
<1>5. CASE error.is \notin {"MalformedJson", "Unauthorized", "TokenAOutOfScope", "NotFound",
                           "MethodNotAllowed"}
  BY <1>5 DEF HttpStatus
<1> QED
  BY <1>1, <1>2, <1>3, <1>4, <1>5

(* An error answered by a server is read by a client as one with the same   *)
(* status code, whatever the call wants: the mapping of envelope.rs and the *)
(* one of client/http.rs agree, unless a handler makes an error of a        *)
(* success code.                                                            *)
THEOREM ErrorsAreRead ==
    ASSUME NEW error, ~IsSuccess(StatusCode(error)), NEW wants, NEW fits
    PROVE  StatusCode(Outcome(ErrorResponse(error), wants, fits)) = StatusCode(error)
<1> DEFINE sent == ErrorResponse(error)
<1>1. sent.data = NoDoc /\ sent.code = StatusCode(error) /\ sent.http = HttpStatus(error)
  BY DEF ErrorResponse
<1>2. HttpStatus(error) \in {200, 400, 401, 404, 405}
  BY DEF HttpStatus
<1>3. CASE HttpStatus(error) = 200
  <2>1. Outcome(sent, wants, fits) = Remote(StatusCode(error))
    BY <1>1, <1>3 DEF Outcome, IntoResult, ExpectSuccess
  <2> QED
    BY <2>1 DEF StatusCode, Remote
<1>4. CASE HttpStatus(error) # 200
  <2>1. Outcome(sent, wants, fits) = ReadError(HttpStatus(error))
    BY <1>1, <1>2, <1>4 DEF Outcome
  <2> QED
    BY <1>4, <2>1, StatusIsRead
<1> QED
  BY <1>3, <1>4

-----------------------------------------------------------------------------
(* Sequences that fit.                                                     *)

(* Fitting does not depend on what a pattern and a path have in common.      *)
LEMMA FitsBelow ==
    ASSUME NEW S, NEW base \in Seq(S), NEW pattern \in Seq(S), NEW path \in Seq(S),
           R!Fits(base \o pattern, base \o path)
    PROVE  R!Fits(pattern, path)
<1> DEFINE n == Len(base)
           p == base \o pattern
           q == base \o path
<1>1. n \in Nat /\ Len(pattern) \in Nat /\ Len(path) \in Nat
      /\ Len(p) = n + Len(pattern) /\ Len(q) = n + Len(path) /\ DOMAIN q = 1..(n + Len(path))
      /\ DOMAIN path = 1..Len(path)
  OBVIOUS
<1>2. (\A i \in 1..Len(pattern) : p[n + i] = pattern[i])
      /\ (\A i \in 1..Len(path) : q[n + i] = path[i])
  OBVIOUS
<1> HIDE DEF p, q
<1>3. Len(p) = Len(q) /\ \A i \in DOMAIN q : p[i] = q[i] \/ (p[i] = R!Id /\ q[i] # "")
  BY Zenon DEF R!Fits, p, q
<1>4. Len(pattern) = Len(path)
  <2> DEFINE a == Len(pattern)
             b == Len(path)
  <2>1. n \in Nat /\ a \in Nat /\ b \in Nat /\ n + a = n + b
    BY Zenon, <1>1, <1>3
  <2> HIDE DEF n, a, b
  <2>2. a = b
    BY <2>1
  <2> QED
    BY <2>2 DEF a, b
<1>5. \A i \in 1..Len(path) : pattern[i] = path[i] \/ (pattern[i] = R!Id /\ path[i] # "")
  <2> SUFFICES ASSUME NEW i \in 1..Len(path)
               PROVE  pattern[i] = path[i] \/ (pattern[i] = R!Id /\ path[i] # "")
    OBVIOUS
  <2>1. n + i \in DOMAIN q
    BY <1>1
  <2>2. p[n + i] = pattern[i] /\ q[n + i] = path[i]
    BY <1>2, <1>4
  <2> QED
    BY Zenon, <1>3, <2>1, <2>2
<1> QED
  BY Zenon, <1>1, <1>4, <1>5 DEF R!Fits

LEMMA FirstFits ==
    ASSUME NEW S, NEW m \in S, NEW k \in S, NEW x \in Seq(S), NEW y \in Seq(S), m # R!Id,
           R!Fits(<<m>> \o x, <<k>> \o y)
    PROVE  m = k
<1> DEFINE p == <<m>> \o x
           q == <<k>> \o y
<1>1. 1 \in DOMAIN q /\ p[1] = m /\ q[1] = k
  OBVIOUS
<1> HIDE DEF p, q
<1>2. p[1] = q[1] \/ p[1] = R!Id
  BY Zenon, <1>1 DEF R!Fits, p, q
<1> QED
  BY <1>1, <1>2

LEMMA SegmentsStay ==
    ASSUME NEW path, \A i \in DOMAIN path : path[i] # ""
    PROVE  Segments(path) = path
BY Zenon DEF Segments

(* A path below one more segment.                                           *)
LEMMA OneMore ==
    ASSUME NEW S, NEW m \in S, NEW x \in Seq(S)
    PROVE  /\ <<m>> \o x \in Seq(S) /\ <<m>> \o x # <<>>
           /\ Head(<<m>> \o x) = m /\ Tail(<<m>> \o x) = x
<1>1. <<m>> \in Seq(S)
  OBVIOUS
<1> QED
  BY <1>1

LEMMA StillWhole ==
    ASSUME NEW S, NEW e, NEW m \in S, m # e, NEW x \in Seq(S), \A i \in DOMAIN x : x[i] # e
    PROVE  \A i \in DOMAIN (<<m>> \o x) : (<<m>> \o x)[i] # e
<1> DEFINE p == <<m>> \o x
<1>0. DOMAIN x = 1..Len(x) /\ Len(x) \in Nat
  OBVIOUS
<1>a. <<m>> \in Seq(S) /\ Len(<<m>>) = 1
  OBVIOUS
<1>b. DOMAIN p = 1..(Len(x) + 1) /\ p[1] = m
  BY <1>a
<1>c. \A i \in 1..Len(x) : p[i + 1] = x[i]
  BY <1>a, <1>0
<1>1. DOMAIN p = 1..(Len(x) + 1) /\ p[1] = m /\ (\A i \in 1..Len(x) : p[i + 1] = x[i])
      /\ DOMAIN x = 1..Len(x) /\ Len(x) \in Nat
  BY <1>0, <1>b, <1>c
<1> HIDE DEF p
<1>2. SUFFICES ASSUME NEW i \in 1..(Len(x) + 1) PROVE p[i] # e
  BY <1>1 DEF p
<1>3. CASE i = 1
  BY <1>1, <1>3
<1>4. CASE i # 1
  <2>1. i - 1 \in 1..Len(x) /\ (i - 1) + 1 = i
    BY ONLY <1>1, <1>4, i \in 1..(Len(x) + 1)
  <2>2. p[(i - 1) + 1] = x[i - 1]
    BY <1>1, <2>1
  <2> QED
    BY <1>1, <2>1, <2>2
<1> QED
  BY <1>3, <1>4

(* The part of a request's path below the interface's URL.                  *)
Below(r) ==
    (IF r.call.under = None THEN <<>> ELSE <<r.call.under>>)
    \o (IF r.call.names THEN Parties[r.party] ELSE <<>>) \o r.call.sub

(* Every segment of a path.                                                 *)
Words ==
    {"", R!Id, "receiver", "versions", "credentials", "locations", "tokens", "cdrs", "sessions",
     "tariffs", "commands", "hubclientinfo", "chargingprofiles", "payments", "terminals",
     "financial-advice-confirmations", "activate", "deactivate", "authorize",
     "charging_preferences", "result", "active", "set", "clear", "NL", "TNM", "DE", "ABC",
     "TOOLONG", "LOC1", "3256", "1", "UID1", "S1", "T1", "P1", "F1", "1234", "START_SESSION",
     "RESERVE_NOW", "STOP_SESSION", "CANCEL_RESERVATION", "UNLOCK_CONNECTOR", "DANCE"}

LEMMA Singles ==
    ASSUME NEW S, NEW a \in S, NEW b \in S, NEW c \in S
    PROVE  /\ <<a>> \in Seq(S) /\ <<a, b>> \in Seq(S) /\ <<a, b, c>> \in Seq(S)
           /\ <<>> \in Seq(S)
  OBVIOUS

(* Three parts put together.                                                *)
LEMMA ThreeParts ==
    ASSUME NEW S, NEW x \in Seq(S), NEW y \in Seq(S), NEW z \in Seq(S)
    PROVE  /\ x \o y \o z \in Seq(S) /\ Len(x \o y \o z) = Len(x) + Len(y) + Len(z)
           /\ Len(x) = 0 /\ Len(y) = 0 => x \o y \o z = z
           /\ Len(x) = 1 => (x \o y \o z)[1] = x[1]
<1>1. x \o y \in Seq(S) /\ Len(x \o y) = Len(x) + Len(y)
  OBVIOUS
<1>2. ASSUME Len(x) = 0, Len(y) = 0 PROVE x \o y \o z = z
  <2>1. x = <<>> /\ y = <<>>
    BY <1>2
  <2> QED
    BY <2>1
<1>3. ASSUME Len(x) = 1 PROVE (x \o y \o z)[1] = x[1]
  BY <1>1, <1>3
<1> QED
  BY <1>1, <1>2, <1>3

LEMMA WholeParts ==
    ASSUME NEW S, NEW e, NEW x \in Seq(S), NEW y \in Seq(S),
           \A i \in DOMAIN x : x[i] # e, \A i \in DOMAIN y : y[i] # e
    PROVE  \A i \in DOMAIN (x \o y) : (x \o y)[i] # e
<1> DEFINE p == x \o y
           n == Len(x)
           k == Len(y)
<1>1. DOMAIN p = 1..(n + k) /\ n \in Nat /\ k \in Nat /\ DOMAIN x = 1..n /\ DOMAIN y = 1..k
  OBVIOUS
<1>2. (\A i \in 1..n : p[i] = x[i]) /\ (\A i \in 1..k : p[n + i] = y[i])
  OBVIOUS
<1> HIDE DEF p, n, k
<1>3. SUFFICES ASSUME NEW i \in 1..(n + k) PROVE p[i] # e
  BY <1>1 DEF p
<1>4. CASE i \in 1..n
  BY <1>1, <1>2, <1>4
<1>5. CASE i \notin 1..n
  <2>1. i - n \in 1..k /\ n + (i - n) = i
    BY ONLY <1>1, <1>5, i \in 1..(n + k)
  <2>2. p[n + (i - n)] = y[i - n]
    BY <1>2, <2>1
  <2> QED
    BY Zenon, <1>1, <2>1, <2>2
<1> QED
  BY <1>4, <1>5

LEMMA PartiesAre ==
    ASSUME NEW p \in {"own", "other", "bad"}
    PROVE  /\ Parties[p] \in Seq(Words) /\ Len(Parties[p]) = 2
           /\ \A i \in DOMAIN Parties[p] : Parties[p][i] # ""
<1>1. Parties[p] = <<"NL", "TNM">> \/ Parties[p] = <<"DE", "ABC">>
          \/ Parties[p] = <<"TOOLONG", "TNM">>
  BY DEF Parties
<1>2. ASSUME NEW a \in Words, NEW b \in Words, a # "", b # "", Parties[p] = <<a, b>>
      PROVE  /\ Parties[p] \in Seq(Words) /\ Len(Parties[p]) = 2
             /\ \A i \in DOMAIN Parties[p] : Parties[p][i] # ""
  <2>1. <<a, b>> \in Seq(Words)
    BY Singles
  <2>2. Len(<<a, b>>) = 2 /\ DOMAIN <<a, b>> = 1..2 /\ <<a, b>>[1] = a /\ <<a, b>>[2] = b
    OBVIOUS
  <2>3. \A i \in 1..2 : i = 1 \/ i = 2
    OBVIOUS
  <2>4. ASSUME NEW i \in DOMAIN Parties[p] PROVE Parties[p][i] # ""
    <3> DEFINE s == Parties[p]
    <3>1. i \in 1..2 /\ s[1] = a /\ s[2] = b
      BY Zenon, <1>2, <2>2
    <3> HIDE DEF s
    <3>2. i = 1 \/ i = 2
      BY <3>1
    <3>3. s[i] # ""
      BY Zenon, <1>2, <3>1, <3>2
    <3> QED
      BY Zenon, <3>3 DEF s
  <2>5. Parties[p] \in Seq(Words)
    BY Zenon, <1>2, <2>1
  <2>6. Len(Parties[p]) = 2
    BY Zenon, <1>2, <2>2
  <2> QED
    BY Zenon, <2>4, <2>5, <2>6
<1> QED
  <2>1. "NL" \in Words /\ "TNM" \in Words /\ "DE" \in Words /\ "ABC" \in Words
            /\ "TOOLONG" \in Words
    BY DEF Words
  <2>2. "NL" # "" /\ "TNM" # "" /\ "DE" # "" /\ "ABC" # "" /\ "TOOLONG" # ""
    OBVIOUS
  <2> QED
    BY Zenon, <1>1, <1>2, <2>1, <2>2

LEMMA OneOfMany ==
    ASSUME NEW X, NEW k, NEW r, r \in UNION {RequestsOf(call, k) : call \in X}
    PROVE  \E call \in X : r \in RequestsOf(call, k)
  OBVIOUS

LEMMA RequestIs ==
    ASSUME NEW r \in Requests
    PROVE  /\ r.call \in C!AllCalls \cup OtherCalls
           /\ r.kit => r.call \in C!AllCalls
           /\ <<r.call.module, r.call.role>> \in server.mounted
           /\ r.party \in {"own", "other", "bad"}
<1> DEFINE served == {c \in C!AllCalls : <<c.module, c.role>> \in server.mounted}
           anyone == {c \in C!AllCalls \cup OtherCalls : <<c.module, c.role>> \in server.mounted}
           kit == TRUE
           other == FALSE
<1>1. (\E call \in served : r \in RequestsOf(call, kit))
      \/ (\E call \in anyone : r \in RequestsOf(call, other))
  <2> DEFINE mine == UNION {RequestsOf(call, kit) : call \in served}
             theirs == UNION {RequestsOf(call, other) : call \in anyone}
  <2>1. r \in mine \cup theirs
    BY Zenon DEF Requests
  <2> HIDE DEF served, anyone, kit, other
  <2>2. r \in mine => \E call \in served : r \in RequestsOf(call, kit)
    BY OneOfMany
  <2>3. r \in theirs => \E call \in anyone : r \in RequestsOf(call, other)
    BY OneOfMany
  <2> HIDE DEF mine, theirs
  <2> QED
    BY <2>1, <2>2, <2>3
<1>2. \A call, k : r \in RequestsOf(call, k) =>
         r.call = call /\ r.kit = k /\ r.party \in {"own", "other", "bad"}
  <2> SUFFICES ASSUME NEW call, NEW k, r \in RequestsOf(call, k)
               PROVE  r.call = call /\ r.kit = k /\ r.party \in {"own", "other", "bad"}
    OBVIOUS
  <2>1. DOMAIN Parties = {"own", "other", "bad"}
    BY DEF Parties
  <2>2. r \in [call : {call}, kit : {k}, token : Tokens,
               party : IF ~call.names THEN {"own"} ELSE IF k THEN {"own",
                   "other"} ELSE DOMAIN Parties,
               flaws : SmallSets(IF k THEN FlawsOf(call) \cap {"unstamped", "diverges"}
                                 ELSE FlawsOf(call))]
    BY DEF RequestsOf
  <2>3. r.call = call /\ r.kit = k
    BY <2>2
  <2>4. r.party \in (IF ~call.names THEN {"own"} ELSE IF k THEN {"own",
            "other"} ELSE DOMAIN Parties)
    BY <2>2
  <2> QED
    BY <2>1, <2>3, <2>4
<1>a. kit # other
  OBVIOUS
<1> HIDE DEF kit, other
<1>3. r.call \in C!AllCalls \cup OtherCalls /\ (r.kit = kit => r.call \in C!AllCalls)
  BY Zenon, <1>1, <1>2, <1>a
<1>4. r.call \in served \cup anyone /\ r.party \in {"own", "other", "bad"}
  BY Zenon, <1>1, <1>2
<1> QED
  BY <1>3, <1>4 DEF kit, other

-----------------------------------------------------------------------------
(* The lines of the typed clients.                                         *)

(* Which table a module's calls are in.                                     *)
LEMMA ModulesOfCalls ==
  /\ \A c \in C!RegistrationCalls : c.module = "credentials"
  /\ \A c \in C!LocationsSenderCalls \cup C!LocationsReceiverCalls : c.module = "locations"
  /\ \A c \in C!TokensSenderCalls \cup C!TokensReceiverCalls : c.module = "tokens"
  /\ \A c \in C!CdrsCalls : c.module = "cdrs"
  /\ \A c \in C!CommandsCalls : c.module = "commands"
  /\ \A c \in C!SessionsSenderCalls \cup C!SessionsReceiverCalls : c.module = "sessions"
  /\ \A c \in C!TariffsCalls : c.module = "tariffs"
  /\ \A c \in C!ChargingProfilesCalls : c.module = "chargingprofiles"
  /\ \A c \in C!HubClientInfoCalls : c.module = "hubclientinfo"
  /\ \A c \in C!PaymentsCalls : c.module = "payments"
  /\ \A c \in C!CallbackCalls : c.module \in {"commands", "chargingprofiles"}
  /\ \A c \in OtherCalls : c.module \in {"commands", "tariffs"}
<1>1. \A c \in C!RegistrationCalls : c.module = "credentials"
  BY DEF C!RegistrationCalls, C!Calls
<1>2. \A c \in C!LocationsSenderCalls : c.module = "locations"
  BY DEF C!LocationsSenderCalls, C!Calls
<1>3. \A c \in C!LocationsReceiverCalls : c.module = "locations"
  BY DEF C!LocationsReceiverCalls, C!Calls
<1>4. \A c \in C!TokensSenderCalls : c.module = "tokens"
  BY DEF C!TokensSenderCalls, C!Calls
<1>5. \A c \in C!TokensReceiverCalls : c.module = "tokens"
  BY DEF C!TokensReceiverCalls, C!Calls
<1>6. \A c \in C!CdrsCalls : c.module = "cdrs"
  BY DEF C!CdrsCalls, C!Calls
<1>7. \A c \in C!CommandsCalls : c.module = "commands"
  BY DEF C!CommandsCalls, C!Calls
<1>8. \A c \in C!SessionsSenderCalls : c.module = "sessions"
  BY DEF C!SessionsSenderCalls, C!Calls
<1>9. \A c \in C!SessionsReceiverCalls : c.module = "sessions"
  BY DEF C!SessionsReceiverCalls, C!Calls
<1>10. \A c \in C!TariffsCalls : c.module = "tariffs"
  BY DEF C!TariffsCalls, C!Calls
<1>11. \A c \in C!ChargingProfilesCalls : c.module = "chargingprofiles"
  BY DEF C!ChargingProfilesCalls, C!Calls
<1>12. \A c \in C!HubClientInfoCalls : c.module = "hubclientinfo"
  BY DEF C!HubClientInfoCalls, C!Calls
<1>13. \A c \in C!PaymentsCalls : c.module = "payments"
  BY DEF C!PaymentsCalls, C!Under, C!TerminalCalls, C!ConfirmationCalls, C!Calls
<1>14. \A c \in C!CallbackCalls : c.module \in {"commands", "chargingprofiles"}
  BY DEF C!CallbackCalls, C!Calls
<1>15. \A c \in OtherCalls : c.module \in {"commands", "tariffs"}
  <2>1. \A role, names, rows : (\A c \in C!Calls("commands", role, names, rows) :
            c.module = "commands")
                             /\ \A c \in C!Calls("tariffs", role, names, rows) :
                                c.module = "tariffs"
    BY DEF C!Calls
  <2> QED
    BY Zenon, <2>1 DEF OtherCalls
<1> QED
  BY <1>1, <1>2, <1>3, <1>4, <1>5, <1>6, <1>7, <1>8, <1>9, <1>10, <1>11, <1>12, <1>13, <1>14, <1>15

LEMMA CallsOfModules ==
  ASSUME NEW c \in C!AllCalls \cup OtherCalls
  PROVE
  /\ c \in C!RegistrationCalls \/ c \in C!LocationsSenderCalls \/ c \in C!LocationsReceiverCalls
     \/ c \in C!TokensSenderCalls \/ c \in C!TokensReceiverCalls \/ c \in C!CdrsCalls
     \/ c \in C!CommandsCalls \/ c \in C!SessionsSenderCalls \/ c \in C!SessionsReceiverCalls
     \/ c \in C!TariffsCalls \/ c \in C!ChargingProfilesCalls \/ c \in C!HubClientInfoCalls
     \/ c \in C!PaymentsCalls \/ c \in C!CallbackCalls \/ c \in OtherCalls
BY DEF C!AllCalls

(* So many segments, none of them empty.                                    *)
Good(s, n) == s \in Seq(Words) /\ Len(s) = n /\ \A i \in DOMAIN s : s[i] # ""

Line(c, role, under, owners, method, n, means, sends, out, wants, back) ==
    /\ c.role = role /\ c.under = under /\ (c.names <=> owners = 2) /\ Good(c.sub, n)
    /\ c.method = method /\ c.means = means /\ c.sends = sends /\ c.out = out
    /\ c.wants = wants /\ c.back = back

LEMMA Goods ==
   /\ Good(<<>>, 0)
   /\ \A a \in Words \ {""} : Good(<<a>>, 1)
   /\ \A a, b \in Words \ {""} : Good(<<a, b>>, 2)
   /\ \A a, b, c \in Words \ {""} : Good(<<a, b, c>>, 3)
<1> DEFINE W == Words
           e == ""
<1>1. <<>> \in Seq(W) /\ Len(<<>>) = 0 /\ DOMAIN <<>> = {}
  OBVIOUS
<1> HIDE DEF W, e
<1>2. ASSUME NEW a \in W, a # e PROVE <<a>> \in Seq(W) /\ Len(<<a>>) = 1
                 /\ \A i \in DOMAIN <<a>> : <<a>>[i] # e
  BY <1>2
<1>3. ASSUME NEW a \in W, a # e, NEW b \in W, b # e
      PROVE <<a, b>> \in Seq(W) /\ Len(<<a, b>>) = 2 /\ \A i \in DOMAIN <<a, b>> : <<a, b>>[i] # e
  BY <1>3
<1>4. ASSUME NEW a \in W, a # e, NEW b \in W, b # e, NEW c \in W, c # e
      PROVE <<a, b, c>> \in Seq(W) /\ Len(<<a, b, c>>) = 3 /\ \A i \in DOMAIN <<a, b, c>> :
                <<a, b, c>>[i] # e
  BY <1>4
<1> QED
  BY ZenonT(30), <1>1, <1>2, <1>3, <1>4 DEF Good, W, e

LEMMA Joins ==
    ASSUME NEW S, NEW a \in S, NEW b \in S, NEW c \in S, NEW d \in S
    PROVE  /\ <<a>> \o <<>> = <<a>> /\ <<a>> \o <<b>> = <<a, b>> /\ <<a>> \o <<b, c>> = <<a, b, c>>
           /\ <<a, b>> \o <<c>> = <<a, b, c>> /\ <<a, b>> \o <<c, d>> = <<a, b, c, d>>
           /\ Append(<<a>>, b) = <<a, b>>
<1>1. <<a>> \in Seq(S) /\ <<b>> \in Seq(S) /\ <<c>> \in Seq(S) /\ <<a, b>> \in Seq(S)
          /\ <<b, c>> \in Seq(S)
      /\ <<c, d>> \in Seq(S) /\ <<a, b, c>> \in Seq(S) /\ <<a, b, c, d>> \in Seq(S)
  OBVIOUS
<1>2. \A s, t \in Seq(S) : Len(s) = Len(t) /\ (\A i \in 1..Len(s) : s[i] = t[i]) => s = t
  BY SeqEqual
<1>3. <<a>> \o <<>> = <<a>>
  BY <1>1
<1>4. <<a>> \o <<b>> = <<a, b>>
  <2> DEFINE s == <<a>> \o <<b>>
             t == <<a, b>>
  <2>1. s \in Seq(S) /\ t \in Seq(S) /\ Len(s) = 2 /\ Len(t) = 2 /\ s[1] = t[1] /\ s[2] = t[2]
    BY <1>1
  <2> HIDE DEF s, t
  <2>2. s = t
    BY <1>2, <2>1
  <2> QED
    BY <2>2 DEF s, t
<1>5. <<a>> \o <<b, c>> = <<a, b, c>>
  <2> DEFINE s == <<a>> \o <<b, c>>
             t == <<a, b, c>>
  <2>1. s \in Seq(S) /\ t \in Seq(S) /\ Len(s) = 3 /\ Len(t) = 3 /\ s[1] = t[1] /\ s[2] = t[2]
            /\ s[3] = t[3]
    BY <1>1
  <2> HIDE DEF s, t
  <2>2. s = t
    BY <1>2, <2>1
  <2> QED
    BY <2>2 DEF s, t
<1>6. <<a, b>> \o <<c>> = <<a, b, c>>
  <2> DEFINE s == <<a, b>> \o <<c>>
             t == <<a, b, c>>
  <2>1. s \in Seq(S) /\ t \in Seq(S) /\ Len(s) = 3 /\ Len(t) = 3 /\ s[1] = t[1] /\ s[2] = t[2]
            /\ s[3] = t[3]
    BY <1>1
  <2> HIDE DEF s, t
  <2>2. s = t
    BY <1>2, <2>1
  <2> QED
    BY <2>2 DEF s, t
<1>7. <<a, b>> \o <<c, d>> = <<a, b, c, d>>
  <2> DEFINE s == <<a, b>> \o <<c, d>>
             t == <<a, b, c, d>>
  <2>1. s \in Seq(S) /\ t \in Seq(S) /\ Len(s) = 4 /\ Len(t) = 4 /\ s[1] = t[1] /\ s[2] = t[2]
            /\ s[3] = t[3]
        /\ s[4] = t[4]
    BY <1>1
  <2> HIDE DEF s, t
  <2>2. s = t
    BY <1>2, <2>1
  <2> QED
    BY <2>2 DEF s, t
<1>8. Append(<<a>>, b) = <<a, b>>
  <2> DEFINE s == Append(<<a>>, b)
             t == <<a, b>>
  <2>1. s \in Seq(S) /\ t \in Seq(S) /\ Len(s) = 2 /\ Len(t) = 2 /\ s[1] = t[1] /\ s[2] = t[2]
    BY <1>1
  <2> HIDE DEF s, t
  <2>2. s = t
    BY <1>2, <2>1
  <2> QED
    BY <2>2 DEF s, t
<1> QED
  BY <1>3, <1>4, <1>5, <1>6, <1>7, <1>8

LEMMA RegistrationLines ==
    ASSUME NEW c \in C!RegistrationCalls
    PROVE  \/ Line(c, "Sender", None, 0, "POST", 0, "post", "Credentials", "Credentials",
              "Credentials", "Credentials")
           \/ Line(c, "Sender", None, 0, "PUT", 0, "put", "Credentials", "Credentials",
              "Credentials", "Credentials")
           \/ Line(c, "Sender", None, 0, "DELETE", 0, "delete", None, None, None, None)
<1>1. Good(<<>>, 0)
  BY Zenon, Goods DEF Words
<1> QED
  BY <1>1 DEF C!RegistrationCalls, C!E!Base, C!Calls, C!Bridged, C!Nothing, C!Plain, C!None, None,
     Line

LEMMA LocationsSenderLines ==
    ASSUME NEW c \in C!LocationsSenderCalls
    PROVE  \/ Line(c, "Sender", None, 0, "GET", 0, "list", None, None, "Location", "Location")
           \/ Line(c, "Sender", None, 0, "GET", 1, "location", None, None, "Location", "Location")
           \/ Line(c, "Sender", None, 0, "GET", 2, "evse", None, None, "Evse", "Evse")
           \/ Line(c, "Sender", None, 0, "GET", 3, "connector", None, None, "Connector",
              "Connector")
<1>1. Good(<<>>, 0) /\ Good(<<"LOC1">>, 1) /\ Good(<<"LOC1", "3256">>, 2)
          /\ Good(<<"LOC1", "3256", "1">>, 3)
  BY ZenonT(30), Goods DEF Words
<1>2. /\ C!E!Location("LOC1", C!None, C!None) = <<"LOC1">>
      /\ C!E!Location("LOC1", "3256", C!None) = <<"LOC1", "3256">>
      /\ C!E!Location("LOC1", "3256", "1") = <<"LOC1", "3256", "1">>
  <2>1. "LOC1" \in Words /\ "3256" \in Words /\ "1" \in Words
    BY DEF Words
  <2>2. <<"LOC1">> \o <<>> = <<"LOC1">> /\ <<"LOC1">> \o <<"3256">> = <<"LOC1", "3256">>
        /\ <<"LOC1">> \o <<"3256", "1">> = <<"LOC1", "3256", "1">>
    BY ZenonT(30), <2>1, Joins
  <2> QED
    BY <2>2 DEF C!E!Location, C!None, C!E!None
<1> QED
  BY <1>1, <1>2 DEF C!LocationsSenderCalls, C!E!Base, C!Calls, C!Bridged, C!Nothing, C!Plain,
     C!None, None, Line

LEMMA LocationsReceiverLines ==
    ASSUME NEW c \in C!LocationsReceiverCalls
    PROVE  \/ Line(c, "Receiver", None, 2, "PUT", 1, "put_location", "Location", "Location", None,
              None)
           \/ Line(c, "Receiver", None, 2, "PUT", 2, "put_evse", "Evse", "Evse", None, None)
           \/ Line(c, "Receiver", None, 2, "PATCH", 1, "patch", "Location", "Location", None, None)
           \/ Line(c, "Receiver", None, 2, "PATCH", 2, "patch", "Evse", "Evse", None, None)
           \/ Line(c, "Receiver", None, 2, "PATCH", 3, "patch", "Connector", "Connector", None,
              None)
<1>1. Good(<<"LOC1">>, 1) /\ Good(<<"LOC1", "3256">>, 2) /\ Good(<<"LOC1", "3256", "1">>, 3)
  BY ZenonT(30), Goods DEF Words
<1>2. /\ C!E!Location("LOC1", C!None, C!None) = <<"LOC1">>
      /\ C!E!Location("LOC1", "3256", C!None) = <<"LOC1", "3256">>
      /\ C!E!Location("LOC1", "3256", "1") = <<"LOC1", "3256", "1">>
  <2>1. "LOC1" \in Words /\ "3256" \in Words /\ "1" \in Words
    BY DEF Words
  <2>2. <<"LOC1">> \o <<>> = <<"LOC1">> /\ <<"LOC1">> \o <<"3256">> = <<"LOC1", "3256">>
        /\ <<"LOC1">> \o <<"3256", "1">> = <<"LOC1", "3256", "1">>
    BY <2>1, Joins
  <2> QED
    BY <2>2 DEF C!E!Location, C!None, C!E!None
<1> QED
  BY <1>1, <1>2 DEF C!LocationsReceiverCalls, C!Calls, C!Bridged, C!Nothing, C!Plain, C!None,
     None, Line

LEMMA TokensSenderLines ==
    ASSUME NEW c \in C!TokensSenderCalls
    PROVE  \/ Line(c, "Sender", None, 0, "GET", 0, "list", None, None, "Token", "Token")
           \/ Line(c, "Sender", None, 0, "POST", 2, "authorize", "LocationReferences", None,
              "AuthorizationInfo", "AuthorizationInfo") /\ c.sub = <<"UID1", "authorize">>
<1>1. Good(<<>>, 0) /\ Good(<<"UID1", "authorize">>, 2)
  BY ZenonT(30), Goods DEF Words
<1>2. Append(<<"UID1">>, "authorize") = <<"UID1", "authorize">>
  <2>1. "UID1" \in Words /\ "authorize" \in Words
    BY DEF Words
  <2> QED
    BY Zenon, <2>1, Joins
<1> QED
  BY <1>1, <1>2 DEF C!TokensSenderCalls, C!E!Base, C!E!TokenAuthorize, C!E!Object, C!Calls,
     C!Bridged, C!Nothing, C!Plain, C!None, None, Line

LEMMA TokensReceiverLines ==
    ASSUME NEW c \in C!TokensReceiverCalls
    PROVE  \/ Line(c, "Receiver", None, 2, "GET", 1, "token", None, None, "Token", "Token")
           \/ Line(c, "Receiver", None, 2, "PUT", 1, "put_token", "Token", "Token", None, None)
           \/ Line(c, "Receiver", None, 2, "PATCH", 1, "patch_token", "Token", "Token", None, None)
<1>1. Good(<<"UID1">>, 1)
  BY ZenonT(30), Goods DEF Words
<1> QED
  BY <1>1 DEF C!TokensReceiverCalls, C!E!Object, C!Calls, C!Bridged, C!Nothing, C!Plain, C!None,
     None, Line

LEMMA CdrsLines ==
    ASSUME NEW c \in C!CdrsCalls
    PROVE  \/ Line(c, "Sender", None, 0, "GET", 0, "list", None, None, "Cdr", "Cdr")
           \/ Line(c, "Receiver", None, 0, "POST", 0, "post_cdr", "Cdr", "Cdr", None, None)
<1>1. Good(<<>>, 0)
  BY Goods DEF Words
<1> QED
  BY <1>1 DEF C!CdrsCalls, C!E!Base, C!Calls, C!Bridged, C!Nothing, C!Plain, C!None, None, Line

LEMMA CommandsLines ==
    ASSUME NEW c \in C!CommandsCalls
    PROVE  \/ Line(c, "Receiver", None, 0, "POST", 1, "command", "StartSession", "StartSession",
              "CommandResponse", None) /\ c.sub = <<"START_SESSION">>
           \/ Line(c, "Receiver", None, 0, "POST", 1, "command", "ReserveNow", "ReserveNow",
              "CommandResponse", None) /\ c.sub = <<"RESERVE_NOW">>
           \/ Line(c, "Receiver", None, 0, "POST", 1, "command", "StopSession", None,
              "CommandResponse", None) /\ c.sub = <<"STOP_SESSION">>
           \/ Line(c, "Receiver", None, 0, "POST", 1, "command", "CancelReservation", None,
              "CommandResponse", None) /\ c.sub = <<"CANCEL_RESERVATION">>
           \/ Line(c, "Receiver", None, 0, "POST", 1, "command", "UnlockConnector", None,
              "CommandResponse", None) /\ c.sub = <<"UNLOCK_CONNECTOR">>
<1>1. Good(<<"START_SESSION">>, 1) /\ Good(<<"RESERVE_NOW">>, 1) /\ Good(<<"STOP_SESSION">>, 1)
          /\ Good(<<"CANCEL_RESERVATION">>, 1) /\ Good(<<"UNLOCK_CONNECTOR">>, 1)
  BY ZenonT(30), Goods DEF Words
<1> QED
  BY SMTT(30), <1>1 DEF C!CommandsCalls, C!E!Command, C!E!Object, C!Calls, C!Bridged, C!Nothing, C!Plain,
     C!None, None, Line

LEMMA SessionsSenderLines ==
    ASSUME NEW c \in C!SessionsSenderCalls
    PROVE  \/ Line(c, "Sender", None, 0, "GET", 0, "list", None, None, "Session", "Session")
           \/ Line(c, "Sender", None, 0, "PUT", 2, "set_charging_preferences",
              "ChargingPreferences", None, "ChargingPreferencesResponse", None)
<1>1. Good(<<>>, 0) /\ Good(<<"S1", "charging_preferences">>, 2)
  BY ZenonT(30), Goods DEF Words
<1>2. Append(<<"S1">>, "charging_preferences") = <<"S1", "charging_preferences">>
  <2>1. "S1" \in Words /\ "charging_preferences" \in Words
    BY DEF Words
  <2> QED
    BY Zenon, <2>1, Joins
<1> QED
  BY <1>1, <1>2 DEF C!SessionsSenderCalls, C!E!Base, C!E!ChargingPreferences, C!E!Object, C!Calls,
     C!Bridged, C!Nothing, C!Plain, C!None, None, Line

LEMMA SessionsReceiverLines ==
    ASSUME NEW c \in C!SessionsReceiverCalls
    PROVE  \/ Line(c, "Receiver", None, 2, "GET", 1, "session", None, None, "Session", "Session")
           \/ Line(c, "Receiver", None, 2, "PUT", 1, "put_session", "Session", "Session", None,
              None)
           \/ Line(c, "Receiver", None, 2, "PATCH", 1, "patch_session", "Session", "Session",
              None, None)
<1>1. Good(<<"S1">>, 1)
  BY Zenon, Goods DEF Words
<1> QED
  BY <1>1 DEF C!SessionsReceiverCalls, C!E!Object, C!Calls, C!Bridged, C!Nothing, C!Plain, C!None,
     None, Line

LEMMA TariffsLines ==
    ASSUME NEW c \in C!TariffsCalls
    PROVE  \/ Line(c, "Sender", None, 0, "GET", 0, "list", None, None, "Tariff", "Tariff")
           \/ Line(c, "Receiver", None, 2, "GET", 1, "tariff", None, None, "Tariff", "Tariff")
           \/ Line(c, "Receiver", None, 2, "PUT", 1, "put_tariff", "Tariff", "Tariff", None, None)
           \/ Line(c, "Receiver", None, 2, "DELETE", 1, "delete_tariff", None, None, None, None)
<1>1. Good(<<>>, 0) /\ Good(<<"T1">>, 1)
  BY ZenonT(30), Goods DEF Words
<1> QED
  BY <1>1 DEF C!TariffsCalls, C!E!Base, C!E!Object, C!Calls, C!Bridged, C!Nothing, C!Plain,
     C!None, None, Line

LEMMA ChargingProfilesLines ==
    ASSUME NEW c \in C!ChargingProfilesCalls
    PROVE  \/ Line(c, "Receiver", None, 0, "GET", 1, "active_charging_profile", None, None,
              "ChargingProfileResponse", None)
           \/ Line(c, "Receiver", None, 0, "PUT", 1, "set_charging_profile", "SetChargingProfile",
              None, "ChargingProfileResponse", None)
           \/ Line(c, "Receiver", None, 0, "DELETE", 1, "clear_charging_profile", None, None,
              "ChargingProfileResponse", None)
           \/ Line(c, "Sender", None, 0, "PUT", 1, "put_active_charging_profile",
              "ActiveChargingProfile", None, None, None)
<1>1. Good(<<"S1">>, 1)
  BY Goods DEF Words
<1> QED
  BY <1>1 DEF C!ChargingProfilesCalls, C!E!ChargingProfile, C!E!Object, C!Calls, C!Bridged,
     C!Nothing, C!Plain, C!None, None, Line

LEMMA HubClientInfoLines ==
    ASSUME NEW c \in C!HubClientInfoCalls
    PROVE  \/ Line(c, "Sender", None, 0, "GET", 0, "list", None, None, "ClientInfo", "ClientInfo")
           \/ Line(c, "Receiver", None, 2, "GET", 0, "client_info", None, None, "ClientInfo",
              "ClientInfo")
           \/ Line(c, "Receiver", None, 2, "PUT", 0, "put_client_info", "ClientInfo",
              "ClientInfo", None, None)
<1>1. Good(<<>>, 0)
  BY Goods DEF Words
<1> QED
  BY <1>1 DEF C!HubClientInfoCalls, C!E!Base, C!Calls, C!Bridged, C!Nothing, C!Plain, C!None,
     None, Line

LEMMA TerminalLines ==
    ASSUME NEW c \in C!TerminalCalls
    PROVE  \/ Line(c, "Sender", None, 0, "GET", 0, "terminals", None, None, "Terminal", None)
           \/ Line(c, "Sender", None, 0, "GET", 1, "terminal", None, None, "Terminal", None)
           \/ Line(c, "Sender", None, 0, "PUT", 1, "put_terminal", "Terminal", None, "Terminal",
              None)
           \/ Line(c, "Sender", None, 0, "PATCH", 1, "patch_terminal", "Terminal", None,
              "Terminal", None)
           \/ Line(c, "Sender", None, 0, "POST", 1, "activate_terminal", "Terminal", None,
              "Terminal", None)
           \/ Line(c, "Sender", None, 0, "POST", 2, "deactivate_terminal", "Empty", None,
              "Terminal", None)
           \/ Line(c, "Receiver", None, 0, "POST", 0, "post_terminal", "Terminal", None,
              "Terminal", None)
<1>1. Good(<<>>, 0) /\ Good(<<"P1">>, 1) /\ Good(<<"activate">>, 1)
          /\ Good(<<"P1", "deactivate">>, 2)
  BY ZenonT(30), Goods DEF Words
<1>2. Append(<<"P1">>, "deactivate") = <<"P1", "deactivate">>
  <2>1. "P1" \in Words /\ "deactivate" \in Words
    BY DEF Words
  <2> QED
    BY Zenon, <2>1, Joins
<1> QED
  BY SMTT(30), <1>1, <1>2 DEF C!TerminalCalls, C!E!Base, C!E!Object, C!E!TerminalActivate,
     C!E!TerminalDeactivate, C!Calls,
     C!Bridged, C!Nothing, C!Plain, C!None, None, Line

LEMMA ConfirmationLines ==
    ASSUME NEW c \in C!ConfirmationCalls
    PROVE  \/ Line(c, "Sender", None, 0, "GET", 0, "financial_advice_confirmations", None, None,
              "FinancialAdviceConfirmation", None)
           \/ Line(c, "Sender", None, 0, "GET", 1, "financial_advice_confirmation", None, None,
              "FinancialAdviceConfirmation", None)
           \/ Line(c, "Receiver", None, 0, "POST", 0, "post_financial_advice_confirmation",
              "FinancialAdviceConfirmation", None, "FinancialAdviceConfirmation", None)
<1>1. Good(<<>>, 0) /\ Good(<<"F1">>, 1)
  BY ZenonT(30), Goods DEF Words
<1> QED
  BY <1>1 DEF C!ConfirmationCalls, C!E!Base, C!E!Object, C!E!TerminalActivate,
     C!E!TerminalDeactivate, C!Calls,
     C!Bridged, C!Nothing, C!Plain, C!None, None, Line

LEMMA MovedUnder ==
    ASSUME NEW segment, NEW calls, NEW module, NEW c \in C!Under(segment, calls),
           \A d \in calls : \E role, names, rows : d \in C!Calls(module, role, names, rows)
    PROVE  \E d \in calls :
              /\ c.under = segment /\ c.role = d.role /\ c.names = d.names /\ c.sub = d.sub
              /\ c.method = d.method /\ c.means = d.means /\ c.sends = d.sends
              /\ c.out = d.out /\ c.wants = d.wants /\ c.back = d.back
<1>1. PICK d \in calls : c = [d EXCEPT !.under = segment]
  BY DEF C!Under
<1>2. PICK role, names, rows : d \in C!Calls(module, role, names, rows)
  OBVIOUS
<1>3. c.under = segment /\ c.role = d.role /\ c.names = d.names /\ c.sub = d.sub
      /\ c.method = d.method /\ c.means = d.means /\ c.sends = d.sends
      /\ c.out = d.out /\ c.wants = d.wants /\ c.back = d.back
  BY <1>1, <1>2 DEF C!Calls
<1> QED
  BY <1>3

LEMMA PaymentsLines ==
    ASSUME NEW c \in C!PaymentsCalls
    PROVE  \/ Line(c, "Sender", "terminals", 0, "GET", 0, "terminals", None, None, "Terminal", None)
           \/ Line(c, "Sender", "terminals", 0, "GET", 1, "terminal", None, None, "Terminal", None)
           \/ Line(c, "Sender", "terminals", 0, "PUT", 1, "put_terminal", "Terminal", None,
              "Terminal", None)
           \/ Line(c, "Sender", "terminals", 0, "PATCH", 1, "patch_terminal", "Terminal", None,
              "Terminal", None)
           \/ Line(c, "Sender", "terminals", 0, "POST", 1, "activate_terminal", "Terminal", None,
              "Terminal", None)
           \/ Line(c, "Sender", "terminals", 0, "POST", 2, "deactivate_terminal", "Empty", None,
              "Terminal", None)
           \/ Line(c, "Receiver", "terminals", 0, "POST", 0, "post_terminal", "Terminal", None,
              "Terminal", None)
           \/ Line(c, "Sender", "financial-advice-confirmations", 0, "GET", 0,
              "financial_advice_confirmations", None, None, "FinancialAdviceConfirmation", None)
           \/ Line(c, "Sender", "financial-advice-confirmations", 0, "GET", 1,
              "financial_advice_confirmation", None, None, "FinancialAdviceConfirmation", None)
           \/ Line(c, "Receiver", "financial-advice-confirmations", 0, "POST", 0,
              "post_financial_advice_confirmation", "FinancialAdviceConfirmation", None,
              "FinancialAdviceConfirmation", None)
<1>1. CASE c \in C!Under("terminals", C!TerminalCalls)
  <2>1. \A d \in C!TerminalCalls : \E role, names, rows : d \in C!Calls("payments", role, names,
            rows)
    BY Zenon DEF C!TerminalCalls
  <2>2. PICK d \in C!TerminalCalls :
              /\ c.under = "terminals" /\ c.role = d.role /\ c.names = d.names /\ c.sub = d.sub
              /\ c.method = d.method /\ c.means = d.means /\ c.sends = d.sends
              /\ c.out = d.out /\ c.wants = d.wants /\ c.back = d.back
    BY <1>1, <2>1, MovedUnder
  <2>3. \/ Line(d, "Sender", None, 0, "GET", 0, "terminals", None, None, "Terminal", None)
        \/ Line(d, "Sender", None, 0, "GET", 1, "terminal", None, None, "Terminal", None)
        \/ Line(d, "Sender", None, 0, "PUT", 1, "put_terminal", "Terminal", None, "Terminal", None)
        \/ Line(d, "Sender", None, 0, "PATCH", 1, "patch_terminal", "Terminal", None, "Terminal",
           None)
        \/ Line(d, "Sender", None, 0, "POST", 1, "activate_terminal", "Terminal", None,
           "Terminal", None)
        \/ Line(d, "Sender", None, 0, "POST", 2, "deactivate_terminal", "Empty", None, "Terminal",
           None)
        \/ Line(d, "Receiver", None, 0, "POST", 0, "post_terminal", "Terminal", None, "Terminal",
           None)
    BY TerminalLines
  <2> QED
    BY <2>2, <2>3 DEF Line
<1>2. CASE c \in C!Under("financial-advice-confirmations", C!ConfirmationCalls)
  <2>1. \A d \in C!ConfirmationCalls : \E role, names, rows : d \in C!Calls("payments", role,
            names, rows)
    BY Zenon DEF C!ConfirmationCalls
  <2>2. PICK d \in C!ConfirmationCalls :
              /\ c.under = "financial-advice-confirmations" /\ c.role = d.role /\ c.names = d.names
              /\ c.sub = d.sub /\ c.method = d.method /\ c.means = d.means /\ c.sends = d.sends
              /\ c.out = d.out /\ c.wants = d.wants /\ c.back = d.back
    BY <1>2, <2>1, MovedUnder
  <2>3. \/ Line(d, "Sender", None, 0, "GET", 0, "financial_advice_confirmations", None, None,
           "FinancialAdviceConfirmation", None)
        \/ Line(d, "Sender", None, 0, "GET", 1, "financial_advice_confirmation", None, None,
           "FinancialAdviceConfirmation", None)
        \/ Line(d, "Receiver", None, 0, "POST", 0, "post_financial_advice_confirmation",
           "FinancialAdviceConfirmation", None, "FinancialAdviceConfirmation", None)
    BY ConfirmationLines
  <2> QED
    BY <2>2, <2>3 DEF Line
<1> QED
  BY <1>1, <1>2 DEF C!PaymentsCalls

LEMMA CallbackLines ==
    ASSUME NEW c \in C!CallbackCalls
    PROVE  \/ c.module = "commands" /\ Line(c, "Sender", None, 0, "POST", 2, "command_result",
              "CommandResult", None, None, None) /\ c.sub = <<"START_SESSION", "1234">>
           \/ c.module = "commands" /\ Line(c, "Sender", None, 0, "POST", 2, "command_result",
              "CommandResult", None, None, None) /\ c.sub = <<"RESERVE_NOW", "1234">>
           \/ c.module = "commands" /\ Line(c, "Sender", None, 0, "POST", 2, "command_result",
              "CommandResult", None, None, None) /\ c.sub = <<"STOP_SESSION", "1234">>
           \/ c.module = "chargingprofiles" /\ Line(c, "Sender", None, 0, "POST", 3,
              "active_charging_profile_result", "ActiveChargingProfileResult", None, None, None)
              /\ c.sub = <<"result", "active", "1234">>
           \/ c.module = "chargingprofiles" /\ Line(c, "Sender", None, 0, "POST", 3,
              "charging_profile_result", "ChargingProfileResult", None, None, None)
              /\ c.sub = <<"result", "set", "1234">>
           \/ c.module = "chargingprofiles" /\ Line(c, "Sender", None, 0, "POST", 3,
              "clear_profile_result", "ClearProfileResult", None, None, None)
              /\ c.sub = <<"result", "clear", "1234">>
<1>1. Good(<<"START_SESSION", "1234">>, 2) /\ Good(<<"RESERVE_NOW", "1234">>, 2)
          /\ Good(<<"STOP_SESSION", "1234">>, 2) /\ Good(<<"result", "active", "1234">>, 3)
          /\ Good(<<"result", "set", "1234">>, 3) /\ Good(<<"result", "clear", "1234">>, 3)
  BY ZenonT(30), Goods DEF Words
<1> QED
  BY SMTT(30), <1>1 DEF C!CallbackCalls, C!Calls, C!Bridged, C!Nothing, C!Plain, C!None, None, Line

LEMMA OtherLines ==
    ASSUME NEW c \in OtherCalls
    PROVE  \/ /\ c.module = "commands" /\ c.sub = <<"DANCE">>
              /\ Line(c, "Receiver", None, 0, "POST", 1, "command", "StopSession", None,
                 "CommandResponse", None)
           \/ /\ c.module = "tariffs" /\ c.role = "Receiver" /\ c.under = None /\ c.names = TRUE
              /\ c.sub = <<"T1", "">>
              /\ c.method = "DELETE" /\ c.means = "delete_tariff" /\ c.sends = None /\ c.out = None
              /\ c.wants = None /\ c.back = None
<1>1. Good(<<"DANCE">>, 1)
  BY Zenon, Goods DEF Words
<1>2. ASSUME c \in C!Calls("commands", "Receiver", FALSE,
                  {<<"POST", <<"DANCE">>, "command", C!Plain("StopSession"), C!Plain("CommandResponse")>>})
      PROVE  /\ c.module = "commands" /\ c.sub = <<"DANCE">>
             /\ Line(c, "Receiver", None, 0, "POST", 1, "command", "StopSession", None,
                "CommandResponse", None)
  BY <1>1, <1>2 DEF C!Calls, C!Plain, C!None, None, Line
<1> DEFINE e == ""
<1>4. c \in C!Calls("commands", "Receiver", FALSE,
                  {<<"POST", <<"DANCE">>, "command", C!Plain("StopSession"), C!Plain("CommandResponse")>>})
      \/ c \in C!Calls("tariffs", "Receiver", TRUE,
                  {<<"DELETE", <<"T1", e>>, "delete_tariff", C!Nothing, C!Nothing>>})
  BY Zenon DEF OtherCalls
<1> HIDE DEF e
<1>3. ASSUME c \in C!Calls("tariffs", "Receiver", TRUE,
                  {<<"DELETE", <<"T1", e>>, "delete_tariff", C!Nothing, C!Nothing>>})
      PROVE  /\ c.module = "tariffs" /\ c.role = "Receiver" /\ c.under = None /\ c.names = TRUE
             /\ c.sub = <<"T1", e>>
             /\ c.method = "DELETE" /\ c.means = "delete_tariff" /\ c.sends = None /\ c.out = None
             /\ c.wants = None /\ c.back = None
  BY <1>3 DEF C!Calls, C!Plain, C!Nothing, C!None, None
<1>5. \/ /\ c.module = "commands" /\ c.sub = <<"DANCE">>
         /\ Line(c, "Receiver", None, 0, "POST", 1, "command", "StopSession", None,
            "CommandResponse", None)
      \/ /\ c.module = "tariffs" /\ c.role = "Receiver" /\ c.under = None /\ c.names = TRUE
         /\ c.sub = <<"T1", e>>
         /\ c.method = "DELETE" /\ c.means = "delete_tariff" /\ c.sends = None /\ c.out = None
         /\ c.wants = None /\ c.back = None
  BY Zenon, <1>2, <1>3, <1>4
<1> QED
  BY Zenon, <1>5 DEF e

-----------------------------------------------------------------------------
(* The rows of the router.                                                 *)

(* Where the routes of an interface are mounted.                            *)
BaseOf(module, role) ==
    R!ReceiverPath(IF role = "Receiver" /\ module # "commands" THEN server.prefix ELSE None,
        <<module>>)

(* A route, by what it is below the base of its interface.                  *)
Row(q, method, below, handler, read, takes) ==
    /\ q.method = method /\ q.path = BaseOf(q.module, q.role) \o below
    /\ q.handler = handler /\ q.body = read /\ q.takes = takes

LEMMA BaseAlone ==
    ASSUME NEW m \in Words
    PROVE  R!ReceiverPath(None, <<m>>) = <<m>>
<1>1. ASSUME NEW S, NEW a \in S PROVE <<>> \o <<a>> = <<a>>
  OBVIOUS
<1>2. <<>> \o <<m>> = <<m>>
  BY <1>1
<1> QED
  BY <1>2 DEF R!ReceiverPath, None, R!None

LEMMA RowsOf ==
    ASSUME NEW module, NEW role, NEW addressed, NEW rows,
           NEW q \in R!On(module, role, BaseOf(module, role), addressed, rows)
    PROVE  /\ q.module = module /\ q.role = role
           /\ \E row \in rows : Row(q, row[1], row[2], row[3], row[5], row[6])
<1>1. PICK row \in rows :
         q = [module |-> module, role |-> role, addressed |-> addressed,
              method |-> row[1], path |-> BaseOf(module, role) \o row[2], handler |-> row[3],
              query |-> row[4], body |-> row[5], takes |-> row[6]]
  BY DEF R!On
<1>2. q.module = module /\ q.role = role
  BY <1>1
<1>3. q.method = row[1] /\ q.path = BaseOf(module, role) \o row[2] /\ q.handler = row[3]
      /\ q.body = row[5] /\ q.takes = row[6]
  BY Zenon, <1>1
<1>4. Row(q, row[1], row[2], row[3], row[5], row[6])
  BY <1>2, <1>3 DEF Row
<1> QED
  BY <1>2, <1>4

LEMMA CredentialsRows ==
    ASSUME NEW q \in R!Credentials
    PROVE  /\ q.module = "credentials" /\ q.role = "Sender"
           /\ \/ Row(q, "GET", <<>>, "get", None, None)
              \/ Row(q, "POST", <<>>, "post", "json", "Credentials")
              \/ Row(q, "PUT", <<>>, "put", "json", "Credentials")
              \/ Row(q, "DELETE", <<>>, "delete", None, None)
<1> DEFINE b1 == <<>>
           rows == {<<"GET", b1, "get", None, None, None>>,
                    <<"POST", b1, "post", None, "json", "Credentials">>,
                    <<"PUT", b1, "put", None, "json", "Credentials">>,
                    <<"DELETE", b1, "delete", None, None, None>>}
<1>1. BaseOf("credentials", "Sender") = <<"credentials">>
  BY Zenon, BaseAlone DEF BaseOf, Words
<1>3. q \in R!On("credentials", "Sender", BaseOf("credentials", "Sender"), None, rows)
  BY <1>1 DEF R!Credentials, None, R!None
<1> HIDE DEF b1
<1>4. /\ q.module = "credentials" /\ q.role = "Sender"
      /\ \E row \in rows : Row(q, row[1], row[2], row[3], row[5], row[6])
  <2> HIDE DEF rows
  <2> QED
    BY <1>3, RowsOf
<1>5. PICK row \in rows : Row(q, row[1], row[2], row[3], row[5], row[6])
  BY <1>4
<1>6. \/ Row(q, "GET", b1, "get", None, None)
      \/ Row(q, "POST", b1, "post", "json", "Credentials")
      \/ Row(q, "PUT", b1, "put", "json", "Credentials")
      \/ Row(q, "DELETE", b1, "delete", None, None)
  BY <1>5
<1> QED
  BY <1>4, <1>6 DEF b1

LEMMA LocationsSenderRows ==
    ASSUME NEW q \in R!LocationsSender
    PROVE  /\ q.module = "locations" /\ q.role = "Sender"
           /\ \/ Row(q, "GET", <<>>, "list", None, None)
              \/ Row(q, "GET", <<R!Id>>, "location", None, None)
              \/ Row(q, "GET", <<R!Id, R!Id>>, "evse", None, None)
              \/ Row(q, "GET", <<R!Id, R!Id, R!Id>>, "connector", None, None)
<1> DEFINE b1 == <<>>
           b2 == <<R!Id>>
           b3 == <<R!Id, R!Id>>
           b4 == <<R!Id, R!Id, R!Id>>
           rows == {<<"GET", b1, "list", "page", None, None>>,
                    <<"GET", b2, "location", None, None, None>>,
                    <<"GET", b3, "evse", None, None, None>>,
                    <<"GET", b4, "connector", None, None, None>>}
<1>1. BaseOf("locations", "Sender") = <<"locations">>
  BY Zenon, BaseAlone DEF BaseOf, Words
<1>3. q \in R!On("locations", "Sender", BaseOf("locations", "Sender"), None, rows)
  BY <1>1 DEF R!LocationsSender, None, R!None
<1> HIDE DEF b1, b2, b3, b4
<1>4. /\ q.module = "locations" /\ q.role = "Sender"
      /\ \E row \in rows : Row(q, row[1], row[2], row[3], row[5], row[6])
  <2> HIDE DEF rows
  <2> QED
    BY <1>3, RowsOf
<1>5. PICK row \in rows : Row(q, row[1], row[2], row[3], row[5], row[6])
  BY <1>4
<1>6. \/ Row(q, "GET", b1, "list", None, None)
      \/ Row(q, "GET", b2, "location", None, None)
      \/ Row(q, "GET", b3, "evse", None, None)
      \/ Row(q, "GET", b4, "connector", None, None)
  BY <1>5
<1> QED
  BY <1>4, <1>6 DEF b1, b2, b3, b4

LEMMA LocationsReceiverRows ==
    ASSUME NEW q \in R!LocationsReceiver(server.prefix)
    PROVE  /\ q.module = "locations" /\ q.role = "Receiver"
           /\ \/ Row(q, "GET", <<R!Id, R!Id, R!Id>>, "location", None, None)
              \/ Row(q, "PUT", <<R!Id, R!Id, R!Id>>, "put_location", "json", "Location")
              \/ Row(q, "PATCH", <<R!Id, R!Id, R!Id>>, "patch", "patch", "Location")
              \/ Row(q, "PUT", <<R!Id, R!Id, R!Id, R!Id>>, "put_evse", "json", "Evse")
<1> DEFINE b1 == <<R!Id, R!Id, R!Id>>
           b2 == <<R!Id, R!Id, R!Id, R!Id>>
           rows == {<<"GET", b1, "location", None, None, None>>,
                    <<"PUT", b1, "put_location", None, "json", "Location">>,
                    <<"PATCH", b1, "patch", None, "patch", "Location">>,
                    <<"PUT", b2, "put_evse", None, "json", "Evse">>}
<1>1. BaseOf("locations", "Receiver") = R!ReceiverPath(server.prefix, <<"locations">>)
  BY Zenon, BaseAlone DEF BaseOf, Words
<1>2. b1 = R!Owner \o <<R!Id>> /\ b2 = R!Owner \o <<R!Id, R!Id>>
  <2>1. R!Id \in Words
    BY DEF Words
  <2> QED
    BY <2>1, Joins DEF R!Owner
<1>3. q \in R!On("locations", "Receiver", BaseOf("locations", "Receiver"), "owned", rows)
  BY Zenon, <1>1, <1>2 DEF R!LocationsReceiver, None, R!None
<1> HIDE DEF b1, b2
<1>4. /\ q.module = "locations" /\ q.role = "Receiver"
      /\ \E row \in rows : Row(q, row[1], row[2], row[3], row[5], row[6])
  <2> HIDE DEF rows
  <2> QED
    BY <1>3, RowsOf
<1>5. PICK row \in rows : Row(q, row[1], row[2], row[3], row[5], row[6])
  BY <1>4
<1>6. \/ Row(q, "GET", b1, "location", None, None)
      \/ Row(q, "PUT", b1, "put_location", "json", "Location")
      \/ Row(q, "PATCH", b1, "patch", "patch", "Location")
      \/ Row(q, "PUT", b2, "put_evse", "json", "Evse")
  BY <1>5
<1> QED
  BY <1>4, <1>6 DEF b1, b2

LEMMA TokensSenderRows ==
    ASSUME NEW q \in R!TokensSender
    PROVE  /\ q.module = "tokens" /\ q.role = "Sender"
           /\ \/ Row(q, "GET", <<>>, "list", None, None)
              \/ Row(q, "POST", <<R!Id, "authorize">>, "authorize", "optional",
                 "LocationReferences")
<1> DEFINE b1 == <<>>
           b2 == <<R!Id, "authorize">>
           rows == {<<"GET", b1, "list", "page", None, None>>,
                    <<"POST", b2, "authorize", "type", "optional", "LocationReferences">>}
<1>1. BaseOf("tokens", "Sender") = <<"tokens">>
  BY Zenon, BaseAlone DEF BaseOf, Words
<1>3. q \in R!On("tokens", "Sender", BaseOf("tokens", "Sender"), None, rows)
  BY <1>1 DEF R!TokensSender, None, R!None
<1> HIDE DEF b1, b2
<1>4. /\ q.module = "tokens" /\ q.role = "Sender"
      /\ \E row \in rows : Row(q, row[1], row[2], row[3], row[5], row[6])
  <2> HIDE DEF rows
  <2> QED
    BY <1>3, RowsOf
<1>5. PICK row \in rows : Row(q, row[1], row[2], row[3], row[5], row[6])
  BY <1>4
<1>6. \/ Row(q, "GET", b1, "list", None, None)
      \/ Row(q, "POST", b2, "authorize", "optional", "LocationReferences")
  BY <1>5
<1> QED
  BY <1>4, <1>6 DEF b1, b2

LEMMA TokensReceiverRows ==
    ASSUME NEW q \in R!TokensReceiver(server.prefix)
    PROVE  /\ q.module = "tokens" /\ q.role = "Receiver"
           /\ \/ Row(q, "GET", <<R!Id, R!Id, R!Id>>, "token", None, None)
              \/ Row(q, "PUT", <<R!Id, R!Id, R!Id>>, "put_token", "json", "Token")
              \/ Row(q, "PATCH", <<R!Id, R!Id, R!Id>>, "patch_token", "patch", "Token")
<1> DEFINE b1 == <<R!Id, R!Id, R!Id>>
           rows == {<<"GET", b1, "token", "type", None, None>>,
                    <<"PUT", b1, "put_token", None, "json", "Token">>,
                    <<"PATCH", b1, "patch_token", "type", "patch", "Token">>}
<1>1. BaseOf("tokens", "Receiver") = R!ReceiverPath(server.prefix, <<"tokens">>)
  BY Zenon, BaseAlone DEF BaseOf, Words
<1>2. b1 = R!Owner \o <<R!Id>>
  <2>1. R!Id \in Words
    BY DEF Words
  <2> QED
    BY <2>1, Joins DEF R!Owner
<1>3. q \in R!On("tokens", "Receiver", BaseOf("tokens", "Receiver"), "owned", rows)
  BY Zenon, <1>1, <1>2 DEF R!TokensReceiver, None, R!None
<1> HIDE DEF b1
<1>4. /\ q.module = "tokens" /\ q.role = "Receiver"
      /\ \E row \in rows : Row(q, row[1], row[2], row[3], row[5], row[6])
  <2> HIDE DEF rows
  <2> QED
    BY <1>3, RowsOf
<1>5. PICK row \in rows : Row(q, row[1], row[2], row[3], row[5], row[6])
  BY <1>4
<1>6. \/ Row(q, "GET", b1, "token", None, None)
      \/ Row(q, "PUT", b1, "put_token", "json", "Token")
      \/ Row(q, "PATCH", b1, "patch_token", "patch", "Token")
  BY <1>5
<1> QED
  BY <1>4, <1>6 DEF b1

LEMMA CdrsSenderRows ==
    ASSUME NEW q \in R!CdrsSender
    PROVE  /\ q.module = "cdrs" /\ q.role = "Sender"
           /\ \/ Row(q, "GET", <<>>, "list", None, None)
<1> DEFINE b1 == <<>>
           rows == {<<"GET", b1, "list", "page", None, None>>}
<1>1. BaseOf("cdrs", "Sender") = <<"cdrs">>
  BY Zenon, BaseAlone DEF BaseOf, Words
<1>3. q \in R!On("cdrs", "Sender", BaseOf("cdrs", "Sender"), None, rows)
  BY <1>1 DEF R!CdrsSender, None, R!None
<1> HIDE DEF b1
<1>4. /\ q.module = "cdrs" /\ q.role = "Sender"
      /\ \E row \in rows : Row(q, row[1], row[2], row[3], row[5], row[6])
  <2> HIDE DEF rows
  <2> QED
    BY <1>3, RowsOf
<1>5. PICK row \in rows : Row(q, row[1], row[2], row[3], row[5], row[6])
  BY <1>4
<1>6. \/ Row(q, "GET", b1, "list", None, None)
  BY <1>5
<1> QED
  BY <1>4, <1>6 DEF b1

LEMMA CdrsReceiverRows ==
    ASSUME NEW q \in R!CdrsReceiver(server.prefix)
    PROVE  /\ q.module = "cdrs" /\ q.role = "Receiver"
           /\ \/ Row(q, "POST", <<>>, "post_cdr", "json", "Cdr")
              \/ Row(q, "GET", <<R!Id>>, "cdr", None, None)
<1> DEFINE b1 == <<>>
           b2 == <<R!Id>>
           rows == {<<"POST", b1, "post_cdr", None, "json", "Cdr">>,
                    <<"GET", b2, "cdr", None, None, None>>}
<1>1. BaseOf("cdrs", "Receiver") = R!ReceiverPath(server.prefix, <<"cdrs">>)
  BY Zenon, BaseAlone DEF BaseOf, Words
<1>3. q \in R!On("cdrs", "Receiver", BaseOf("cdrs", "Receiver"), None, rows)
  BY <1>1 DEF R!CdrsReceiver, None, R!None
<1> HIDE DEF b1, b2
<1>4. /\ q.module = "cdrs" /\ q.role = "Receiver"
      /\ \E row \in rows : Row(q, row[1], row[2], row[3], row[5], row[6])
  <2> HIDE DEF rows
  <2> QED
    BY <1>3, RowsOf
<1>5. PICK row \in rows : Row(q, row[1], row[2], row[3], row[5], row[6])
  BY <1>4
<1>6. \/ Row(q, "POST", b1, "post_cdr", "json", "Cdr")
      \/ Row(q, "GET", b2, "cdr", None, None)
  BY <1>5
<1> QED
  BY <1>4, <1>6 DEF b1, b2

LEMMA SessionsSenderRows ==
    ASSUME NEW q \in R!SessionsSender
    PROVE  /\ q.module = "sessions" /\ q.role = "Sender"
           /\ \/ Row(q, "GET", <<>>, "list", None, None)
              \/ Row(q, "PUT", <<R!Id, "charging_preferences">>, "set_charging_preferences",
                 "json", "ChargingPreferences")
<1> DEFINE b1 == <<>>
           b2 == <<R!Id, "charging_preferences">>
           rows == {<<"GET", b1, "list", "page", None, None>>,
                    <<"PUT", b2, "set_charging_preferences", None, "json", "ChargingPreferences">>}
<1>1. BaseOf("sessions", "Sender") = <<"sessions">>
  BY Zenon, BaseAlone DEF BaseOf, Words
<1>3. q \in R!On("sessions", "Sender", BaseOf("sessions", "Sender"), None, rows)
  BY <1>1 DEF R!SessionsSender, None, R!None
<1> HIDE DEF b1, b2
<1>4. /\ q.module = "sessions" /\ q.role = "Sender"
      /\ \E row \in rows : Row(q, row[1], row[2], row[3], row[5], row[6])
  <2> HIDE DEF rows
  <2> QED
    BY <1>3, RowsOf
<1>5. PICK row \in rows : Row(q, row[1], row[2], row[3], row[5], row[6])
  BY <1>4
<1>6. \/ Row(q, "GET", b1, "list", None, None)
      \/ Row(q, "PUT", b2, "set_charging_preferences", "json", "ChargingPreferences")
  BY <1>5
<1> QED
  BY <1>4, <1>6 DEF b1, b2

LEMMA SessionsReceiverRows ==
    ASSUME NEW q \in R!SessionsReceiver(server.prefix)
    PROVE  /\ q.module = "sessions" /\ q.role = "Receiver"
           /\ \/ Row(q, "GET", <<R!Id, R!Id, R!Id>>, "session", None, None)
              \/ Row(q, "PUT", <<R!Id, R!Id, R!Id>>, "put_session", "json", "Session")
              \/ Row(q, "PATCH", <<R!Id, R!Id, R!Id>>, "patch_session", "patch", "Session")
<1> DEFINE b1 == <<R!Id, R!Id, R!Id>>
           rows == {<<"GET", b1, "session", None, None, None>>,
                    <<"PUT", b1, "put_session", None, "json", "Session">>,
                    <<"PATCH", b1, "patch_session", None, "patch", "Session">>}
<1>1. BaseOf("sessions", "Receiver") = R!ReceiverPath(server.prefix, <<"sessions">>)
  BY Zenon, BaseAlone DEF BaseOf, Words
<1>2. b1 = R!Owner \o <<R!Id>>
  <2>1. R!Id \in Words
    BY DEF Words
  <2> QED
    BY <2>1, Joins DEF R!Owner
<1>3. q \in R!On("sessions", "Receiver", BaseOf("sessions", "Receiver"), "owned", rows)
  BY Zenon, <1>1, <1>2 DEF R!SessionsReceiver, None, R!None
<1> HIDE DEF b1
<1>4. /\ q.module = "sessions" /\ q.role = "Receiver"
      /\ \E row \in rows : Row(q, row[1], row[2], row[3], row[5], row[6])
  <2> HIDE DEF rows
  <2> QED
    BY <1>3, RowsOf
<1>5. PICK row \in rows : Row(q, row[1], row[2], row[3], row[5], row[6])
  BY <1>4
<1>6. \/ Row(q, "GET", b1, "session", None, None)
      \/ Row(q, "PUT", b1, "put_session", "json", "Session")
      \/ Row(q, "PATCH", b1, "patch_session", "patch", "Session")
  BY <1>5
<1> QED
  BY <1>4, <1>6 DEF b1

LEMMA TariffsSenderRows ==
    ASSUME NEW q \in R!TariffsSender
    PROVE  /\ q.module = "tariffs" /\ q.role = "Sender"
           /\ \/ Row(q, "GET", <<>>, "list", None, None)
<1> DEFINE b1 == <<>>
           rows == {<<"GET", b1, "list", "page", None, None>>}
<1>1. BaseOf("tariffs", "Sender") = <<"tariffs">>
  BY Zenon, BaseAlone DEF BaseOf, Words
<1>3. q \in R!On("tariffs", "Sender", BaseOf("tariffs", "Sender"), None, rows)
  BY <1>1 DEF R!TariffsSender, None, R!None
<1> HIDE DEF b1
<1>4. /\ q.module = "tariffs" /\ q.role = "Sender"
      /\ \E row \in rows : Row(q, row[1], row[2], row[3], row[5], row[6])
  <2> HIDE DEF rows
  <2> QED
    BY <1>3, RowsOf
<1>5. PICK row \in rows : Row(q, row[1], row[2], row[3], row[5], row[6])
  BY <1>4
<1>6. \/ Row(q, "GET", b1, "list", None, None)
  BY <1>5
<1> QED
  BY <1>4, <1>6 DEF b1

LEMMA TariffsReceiverRows ==
    ASSUME NEW q \in R!TariffsReceiver(server.prefix)
    PROVE  /\ q.module = "tariffs" /\ q.role = "Receiver"
           /\ \/ Row(q, "GET", <<R!Id, R!Id, R!Id>>, "tariff", None, None)
              \/ Row(q, "PUT", <<R!Id, R!Id, R!Id>>, "put_tariff", "json", "Tariff")
              \/ Row(q, "DELETE", <<R!Id, R!Id, R!Id, "">>, "delete_tariff", None, None)
<1> DEFINE e == ""
<1> DEFINE b1 == <<R!Id, R!Id, R!Id>>
           b2 == <<R!Id, R!Id, R!Id, e>>
           rows == {<<"GET", b1, "tariff", None, None, None>>,
                    <<"PUT", b1, "put_tariff", None, "json", "Tariff">>,
                    <<"DELETE", b2, "delete_tariff", None, None, None>>}
<1>1. BaseOf("tariffs", "Receiver") = R!ReceiverPath(server.prefix, <<"tariffs">>)
  BY Zenon, BaseAlone DEF BaseOf, Words
<1>2. b1 = R!Owner \o <<R!Id>> /\ b2 = R!Owner \o <<R!Id, e>>
  <2>1. e \in Words /\ R!Id \in Words
    BY DEF Words
  <2> HIDE DEF e
  <2> QED
    BY <2>1, Joins DEF R!Owner
<1>3. q \in R!On("tariffs", "Receiver", BaseOf("tariffs", "Receiver"), "owned", rows)
  BY Zenon, <1>1, <1>2 DEF R!TariffsReceiver, None, R!None
<1> HIDE DEF b1, b2
<1>4. /\ q.module = "tariffs" /\ q.role = "Receiver"
      /\ \E row \in rows : Row(q, row[1], row[2], row[3], row[5], row[6])
  <2> HIDE DEF rows
  <2> QED
    BY <1>3, RowsOf
<1>5. PICK row \in rows : Row(q, row[1], row[2], row[3], row[5], row[6])
  BY <1>4
<1>6. \/ Row(q, "GET", b1, "tariff", None, None)
      \/ Row(q, "PUT", b1, "put_tariff", "json", "Tariff")
      \/ Row(q, "DELETE", b2, "delete_tariff", None, None)
  BY <1>5
<1> QED
  BY Zenon, <1>4, <1>6 DEF b1, b2

LEMMA CommandsReceiverRows ==
    ASSUME NEW q \in R!CommandsReceiver
    PROVE  /\ q.module = "commands" /\ q.role = "Receiver"
           /\ \/ Row(q, "POST", <<R!Id>>, "command", "command", "Command")
<1> DEFINE b1 == <<R!Id>>
           rows == {<<"POST", b1, "command", None, "command", "Command">>}
<1>1. BaseOf("commands", "Receiver") = <<"commands">>
  BY Zenon, BaseAlone DEF BaseOf, Words
<1>3. q \in R!On("commands", "Receiver", BaseOf("commands", "Receiver"), None, rows)
  BY <1>1 DEF R!CommandsReceiver, None, R!None
<1> HIDE DEF b1
<1>4. /\ q.module = "commands" /\ q.role = "Receiver"
      /\ \E row \in rows : Row(q, row[1], row[2], row[3], row[5], row[6])
  <2> HIDE DEF rows
  <2> QED
    BY <1>3, RowsOf
<1>5. PICK row \in rows : Row(q, row[1], row[2], row[3], row[5], row[6])
  BY <1>4
<1>6. \/ Row(q, "POST", b1, "command", "command", "Command")
  BY <1>5
<1> QED
  BY <1>4, <1>6 DEF b1

LEMMA CommandsSenderRows ==
    ASSUME NEW q \in R!CommandsSender
    PROVE  /\ q.module = "commands" /\ q.role = "Sender"
           /\ \/ Row(q, "POST", <<R!Id, R!Id>>, "command_result", "json", "CommandResult")
<1> DEFINE b1 == <<R!Id, R!Id>>
           rows == {<<"POST", b1, "command_result", None, "json", "CommandResult">>}
<1>1. BaseOf("commands", "Sender") = <<"commands">>
  BY Zenon, BaseAlone DEF BaseOf, Words
<1>3. q \in R!On("commands", "Sender", BaseOf("commands", "Sender"), None, rows)
  BY <1>1 DEF R!CommandsSender, None, R!None
<1> HIDE DEF b1
<1>4. /\ q.module = "commands" /\ q.role = "Sender"
      /\ \E row \in rows : Row(q, row[1], row[2], row[3], row[5], row[6])
  <2> HIDE DEF rows
  <2> QED
    BY <1>3, RowsOf
<1>5. PICK row \in rows : Row(q, row[1], row[2], row[3], row[5], row[6])
  BY <1>4
<1>6. \/ Row(q, "POST", b1, "command_result", "json", "CommandResult")
  BY <1>5
<1> QED
  BY <1>4, <1>6 DEF b1

LEMMA HubClientInfoSenderRows ==
    ASSUME NEW q \in R!HubClientInfoSender
    PROVE  /\ q.module = "hubclientinfo" /\ q.role = "Sender"
           /\ \/ Row(q, "GET", <<>>, "list", None, None)
<1> DEFINE b1 == <<>>
           rows == {<<"GET", b1, "list", "page", None, None>>}
<1>1. BaseOf("hubclientinfo", "Sender") = <<"hubclientinfo">>
  BY Zenon, BaseAlone DEF BaseOf, Words
<1>3. q \in R!On("hubclientinfo", "Sender", BaseOf("hubclientinfo", "Sender"), None, rows)
  BY <1>1 DEF R!HubClientInfoSender, None, R!None
<1> HIDE DEF b1
<1>4. /\ q.module = "hubclientinfo" /\ q.role = "Sender"
      /\ \E row \in rows : Row(q, row[1], row[2], row[3], row[5], row[6])
  <2> HIDE DEF rows
  <2> QED
    BY <1>3, RowsOf
<1>5. PICK row \in rows : Row(q, row[1], row[2], row[3], row[5], row[6])
  BY <1>4
<1>6. \/ Row(q, "GET", b1, "list", None, None)
  BY <1>5
<1> QED
  BY <1>4, <1>6 DEF b1

LEMMA HubClientInfoReceiverRows ==
    ASSUME NEW q \in R!HubClientInfoReceiver(server.prefix)
    PROVE  /\ q.module = "hubclientinfo" /\ q.role = "Receiver"
           /\ \/ Row(q, "GET", <<R!Id, R!Id>>, "client_info", None, None)
              \/ Row(q, "PUT", <<R!Id, R!Id>>, "put_client_info", "json", "ClientInfo")
<1> DEFINE b1 == <<R!Id, R!Id>>
           rows == {<<"GET", b1, "client_info", None, None, None>>,
                    <<"PUT", b1, "put_client_info", None, "json", "ClientInfo">>}
<1>1. BaseOf("hubclientinfo", "Receiver") = R!ReceiverPath(server.prefix, <<"hubclientinfo">>)
  BY Zenon, BaseAlone DEF BaseOf, Words
<1>2. b1 = R!Owner
  <2>1. R!Id \in Words
    BY DEF Words
  <2> QED
    BY <2>1, Joins DEF R!Owner
<1>3. q \in R!On("hubclientinfo", "Receiver", BaseOf("hubclientinfo", "Receiver"), "named", rows)
  BY <1>1, <1>2 DEF R!HubClientInfoReceiver, None, R!None
<1> HIDE DEF b1
<1>4. /\ q.module = "hubclientinfo" /\ q.role = "Receiver"
      /\ \E row \in rows : Row(q, row[1], row[2], row[3], row[5], row[6])
  <2> HIDE DEF rows
  <2> QED
    BY <1>3, RowsOf
<1>5. PICK row \in rows : Row(q, row[1], row[2], row[3], row[5], row[6])
  BY <1>4
<1>6. \/ Row(q, "GET", b1, "client_info", None, None)
      \/ Row(q, "PUT", b1, "put_client_info", "json", "ClientInfo")
  BY <1>5
<1> QED
  BY <1>4, <1>6 DEF b1

LEMMA ChargingProfilesReceiverRows ==
    ASSUME NEW q \in R!ChargingProfilesReceiver(server.prefix)
    PROVE  /\ q.module = "chargingprofiles" /\ q.role = "Receiver"
           /\ \/ Row(q, "GET", <<R!Id>>, "active_charging_profile", None, None)
              \/ Row(q, "PUT", <<R!Id>>, "set_charging_profile", "json", "SetChargingProfile")
              \/ Row(q, "DELETE", <<R!Id>>, "clear_charging_profile", None, None)
<1> DEFINE b1 == <<R!Id>>
           rows == {<<"GET", b1, "active_charging_profile", "profile", None, None>>,
                    <<"PUT", b1, "set_charging_profile", None, "json", "SetChargingProfile">>,
                    <<"DELETE", b1, "clear_charging_profile", "profile", None, None>>}
<1>1. BaseOf("chargingprofiles", "Receiver") = R!ReceiverPath(server.prefix, <<"chargingprofiles">>)
  BY Zenon, BaseAlone DEF BaseOf, Words
<1>3. q \in R!On("chargingprofiles", "Receiver", BaseOf("chargingprofiles", "Receiver"), None, rows)
  BY <1>1 DEF R!ChargingProfilesReceiver, None, R!None
<1> HIDE DEF b1
<1>4. /\ q.module = "chargingprofiles" /\ q.role = "Receiver"
      /\ \E row \in rows : Row(q, row[1], row[2], row[3], row[5], row[6])
  <2> HIDE DEF rows
  <2> QED
    BY <1>3, RowsOf
<1>5. PICK row \in rows : Row(q, row[1], row[2], row[3], row[5], row[6])
  BY <1>4
<1>6. \/ Row(q, "GET", b1, "active_charging_profile", None, None)
      \/ Row(q, "PUT", b1, "set_charging_profile", "json", "SetChargingProfile")
      \/ Row(q, "DELETE", b1, "clear_charging_profile", None, None)
  BY <1>5
<1> QED
  BY <1>4, <1>6 DEF b1

LEMMA ChargingProfilesSenderRows ==
    ASSUME NEW q \in R!ChargingProfilesSender
    PROVE  /\ q.module = "chargingprofiles" /\ q.role = "Sender"
           /\ \/ Row(q, "POST", <<"result", "active", R!Id>>, "active_charging_profile_result",
                 "json", "ActiveChargingProfileResult")
              \/ Row(q, "POST", <<"result", "set", R!Id>>, "charging_profile_result", "json",
                 "ChargingProfileResult")
              \/ Row(q, "POST", <<"result", "clear", R!Id>>, "clear_profile_result", "json",
                 "ClearProfileResult")
              \/ Row(q, "PUT", <<R!Id>>, "put_active_charging_profile", "json",
                 "ActiveChargingProfile")
<1> DEFINE b1 == <<"result", "active", R!Id>>
           b2 == <<"result", "set", R!Id>>
           b3 == <<"result", "clear", R!Id>>
           b4 == <<R!Id>>
           rows == {<<"POST", b1, "active_charging_profile_result", None, "json", "ActiveChargingProfileResult">>,
                    <<"POST", b2, "charging_profile_result", None, "json", "ChargingProfileResult">>,
                    <<"POST", b3, "clear_profile_result", None, "json", "ClearProfileResult">>,
                    <<"PUT", b4, "put_active_charging_profile", None, "json", "ActiveChargingProfile">>}
<1>1. BaseOf("chargingprofiles", "Sender") = <<"chargingprofiles">>
  BY Zenon, BaseAlone DEF BaseOf, Words
<1>3. q \in R!On("chargingprofiles", "Sender", BaseOf("chargingprofiles", "Sender"), None, rows)
  BY <1>1 DEF R!ChargingProfilesSender, None, R!None
<1> HIDE DEF b1, b2, b3, b4
<1>4. /\ q.module = "chargingprofiles" /\ q.role = "Sender"
      /\ \E row \in rows : Row(q, row[1], row[2], row[3], row[5], row[6])
  <2> HIDE DEF rows
  <2> QED
    BY <1>3, RowsOf
<1>5. PICK row \in rows : Row(q, row[1], row[2], row[3], row[5], row[6])
  BY <1>4
<1>6. \/ Row(q, "POST", b1, "active_charging_profile_result", "json", "ActiveChargingProfileResult")
      \/ Row(q, "POST", b2, "charging_profile_result", "json", "ChargingProfileResult")
      \/ Row(q, "POST", b3, "clear_profile_result", "json", "ClearProfileResult")
      \/ Row(q, "PUT", b4, "put_active_charging_profile", "json", "ActiveChargingProfile")
  BY <1>5
<1> QED
  BY <1>4, <1>6 DEF b1, b2, b3, b4

LEMMA PaymentsSenderRows ==
    ASSUME NEW q \in R!PaymentsSender
    PROVE  /\ q.module = "payments" /\ q.role = "Sender"
           /\ \/ Row(q, "GET", <<"terminals">>, "terminals", None, None)
              \/ Row(q, "POST", <<"terminals", "activate">>, "activate_terminal", "partial",
                 "Terminal")
              \/ Row(q, "GET", <<"terminals", R!Id>>, "terminal", None, None)
              \/ Row(q, "PUT", <<"terminals", R!Id>>, "put_terminal", "json", "Terminal")
              \/ Row(q, "PATCH", <<"terminals", R!Id>>, "patch_terminal", "patch", "Terminal")
              \/ Row(q, "POST", <<"terminals", R!Id, "deactivate">>, "deactivate_terminal", None,
                 None)
              \/ Row(q, "GET", <<"financial-advice-confirmations">>,
                 "financial_advice_confirmations", None, None)
              \/ Row(q, "GET", <<"financial-advice-confirmations", R!Id>>,
                 "financial_advice_confirmation", None, None)
<1> DEFINE b1 == <<"terminals">>
           b2 == <<"terminals", "activate">>
           b3 == <<"terminals", R!Id>>
           b4 == <<"terminals", R!Id, "deactivate">>
           b5 == <<"financial-advice-confirmations">>
           b6 == <<"financial-advice-confirmations", R!Id>>
           rows == {<<"GET", b1, "terminals", "page", None, None>>,
                    <<"POST", b2, "activate_terminal", None, "partial", "Terminal">>,
                    <<"GET", b3, "terminal", None, None, None>>,
                    <<"PUT", b3, "put_terminal", None, "json", "Terminal">>,
                    <<"PATCH", b3, "patch_terminal", None, "patch", "Terminal">>,
                    <<"POST", b4, "deactivate_terminal", None, None, None>>,
                    <<"GET", b5, "financial_advice_confirmations", "page", None, None>>,
                    <<"GET", b6, "financial_advice_confirmation", None, None, None>>}
<1>1. BaseOf("payments", "Sender") = <<"payments">>
  BY Zenon, BaseAlone DEF BaseOf, Words
<1>2. b2 = R!Terminals \o <<"activate">> /\ b3 = R!Terminals \o <<R!Id>>
          /\ b4 = R!Terminals \o <<R!Id, "deactivate">> /\ b6 = R!Confirmations \o <<R!Id>>
  <2>1. "activate" \in Words /\ "deactivate" \in Words
            /\ "financial-advice-confirmations" \in Words /\ "terminals" \in Words /\ R!Id \in Words
    BY DEF Words
  <2> QED
    BY <2>1, Joins DEF R!Terminals, R!Confirmations
<1>3. q \in R!On("payments", "Sender", BaseOf("payments", "Sender"), None, rows)
  BY Zenon, <1>1, <1>2 DEF R!PaymentsSender, None, R!None, R!Terminals, R!Confirmations
<1> HIDE DEF b1, b2, b3, b4, b5, b6
<1>4. /\ q.module = "payments" /\ q.role = "Sender"
      /\ \E row \in rows : Row(q, row[1], row[2], row[3], row[5], row[6])
  <2> HIDE DEF rows
  <2> QED
    BY <1>3, RowsOf
<1>5. PICK row \in rows : Row(q, row[1], row[2], row[3], row[5], row[6])
  BY <1>4
<1>6. \/ Row(q, "GET", b1, "terminals", None, None)
      \/ Row(q, "POST", b2, "activate_terminal", "partial", "Terminal")
      \/ Row(q, "GET", b3, "terminal", None, None)
      \/ Row(q, "PUT", b3, "put_terminal", "json", "Terminal")
      \/ Row(q, "PATCH", b3, "patch_terminal", "patch", "Terminal")
      \/ Row(q, "POST", b4, "deactivate_terminal", None, None)
      \/ Row(q, "GET", b5, "financial_advice_confirmations", None, None)
      \/ Row(q, "GET", b6, "financial_advice_confirmation", None, None)
  BY <1>5
<1> QED
  BY <1>4, <1>6 DEF b1, b2, b3, b4, b5, b6

LEMMA PaymentsReceiverRows ==
    ASSUME NEW q \in R!PaymentsReceiver(server.prefix)
    PROVE  /\ q.module = "payments" /\ q.role = "Receiver"
           /\ \/ Row(q, "POST", <<"terminals">>, "post_terminal", "json", "Terminal")
              \/ Row(q, "GET", <<"terminals", R!Id>>, "terminal", None, None)
              \/ Row(q, "POST", <<"financial-advice-confirmations">>,
                 "post_financial_advice_confirmation", "json", "FinancialAdviceConfirmation")
              \/ Row(q, "GET", <<"financial-advice-confirmations", R!Id>>,
                 "financial_advice_confirmation", None, None)
<1> DEFINE b1 == <<"terminals">>
           b2 == <<"terminals", R!Id>>
           b3 == <<"financial-advice-confirmations">>
           b4 == <<"financial-advice-confirmations", R!Id>>
           rows == {<<"POST", b1, "post_terminal", None, "json", "Terminal">>,
                    <<"GET", b2, "terminal", None, None, None>>,
                    <<"POST", b3, "post_financial_advice_confirmation", None, "json", "FinancialAdviceConfirmation">>,
                    <<"GET", b4, "financial_advice_confirmation", None, None, None>>}
<1>1. BaseOf("payments", "Receiver") = R!ReceiverPath(server.prefix, <<"payments">>)
  BY Zenon, BaseAlone DEF BaseOf, Words
<1>2. b2 = R!Terminals \o <<R!Id>> /\ b4 = R!Confirmations \o <<R!Id>>
  <2>1. "financial-advice-confirmations" \in Words /\ "terminals" \in Words /\ R!Id \in Words
    BY DEF Words
  <2> QED
    BY <2>1, Joins DEF R!Terminals, R!Confirmations
<1>3. q \in R!On("payments", "Receiver", BaseOf("payments", "Receiver"), None, rows)
  BY Zenon, <1>1, <1>2 DEF R!PaymentsReceiver, None, R!None, R!Terminals, R!Confirmations
<1> HIDE DEF b1, b2, b3, b4
<1>4. /\ q.module = "payments" /\ q.role = "Receiver"
      /\ \E row \in rows : Row(q, row[1], row[2], row[3], row[5], row[6])
  <2> HIDE DEF rows
  <2> QED
    BY <1>3, RowsOf
<1>5. PICK row \in rows : Row(q, row[1], row[2], row[3], row[5], row[6])
  BY <1>4
<1>6. \/ Row(q, "POST", b1, "post_terminal", "json", "Terminal")
      \/ Row(q, "GET", b2, "terminal", None, None)
      \/ Row(q, "POST", b3, "post_financial_advice_confirmation", "json",
         "FinancialAdviceConfirmation")
      \/ Row(q, "GET", b4, "financial_advice_confirmation", None, None)
  BY <1>5
<1> QED
  BY <1>4, <1>6 DEF b1, b2, b3, b4

-----------------------------------------------------------------------------
(* Where a request goes.                                                   *)

ModuleNames ==
    {"credentials", "locations", "tokens", "cdrs", "sessions", "tariffs", "commands",
     "hubclientinfo", "chargingprofiles", "payments"}

(* Where a request starts from.                                             *)
From(r) ==
    IF r.call.module = "commands" /\ ~r.kit THEN <<"commands">>
    ELSE Advertised(r.call.module, r.call.role)

(* What follows a base can be put together first.                           *)
Together(base, x, y, z) == base \o x \o y \o z = base \o (x \o y \o z)

LEMMA AllTogether ==
    ASSUME NEW S, NEW base \in Seq(S), NEW x \in Seq(S), NEW y \in Seq(S), NEW z \in Seq(S)
    PROVE  Together(base, x, y, z)
<1> DEFINE w == x \o y
<1>1. w \in Seq(S)
  OBVIOUS
<1>2. (base \o x) \o y = base \o w
  BY SMTT(30), ConcatAssociative
<1> HIDE DEF w
<1>3. (base \o w) \o z = base \o (w \o z)
  BY SMTT(30), <1>1, ConcatAssociative
<1> QED
  BY <1>2, <1>3 DEF w, Together

LEMMA BasesAre ==
    ASSUME NEW m \in ModuleNames, NEW prefix
    PROVE  /\ R!ReceiverPath(prefix, <<m>>) \in Seq(Words)
           /\ prefix = None => R!ReceiverPath(prefix, <<m>>) = <<m>>
           /\ prefix # None => R!ReceiverPath(prefix, <<m>>) = <<"receiver">> \o <<m>>
<1>1. m \in Words /\ "receiver" \in Words
  BY ZenonT(30) DEF Words, ModuleNames
<1>2. <<m>> \in Seq(Words) /\ <<"receiver">> \in Seq(Words)
  BY <1>1, Singles
<1>3. <<"receiver">> \o <<m>> \in Seq(Words)
  BY <1>2
<1>4. prefix = None => R!ReceiverPath(prefix, <<m>>) = <<m>>
  BY <1>1, BaseAlone
<1>5. prefix # None => R!ReceiverPath(prefix, <<m>>) = <<"receiver">> \o <<m>>
  BY DEF R!ReceiverPath, None, R!None
<1> QED
  BY Zenon, <1>2, <1>3, <1>4, <1>5

LEMMA SubPathIs ==
    ASSUME NEW base, NEW segment, base = <<>> \/ base[Len(base)] # segment
    PROVE  C!E!SubPath(base, segment) = Append(base, segment)
BY DEF C!E!SubPath

(* What holds of any call a request makes.                                  *)
Proper(c) ==
    /\ c.module \in ModuleNames /\ c.role \in Interfaces
    /\ c.sub \in Seq(Words)
    /\ c.under = None \/ (c.module = "payments" /\ c.under \in Words \ {"payments"})

LEMMA Lengths ==
    ASSUME NEW S, NEW a \in S, NEW b \in S
    PROVE  /\ Len(<<a>>) = 1 /\ <<a>>[1] = a /\ <<a>> # <<>>
           /\ Len(<<a>> \o <<b>>) = 2 /\ (<<a>> \o <<b>>)[2] = b
  OBVIOUS

LEMMA PathIs ==
    ASSUME NEW r, Proper(r.call), r.party \in {"own", "other", "bad"}
    PROVE  /\ Path(r) = From(r) \o Below(r) /\ Below(r) \in Seq(Words)
           /\ From(r) \in Seq(Words)
<1> DEFINE parties == IF r.call.names THEN Parties[r.party] ELSE <<>>
           under == IF r.call.under = None THEN <<>> ELSE <<r.call.under>>
           sub == r.call.sub
           base == From(r)
<1>1. parties \in Seq(Words)
  <2>1. <<>> \in Seq(Words)
    BY EmptySeq
  <2> QED
    BY Zenon, <2>1, PartiesAre
<1>2. under \in Seq(Words)
  BY Singles DEF Proper
<1>3. sub \in Seq(Words)
  BY DEF Proper
<1>4. base \in Seq(Words)
  <2>1. <<"commands">> \in Seq(Words)
    BY Singles DEF Words
  <2> QED
    BY Zenon, <2>1, BasesAre DEF From, Advertised, Proper
<1>5. r.call.under # None => base # <<>> /\ base[Len(base)] # r.call.under
  <2> SUFFICES ASSUME r.call.under # None PROVE base # <<>> /\ base[Len(base)] # r.call.under
    OBVIOUS
  <2>1. r.call.module = "payments" /\ r.call.under # "payments"
    BY DEF Proper
  <2>2. "payments" \in ModuleNames /\ "payments" \in Words /\ "receiver" \in Words
    BY DEF ModuleNames, Words
  <2>3. base = <<"payments">> \/ base = <<"receiver">> \o <<"payments">>
    BY Zenon, <2>1, <2>2, BasesAre DEF From, Advertised
  <2>4. base # <<>> /\ base[Len(base)] = "payments"
    BY <2>2, <2>3, Lengths
  <2> QED
    BY <2>1, <2>4
<1>6. Path(r) = (IF r.call.under = None THEN base ELSE Append(base, r.call.under)) \o parties \o sub
  <2>1. r.call.under # None => C!E!SubPath(base, r.call.under) = Append(base, r.call.under)
    BY <1>5, SubPathIs
  <2>2. Path(r) = (IF r.call.under = None THEN base ELSE C!E!SubPath(base,
            r.call.under)) \o parties \o sub
    BY DEF Path, From
  <2> QED
    BY Zenon, <2>1, <2>2
<1>7. Below(r) = under \o parties \o sub
  BY DEF Below
<1> HIDE DEF parties, sub, base
<1>8. CASE r.call.under = None
  <2>1. Path(r) = base \o parties \o sub /\ Below(r) = <<>> \o parties \o sub
    BY <1>6, <1>7, <1>8
  <2>4. <<>> \in Seq(Words) /\ base \o <<>> = base
    BY <1>4, EmptySeq, ConcatEmptySeq
  <2>3. base \o <<>> \o parties \o sub = base \o (<<>> \o parties \o sub)
    <3>1. Together(base, <<>>, parties, sub)
      BY Zenon, <1>1, <1>3, <1>4, <2>4, AllTogether
    <3> QED
      BY Zenon, <3>1 DEF Together
  <2>5. <<>> \o parties \o sub \in Seq(Words)
    BY <1>1, <1>3, <2>4, ThreeParts
  <2> QED
    BY Zenon, <1>4, <2>1, <2>3, <2>4, <2>5 DEF base
<1>9. CASE r.call.under # None
  <2>1. r.call.under \in Words
    BY <1>9 DEF Proper
  <2> QED
    <3> DEFINE u == r.call.under
    <3>1. Path(r) = Append(base, u) \o parties \o sub /\ Below(r) = <<u>> \o parties \o sub
      BY <1>6, <1>7, <1>9
    <3>5. u \in Words
      BY <2>1
    <3> HIDE DEF u
    <3>2. Append(base, u) \o parties \o sub = base \o (<<u>> \o parties \o sub)
      <4> DEFINE t == <<u>>
      <4>1. t \in Seq(Words) /\ Append(base, u) = base \o t
        BY <1>4, <3>5, Singles, AppendIsConcat
      <4> HIDE DEF t
      <4>3. Together(base, t, parties, sub)
        BY <1>1, <1>3, <1>4, <4>1, AllTogether
      <4>2. (base \o t) \o parties \o sub = base \o (t \o parties \o sub)
        BY <4>3 DEF Together
      <4> QED
        BY Zenon, <4>1, <4>2 DEF t
    <3>3. <<u>> \in Seq(Words)
      BY <3>5, Singles
    <3>4. <<u>> \o parties \o sub \in Seq(Words)
      BY <1>1, <1>3, <3>3, ThreeParts
    <3> QED
      BY <1>4, <3>1, <3>2, <3>4 DEF base
<1> QED
  BY <1>4, <1>8, <1>9 DEF base

(* Any call that is not below a URL of its own.                             *)
Usual(c) == c.role \in {"Sender", "Receiver"} /\ c.under = None /\ c.sub \in Seq(Words)

LEMMA UsualCalls ==
    ASSUME NEW c, c.module \in ModuleNames, Usual(c)
    PROVE  Proper(c)
BY DEF Usual, Proper, Interfaces

LEMMA CallsAreProper ==
    ASSUME NEW c \in C!AllCalls \cup OtherCalls
    PROVE  Proper(c)
<1>0. c.module \in ModuleNames
  BY ModulesOfCalls, CallsOfModules DEF ModuleNames
<1>1. CASE c \in C!RegistrationCalls
  BY Zenon, <1>0, <1>1, RegistrationLines, UsualCalls DEF Line, Good, Usual
<1>2. CASE c \in C!LocationsSenderCalls
  BY Zenon, <1>0, <1>2, LocationsSenderLines, UsualCalls DEF Line, Good, Usual
<1>3. CASE c \in C!LocationsReceiverCalls
  BY Zenon, <1>0, <1>3, LocationsReceiverLines, UsualCalls DEF Line, Good, Usual
<1>4. CASE c \in C!TokensSenderCalls
  BY Zenon, <1>0, <1>4, TokensSenderLines, UsualCalls DEF Line, Good, Usual
<1>5. CASE c \in C!TokensReceiverCalls
  BY Zenon, <1>0, <1>5, TokensReceiverLines, UsualCalls DEF Line, Good, Usual
<1>6. CASE c \in C!CdrsCalls
  BY Zenon, <1>0, <1>6, CdrsLines, UsualCalls DEF Line, Good, Usual
<1>7. CASE c \in C!CommandsCalls
  BY Zenon, <1>0, <1>7, CommandsLines, UsualCalls DEF Line, Good, Usual
<1>8. CASE c \in C!SessionsSenderCalls
  BY Zenon, <1>0, <1>8, SessionsSenderLines, UsualCalls DEF Line, Good, Usual
<1>9. CASE c \in C!SessionsReceiverCalls
  BY Zenon, <1>0, <1>9, SessionsReceiverLines, UsualCalls DEF Line, Good, Usual
<1>10. CASE c \in C!TariffsCalls
  BY Zenon, <1>0, <1>10, TariffsLines, UsualCalls DEF Line, Good, Usual
<1>11. CASE c \in C!ChargingProfilesCalls
  BY Zenon, <1>0, <1>11, ChargingProfilesLines, UsualCalls DEF Line, Good, Usual
<1>12. CASE c \in C!HubClientInfoCalls
  BY Zenon, <1>0, <1>12, HubClientInfoLines, UsualCalls DEF Line, Good, Usual
<1>13. ASSUME c \in C!PaymentsCalls PROVE Proper(c)
  <2>1. c.module = "payments" /\ "payments" \in ModuleNames
    BY <1>13, ModulesOfCalls DEF ModuleNames
  <2>2. c.role \in {"Sender", "Receiver"} /\ c.sub \in Seq(Words)
        /\ c.under \in {"terminals", "financial-advice-confirmations"}
    BY Zenon, <1>13, PaymentsLines DEF Line, Good
  <2>3. {"terminals", "financial-advice-confirmations"} \subseteq Words \ {"payments"}
    BY DEF Words
  <2> QED
    BY <2>1, <2>2, <2>3 DEF Proper, Interfaces
<1>14. CASE c \in C!CallbackCalls
  BY Zenon, <1>0, <1>14, CallbackLines, UsualCalls DEF Line, Good, Usual
<1>15. ASSUME c \in OtherCalls PROVE Proper(c)
  <2>1. c.module \in ModuleNames
    BY <1>15, ModulesOfCalls DEF ModuleNames
  <2> DEFINE e == ""
             s == <<"T1", e>>
  <2>2. s \in Seq(Words)
    <3>1. "T1" \in Words /\ e \in Words
      BY DEF Words
    <3> HIDE DEF e
    <3> QED
      BY <3>1, Singles
  <2>3. Usual(c) \/ (c.role = "Receiver" /\ c.under = None /\ c.sub = s)
    <3>1. c.sub = s \/ c.sub # s
      OBVIOUS
    <3> HIDE DEF s
    <3>2. \/ Line(c, "Receiver", None, 0, "POST", 1, "command", "StopSession", None,
             "CommandResponse", None)
          \/ c.role = "Receiver" /\ c.under = None /\ c.sub = s
      BY Zenon, <1>15, OtherLines DEF s
    <3> QED
      BY Zenon, <3>2 DEF Line, Good, Usual
  <2> HIDE DEF s
  <2>4. Usual(c)
    BY <2>2, <2>3 DEF Usual
  <2> QED
    BY <2>1, <2>4, UsualCalls
<1> QED
  BY <1>1, <1>2, <1>3, <1>4, <1>5, <1>6, <1>7, <1>8, <1>9, <1>10, <1>11, <1>12, <1>13, <1>14,
     <1>15, CallsOfModules

LEMMA BelowIs ==
    ASSUME NEW r, Proper(r.call), r.party \in {"own", "other", "bad"}
    PROVE  /\ Below(r) \in Seq(Words)
           /\ Len(Below(r)) = (IF r.call.under = None THEN 0 ELSE 1) + (IF r.call.names THEN 2 ELSE 0)
                              + Len(r.call.sub)
           /\ r.call.under = None /\ ~r.call.names => Below(r) = r.call.sub
           /\ r.call.under # None => Below(r)[1] = r.call.under
<1> DEFINE parties == IF r.call.names THEN Parties[r.party] ELSE <<>>
           under == IF r.call.under = None THEN <<>> ELSE <<r.call.under>>
           sub == r.call.sub
<1>0. <<>> \in Seq(Words) /\ Len(<<>>) = 0
  BY EmptySeq
<1>a. Parties[r.party] \in Seq(Words) /\ Len(Parties[r.party]) = 2
  BY Zenon, PartiesAre
<1>1. parties \in Seq(Words) /\ Len(parties) = IF r.call.names THEN 2 ELSE 0
  <2>1. CASE r.call.names
    BY <1>a, <2>1
  <2>2. CASE ~r.call.names
    BY <1>0, <2>2
  <2> QED
    BY <2>1, <2>2
<1>2. under \in Seq(Words) /\ Len(under) = (IF r.call.under = None THEN 0 ELSE 1)
      /\ (r.call.under # None => under[1] = r.call.under)
  <2>1. CASE r.call.under = None
    BY <1>0, <2>1
  <2>2. CASE r.call.under # None
    <3>1. r.call.under \in Words
      BY <2>2 DEF Proper
    <3>2. <<r.call.under>> \in Seq(Words) /\ Len(<<r.call.under>>) = 1
              /\ <<r.call.under>>[1] = r.call.under
      BY <3>1, Singles, Lengths
    <3> QED
      BY <2>2, <3>2
  <2> QED
    BY <2>1, <2>2
<1>3. sub \in Seq(Words)
  BY DEF Proper
<1>4. Below(r) = under \o parties \o sub
  BY DEF Below
<1> HIDE DEF parties, under, sub
<1>5. /\ under \o parties \o sub \in Seq(Words)
      /\ Len(under \o parties \o sub) = Len(under) + Len(parties) + Len(sub)
      /\ Len(under) = 0 /\ Len(parties) = 0 => under \o parties \o sub = sub
      /\ Len(under) = 1 => (under \o parties \o sub)[1] = under[1]
  <2>1. under \in Seq(Words) /\ parties \in Seq(Words) /\ sub \in Seq(Words)
    BY <1>1, <1>2, <1>3
  <2> QED
    BY ONLY <2>1, ThreeParts
<1> QED
  BY Zenon, <1>1, <1>2, <1>4, <1>5 DEF sub

(* A call none of whose own segments is empty has none below its base.      *)
LEMMA BelowWhole ==
    ASSUME NEW r, Proper(r.call), r.party \in {"own", "other", "bad"}, r.call.under # "",
           \A i \in DOMAIN r.call.sub : r.call.sub[i] # ""
    PROVE  \A i \in DOMAIN Below(r) : Below(r)[i] # ""
<1> DEFINE parties == IF r.call.names THEN Parties[r.party] ELSE <<>>
           under == IF r.call.under = None THEN <<>> ELSE <<r.call.under>>
           sub == r.call.sub
           e == ""
<1>0. <<>> \in Seq(Words) /\ DOMAIN <<>> = {}
  <2>1. DOMAIN <<>> = {}
    BY ONLY EmptySeq
  <2> QED
    BY Zenon, <2>1, EmptySeq
<1>1. parties \in Seq(Words) /\ \A i \in DOMAIN parties : parties[i] # e
  BY Zenon, <1>0, PartiesAre
<1>2. under \in Seq(Words) /\ \A i \in DOMAIN under : under[i] # e
  <2>1. CASE r.call.under = None
    BY Zenon, <1>0, <2>1
  <2>2. CASE r.call.under # None
    <3> DEFINE u == r.call.under
    <3>1. u \in Words /\ u # e
      BY Zenon, <2>2 DEF Proper
    <3>3. under = <<u>>
      BY Zenon, <2>2
    <3> HIDE DEF u, e, under
    <3>2. <<u>> \in Seq(Words) /\ \A i \in DOMAIN <<u>> : <<u>>[i] # e
      BY ONLY <3>1
    <3> QED
      BY Zenon, <3>2, <3>3
  <2> QED
    BY Zenon, <2>1, <2>2
<1>3. sub \in Seq(Words) /\ \A i \in DOMAIN sub : sub[i] # e
  BY Zenon DEF Proper
<1>4. Below(r) = under \o parties \o sub
  BY Zenon DEF Below
<1> HIDE DEF parties, under, sub, e
<1>5. under \o parties \in Seq(Words)
  BY ONLY <1>1, <1>2
<1>6. \A i \in DOMAIN (under \o parties) : (under \o parties)[i] # e
  BY Zenon, <1>1, <1>2, WholeParts
<1>7. \A i \in DOMAIN ((under \o parties) \o sub) : ((under \o parties) \o sub)[i] # e
  <2> DEFINE both == under \o parties
  <2>1. both \in Seq(Words) /\ \A i \in DOMAIN both : both[i] # e
    BY Zenon, <1>5, <1>6
  <2> HIDE DEF both
  <2>2. \A i \in DOMAIN (both \o sub) : (both \o sub)[i] # e
    BY Zenon, <1>3, <2>1, WholeParts
  <2> QED
    BY Zenon, <2>2 DEF both
<1> QED
  BY Zenon, <1>4, <1>7 DEF e

-----------------------------------------------------------------------------
(* A route a request fits is one of its own module.                        *)

LEMMA MoveOver ==
    ASSUME NEW S, NEW a \in S, NEW b \in S, NEW x \in Seq(S)
    PROVE  (<<a>> \o <<b>>) \o x = <<a>> \o (<<b>> \o x) /\ <<a>> \in Seq(S)
               /\ <<b>> \o x \in Seq(S)
<1>1. <<a>> \in Seq(S) /\ <<b>> \in Seq(S)
  OBVIOUS
<1>2. (<<a>> \o <<b>>) \o x = <<a>> \o (<<b>> \o x)
  BY <1>1, ConcatAssociative
<1> QED
  BY <1>1, <1>2

Starts(base, p, m) == base = <<m>> \/ base = <<p>> \o <<m>>

(* Two bases, each a module or the prefix and a module: a path under one     *)
(* fits a pattern under the other only when they are the same.              *)
LEMMA SameBase ==
    ASSUME NEW S, NEW m \in S, NEW k \in S, NEW p \in S, NEW x \in Seq(S), NEW y \in Seq(S),
           m # R!Id, p # R!Id, m # p, k # p, NEW base, NEW from,
           Starts(base, p, m), Starts(from, p, k),
           R!Fits(base \o x, from \o y)
    PROVE  m = k /\ R!Fits(x, y) /\ base = from
<1>1. CASE base = <<m>> /\ from = <<k>>
  <2>1. m = k
    BY <1>1, FirstFits
  <2>2. <<m>> \in Seq(S)
    OBVIOUS
  <2>3. R!Fits(x, y)
    BY Zenon, <1>1, <2>1, <2>2, FitsBelow
  <2> QED
    BY <1>1, <2>1, <2>3
<1>2. CASE base = <<m>> /\ from = <<p>> \o <<k>>
  <2>1. from \o y = <<p>> \o (<<k>> \o y) /\ <<k>> \o y \in Seq(S)
    BY <1>2, MoveOver
  <2>2. R!Fits(<<m>> \o x, <<p>> \o (<<k>> \o y))
    BY Zenon, <1>2, <2>1
  <2> QED
    BY Zenon, <2>1, <2>2, FirstFits
<1>3. CASE base = <<p>> \o <<m>> /\ from = <<k>>
  <2>1. base \o x = <<p>> \o (<<m>> \o x) /\ <<m>> \o x \in Seq(S)
    BY <1>3, MoveOver
  <2>2. R!Fits(<<p>> \o (<<m>> \o x), <<k>> \o y)
    BY Zenon, <1>3, <2>1
  <2> QED
    BY Zenon, <2>1, <2>2, FirstFits
<1>4. CASE base = <<p>> \o <<m>> /\ from = <<p>> \o <<k>>
  <2> DEFINE u == <<m>> \o x
             v == <<k>> \o y
  <2>1. base \o x = <<p>> \o u /\ u \in Seq(S) /\ from \o y = <<p>> \o v /\ v \in Seq(S)
            /\ <<p>> \in Seq(S)
    BY <1>4, MoveOver
  <2> HIDE DEF u, v
  <2>2. R!Fits(u, v)
    BY Zenon, <2>1, FitsBelow
  <2>3. m = k
    BY <2>2, FirstFits DEF u, v
  <2>4. <<m>> \in Seq(S)
    OBVIOUS
  <2>5. R!Fits(x, y)
    BY Zenon, <2>2, <2>3, <2>4, FitsBelow DEF u, v
  <2> QED
    BY <1>4, <2>3, <2>5
<1> QED
  BY Zenon, <1>1, <1>2, <1>3, <1>4 DEF Starts

(* What is mounted: the interfaces of one module, and credentials.          *)
LEMMA ServersAre ==
    ASSUME NEW s \in Servers
    PROVE  /\ s.prefix \in {None, "bare", "slashed"} /\ Bridgeable(Canonical, s.version)
           /\ \A m : s.prefix = None /\ <<m, "Sender">> \in s.mounted
              /\ <<m, "Receiver">> \in s.mounted
                     => m \notin Ambiguous /\ ~Bridging(s.version)
<1>1. PICK module \in Served :
         s \in {t \in [mounted : {Mounted(roles, module) : roles \in (SUBSET Interfaces) \ {{}}},
                       prefix : {None, "bare", "slashed"}, version : {"2.1.1"} \cup Versions] :
                   Builds(t, module)}
  BY DEF Servers
<1>2. PICK roles \in SUBSET Interfaces : s.mounted = Mounted(roles, module)
  BY <1>1
<1>3. s.prefix \in {None, "bare", "slashed"} /\ Builds(s, module)
  BY <1>1
<1>4. \A m : <<m, "Receiver">> \in s.mounted => m = module
  BY <1>2 DEF Mounted
<1>5. ASSUME s.prefix = None, NEW m, <<m, "Sender">> \in s.mounted, <<m, "Receiver">> \in s.mounted
      PROVE  m \notin Ambiguous /\ ~Bridging(s.version)
  <2>1. m = module
    BY <1>4, <1>5
  <2>2. \A r \in Interfaces : <<module, r>> \in s.mounted
    BY <1>5, <2>1 DEF Interfaces
  <2> QED
    BY <1>3, <1>5, <2>1, <2>2 DEF Builds
<1> QED
  BY <1>3, <1>5 DEF Builds

(* A route a request's path fits is one of the module of its call, and what *)
(* is below fits what is below; of the interface of its call too, where the *)
(* interfaces of the module have paths of the same shape.                   *)
LEMMA Found ==
    ASSUME server \in Servers, NEW r \in Requests, NEW m \in ModuleNames, NEW role \in Interfaces,
           <<m, role>> \in server.mounted, NEW below \in Seq(Words),
           R!Fits(BaseOf(m, role) \o below, Path(r))
    PROVE  /\ m = r.call.module /\ R!Fits(below, Below(r)) /\ BaseOf(m, role) = From(r)
           /\ role = r.call.role \/ m \notin Ambiguous
<1> DEFINE k == r.call.module
           base == BaseOf(m, role)
           from == From(r)
           p == "receiver"
<1>1. Proper(r.call) /\ r.party \in {"own", "other", "bad"} /\ <<k, r.call.role>> \in server.mounted
  BY RequestIs, CallsAreProper
<1>2. Path(r) = from \o Below(r) /\ Below(r) \in Seq(Words)
  BY <1>1, PathIs
<1>3. k \in ModuleNames /\ r.call.role \in Interfaces
  BY <1>1 DEF Proper
<1>4. /\ base = <<m>> \/ base = <<p>> \o <<m>>
      /\ role = "Receiver" /\ m # "commands" /\ server.prefix # None => base = <<p>> \o <<m>>
      /\ role = "Sender" => base = <<m>>
  <2> DEFINE prefix == IF role = "Receiver" /\ m # "commands" THEN server.prefix ELSE None
  <2>1. base = R!ReceiverPath(prefix, <<m>>)
    BY DEF BaseOf
  <2> HIDE DEF base
  <2> QED
    BY Zenon, <2>1, BasesAre
<1>5. /\ from = <<k>> \/ from = <<p>> \o <<k>>
      /\ r.call.role = "Receiver" /\ k # "commands" /\ server.prefix # None => from = <<p>> \o <<k>>
      /\ r.call.role = "Sender" => from = <<k>>
  <2> DEFINE prefix == IF r.call.role = "Receiver" THEN server.prefix ELSE None
  <2>1. IF k = "commands" /\ ~r.kit THEN from = <<k>> ELSE from = R!ReceiverPath(prefix, <<k>>)
    BY DEF From, Advertised
  <2> HIDE DEF from
  <2> QED
    BY Zenon, <1>3, <2>1, BasesAre
<1>6. m \in Words /\ k \in Words /\ p \in Words /\ m # R!Id /\ p # R!Id /\ m # p /\ k # p
  <2>1. ModuleNames \subseteq Words /\ p \in Words /\ p # R!Id
    BY ZenonT(30) DEF ModuleNames, Words, R!Id
  <2>2. \A n \in ModuleNames : n # R!Id /\ n # p
    BY Zenon DEF ModuleNames, R!Id
  <2> QED
    BY <1>3, <2>1, <2>2
<1>7. R!Fits(base \o below, from \o Below(r))
  BY <1>2
<1> HIDE DEF k, base, from, p
<1>8. m = k /\ R!Fits(below, Below(r)) /\ base = from
  <2> DEFINE rest == Below(r)
  <2>1. rest \in Seq(Words) /\ below \in Seq(Words)
    BY <1>2
  <2>2. Starts(base, p, m)
    BY <1>4 DEF Starts
  <2>3. Starts(from, p, k)
    BY <1>5 DEF Starts
  <2>4. R!Fits(base \o below, from \o rest)
    BY <1>7
  <2> HIDE DEF rest
  <2>5. m = k /\ R!Fits(below, rest) /\ base = from
    BY ONLY <1>6, <2>1, <2>2, <2>3, <2>4, SameBase
  <2> QED
    BY <2>5 DEF rest
<1>9. ASSUME role # r.call.role, m \in Ambiguous PROVE FALSE
  <2>1. server.prefix # None
    BY <1>1, <1>3, <1>8, <1>9, ServersAre DEF Interfaces
  <2>2. m # "commands"
    BY <1>9 DEF Ambiguous
  <2>3. (base = <<m>> /\ from = <<p>> \o <<m>>) \/ (base = <<p>> \o <<m>> /\ from = <<m>>)
    BY <1>3, <1>4, <1>5, <1>8, <1>9, <2>1, <2>2 DEF Interfaces
  <2>4. Len(<<m>>) = 1 /\ Len(<<p>> \o <<m>>) = 2
    BY <1>6, Lengths
  <2> QED
    BY <1>8, <2>3, <2>4
<1> QED
  BY <1>8, <1>9 DEF k, base, from

-----------------------------------------------------------------------------
(* A route and the call it is matched to.                                  *)

(* A route and a request that are matched to each other.                    *)
Matched(r, q) ==
    /\ server \in Servers /\ r \in Requests /\ q \in Routes
    /\ R!Fits(q.path, Path(r)) /\ q.method = r.call.method

(* Where a request goes, by the line of its call.                           *)
Sits(r, role, method, n, means, sends, wants, back) ==
    /\ r.call.role = role /\ r.call.method = method /\ Len(Below(r)) = n
    /\ r.call.means = means /\ r.call.sends = sends /\ r.call.wants = wants /\ r.call.back = back

(* What it is given to, by the row of the route.                            *)
Spot(r, q, method, below, handler, read, takes) ==
    /\ q.method = method /\ Len(Below(r)) = Len(below) /\ R!Fits(below, Below(r))
    /\ q.handler = handler /\ q.body = read /\ q.takes = takes

(* They are meant for each other.                                           *)
Meets(c, q) ==
    /\ q.module = c.module /\ q.role = c.role /\ q.handler = c.means
    /\ q.body \in {"json", "patch"} => q.takes = c.sends
    /\ q.body = "command" => c.module = "commands" /\ c.means = "command"

Together2(r, q) == q.module = r.call.module /\ (q.role = r.call.role \/ q.module \notin Ambiguous)

LEMMA RowFound ==
    ASSUME NEW r, NEW q, Matched(r, q), NEW method, NEW below \in Seq(Words), NEW handler, NEW read,
           NEW takes, q.module \in ModuleNames, q.role \in Interfaces,
           <<q.module, q.role>> \in server.mounted,
           Row(q, method, below, handler, read, takes)
    PROVE  Together2(r, q) /\ Spot(r, q, method, below, handler, read, takes)
<1> DEFINE m == q.module
           role == q.role
<1>1. server \in Servers /\ r \in Requests /\ R!Fits(BaseOf(m, role) \o below, Path(r))
  BY DEF Row, Matched
<1>2. m \in ModuleNames /\ role \in Interfaces /\ <<m, role>> \in server.mounted
  OBVIOUS
<1> HIDE DEF m, role
<1>3. m = r.call.module /\ R!Fits(below, Below(r)) /\ (role = r.call.role \/ m \notin Ambiguous)
  BY <1>1, <1>2, Found
<1>4. Len(below) = Len(Below(r))
  BY Zenon, <1>3 DEF R!Fits
<1> QED
  BY <1>3, <1>4 DEF m, role, Together2, Spot, Row

(* The routes of a module that is not one of the version endpoints.         *)
LEMMA MountedIs ==
    ASSUME NEW q \in Routes
    PROVE  q \in R!Versions \/ (q \in R!Mountable(server.prefix)
               /\ <<q.module, q.role>> \in server.mounted)
BY DEF Routes, R!RoutesServed

LEMMA LineSits ==
    ASSUME NEW r \in Requests, NEW role, NEW method, NEW n, NEW means, NEW sends, NEW out,
               NEW wants, NEW back
    PROVE  /\ Line(r.call, role, None, 0, method, n, means, sends, out, wants, back)
              => Sits(r, role, method, n, means, sends, wants, back) /\ Below(r) = r.call.sub
           /\ Line(r.call, role, None, 2, method, n, means, sends, out, wants, back)
              => Sits(r, role, method, n + 2, means, sends, wants, back)
           /\ \A under : Line(r.call, role, under, 0, method, n, means, sends, out, wants, back)
              /\ under # None
              => Sits(r, role, method, n + 1, means, sends, wants, back) /\ Below(r)[1] = under
<1> DEFINE c == r.call
           len == Len(Below(r))
<1>1. Proper(c) /\ r.party \in {"own", "other", "bad"}
  BY Zenon, RequestIs, CallsAreProper
<1>2. /\ len = (IF c.under = None THEN 0 ELSE 1) + (IF c.names THEN 2 ELSE 0) + Len(c.sub)
      /\ c.under = None /\ ~c.names => Below(r) = c.sub
      /\ c.under # None => Below(r)[1] = c.under
  BY Zenon, <1>1, BelowIs
<1>3. ASSUME NEW under, NEW owners \in {0, 2},
             Line(c, role, under, owners, method, n, means, sends, out, wants, back)
      PROVE  /\ c.role = role /\ c.method = method /\ c.means = means /\ c.sends = sends
             /\ c.wants = wants /\ c.back = back
             /\ len = (IF under = None THEN 0 ELSE 1) + owners + n /\ n \in Nat
             /\ under = None /\ owners = 0 => Below(r) = c.sub
             /\ under # None => Below(r)[1] = under
  <2>1. /\ c.role = role /\ c.method = method /\ c.means = means /\ c.sends = sends
        /\ c.wants = wants /\ c.back = back /\ c.under = under /\ (c.names <=> owners = 2)
        /\ Len(c.sub) = n /\ c.sub \in Seq(Words)
    BY Zenon, <1>3 DEF Line, Good
  <2>2. n \in Nat
    BY <2>1
  <2>3. (IF c.names THEN 2 ELSE 0) = owners
    BY <2>1
  <2> HIDE DEF c, len
  <2>4. len = (IF under = None THEN 0 ELSE 1) + owners + n
    BY <1>2, <2>1, <2>3
  <2>5. /\ under = None /\ owners = 0 => Below(r) = c.sub
        /\ under # None => Below(r)[1] = under
    BY <1>2, <2>1
  <2> QED
    BY <2>1, <2>2, <2>4, <2>5
<1>4. ASSUME Line(c, role, None, 0, method, n, means, sends, out, wants, back)
      PROVE  Sits(r, role, method, n, means, sends, wants, back) /\ Below(r) = c.sub
  <2>1. len = 0 + 0 + n /\ n \in Nat
    BY <1>3, <1>4
  <2> QED
    BY <1>3, <1>4, <2>1 DEF Sits
<1>5. ASSUME Line(c, role, None, 2, method, n, means, sends, out, wants, back)
      PROVE  Sits(r, role, method, n + 2, means, sends, wants, back)
  <2>1. len = 0 + 2 + n /\ n \in Nat
    BY <1>3, <1>5
  <2> QED
    BY <1>3, <1>5, <2>1 DEF Sits
<1>6. ASSUME NEW under, under # None, Line(c, role, under, 0, method, n, means, sends, out, wants,
                 back)
      PROVE  Sits(r, role, method, n + 1, means, sends, wants, back) /\ Below(r)[1] = under
  <2>1. len = 1 + 0 + n /\ n \in Nat
    BY <1>3, <1>6
  <2> QED
    BY <1>3, <1>6, <2>1 DEF Sits
<1> QED
  BY <1>4, <1>5, <1>6

LEMMA OwnedSits ==
    ASSUME NEW r \in Requests, NEW role, NEW method, NEW means, NEW sends, NEW out, NEW wants,
               NEW back
    PROVE  /\ Line(r.call, role, None, 2, method, 0, means, sends, out, wants, back)
              => Sits(r, role, method, 2, means, sends, wants, back)
           /\ Line(r.call, role, None, 2, method, 1, means, sends, out, wants, back)
              => Sits(r, role, method, 3, means, sends, wants, back)
           /\ Line(r.call, role, None, 2, method, 2, means, sends, out, wants, back)
              => Sits(r, role, method, 4, means, sends, wants, back)
           /\ Line(r.call, role, None, 2, method, 3, means, sends, out, wants, back)
              => Sits(r, role, method, 5, means, sends, wants, back)
<1>1. \A n : Line(r.call, role, None, 2, method, n, means, sends, out, wants, back)
              => Sits(r, role, method, n + 2, means, sends, wants, back)
  BY Zenon, LineSits
<1>2. Line(r.call, role, None, 2, method, 0, means, sends, out, wants, back)
          => Sits(r, role, method, 0 + 2, means, sends, wants, back)
  BY ONLY <1>1
<1>3. Line(r.call, role, None, 2, method, 1, means, sends, out, wants, back)
          => Sits(r, role, method, 1 + 2, means, sends, wants, back)
  BY ONLY <1>1
<1>4. Line(r.call, role, None, 2, method, 2, means, sends, out, wants, back)
          => Sits(r, role, method, 2 + 2, means, sends, wants, back)
  BY ONLY <1>1
<1>5. Line(r.call, role, None, 2, method, 3, means, sends, out, wants, back)
          => Sits(r, role, method, 3 + 2, means, sends, wants, back)
  BY ONLY <1>1
<1>6. 0 + 2 = 2 /\ 1 + 2 = 3 /\ 2 + 2 = 4 /\ 3 + 2 = 5
  OBVIOUS
<1> QED
  BY ONLY <1>2, <1>3, <1>4, <1>5, <1>6

LEMMA UnderSits ==
    ASSUME NEW r \in Requests, NEW under, under # None, NEW role, NEW method, NEW means,
               NEW sends, NEW out,
           NEW wants, NEW back
    PROVE  /\ Line(r.call, role, under, 0, method, 0, means, sends, out, wants, back)
              => Sits(r, role, method, 1, means, sends, wants, back) /\ Below(r)[1] = under
           /\ Line(r.call, role, under, 0, method, 1, means, sends, out, wants, back)
              => Sits(r, role, method, 2, means, sends, wants, back) /\ Below(r)[1] = under
           /\ Line(r.call, role, under, 0, method, 2, means, sends, out, wants, back)
              => Sits(r, role, method, 3, means, sends, wants, back) /\ Below(r)[1] = under
<1>1. \A n : Line(r.call, role, under, 0, method, n, means, sends, out, wants, back)
              => Sits(r, role, method, n + 1, means, sends, wants, back) /\ Below(r)[1] = under
  BY Zenon, LineSits
<1>2. Line(r.call, role, under, 0, method, 0, means, sends, out, wants, back)
          => Sits(r, role, method, 0 + 1, means, sends, wants, back) /\ Below(r)[1] = under
  BY ONLY <1>1
<1>3. Line(r.call, role, under, 0, method, 1, means, sends, out, wants, back)
          => Sits(r, role, method, 1 + 1, means, sends, wants, back) /\ Below(r)[1] = under
  BY ONLY <1>1
<1>4. Line(r.call, role, under, 0, method, 2, means, sends, out, wants, back)
          => Sits(r, role, method, 2 + 1, means, sends, wants, back) /\ Below(r)[1] = under
  BY ONLY <1>1
<1>5. 0 + 1 = 1 /\ 1 + 1 = 2 /\ 2 + 1 = 3
  OBVIOUS
<1> QED
  BY ONLY <1>2, <1>3, <1>4, <1>5

LEMMA RegistrationSits ==
    ASSUME NEW r \in Requests, r.call.module = "credentials"
    PROVE  \/ Sits(r, "Sender", "POST", 0, "post", "Credentials", "Credentials", "Credentials")
           \/ Sits(r, "Sender", "PUT", 0, "put", "Credentials", "Credentials", "Credentials")
           \/ Sits(r, "Sender", "DELETE", 0, "delete", None, None, None)
<1> DEFINE c == r.call
           len == Len(Below(r))
<1>1. c \in C!AllCalls \cup OtherCalls /\ c.module = "credentials"
  BY Zenon, RequestIs
<1>2. c \in C!RegistrationCalls
  <2> HIDE DEF c
  <2> QED
    BY <1>1, ModulesOfCalls, CallsOfModules
<1>3. Proper(c) /\ r.party \in {"own", "other", "bad"}
  BY Zenon, <1>1, RequestIs, CallsAreProper
<1>4. /\ len = (IF c.under = None THEN 0 ELSE 1) + (IF c.names THEN 2 ELSE 0) + Len(c.sub)
      /\ c.under = None /\ ~c.names => Below(r) = c.sub
      /\ c.under # None => Below(r)[1] = c.under
  BY Zenon, <1>3, BelowIs
<1>5. CASE c \in C!RegistrationCalls
  <2>1. \/ Line(c, "Sender", None, 0, "POST", 0, "post", "Credentials", "Credentials",
           "Credentials", "Credentials")
        \/ Line(c, "Sender", None, 0, "PUT", 0, "put", "Credentials", "Credentials",
           "Credentials", "Credentials")
        \/ Line(c, "Sender", None, 0, "DELETE", 0, "delete", None, None, None, None)
    BY <1>1, <1>5, RegistrationLines
  <2> HIDE DEF c
  <2>2. ASSUME Line(c, "Sender", None, 0, "POST", 0, "post", "Credentials", "Credentials",
                   "Credentials", "Credentials")
        PROVE  Sits(r, "Sender", "POST", 0, "post", "Credentials", "Credentials", "Credentials")
    BY <2>2, LineSits DEF c
  <2>3. ASSUME Line(c, "Sender", None, 0, "PUT", 0, "put", "Credentials", "Credentials",
                   "Credentials", "Credentials")
        PROVE  Sits(r, "Sender", "PUT", 0, "put", "Credentials", "Credentials", "Credentials")
    BY Zenon, <2>3, LineSits DEF c
  <2>4. ASSUME Line(c, "Sender", None, 0, "DELETE", 0, "delete", None, None, None, None)
        PROVE  Sits(r, "Sender", "DELETE", 0, "delete", None, None, None)
    BY Zenon, <2>4, LineSits DEF c
  <2> QED
    BY <2>1, <2>2, <2>3, <2>4
<1> QED
  BY <1>2, <1>5

LEMMA LocationsSits ==
    ASSUME NEW r \in Requests, r.call.module = "locations"
    PROVE  \/ Sits(r, "Sender", "GET", 0, "list", None, "Location", "Location")
           \/ Sits(r, "Sender", "GET", 1, "location", None, "Location", "Location")
           \/ Sits(r, "Sender", "GET", 2, "evse", None, "Evse", "Evse")
           \/ Sits(r, "Sender", "GET", 3, "connector", None, "Connector", "Connector")
           \/ Sits(r, "Receiver", "PUT", 3, "put_location", "Location", None, None)
           \/ Sits(r, "Receiver", "PUT", 4, "put_evse", "Evse", None, None)
           \/ Sits(r, "Receiver", "PATCH", 3, "patch", "Location", None, None)
           \/ Sits(r, "Receiver", "PATCH", 4, "patch", "Evse", None, None)
           \/ Sits(r, "Receiver", "PATCH", 5, "patch", "Connector", None, None)
<1> DEFINE c == r.call
           len == Len(Below(r))
<1>1. c \in C!AllCalls \cup OtherCalls /\ c.module = "locations"
  BY Zenon, RequestIs
<1>2. c \in C!LocationsSenderCalls \/ c \in C!LocationsReceiverCalls
  <2> HIDE DEF c
  <2> QED
    BY <1>1, ModulesOfCalls, CallsOfModules
<1>3. Proper(c) /\ r.party \in {"own", "other", "bad"}
  BY Zenon, <1>1, RequestIs, CallsAreProper
<1>4. /\ len = (IF c.under = None THEN 0 ELSE 1) + (IF c.names THEN 2 ELSE 0) + Len(c.sub)
      /\ c.under = None /\ ~c.names => Below(r) = c.sub
      /\ c.under # None => Below(r)[1] = c.under
  BY Zenon, <1>3, BelowIs
<1>5. CASE c \in C!LocationsSenderCalls
  <2>1. \/ Line(c, "Sender", None, 0, "GET", 0, "list", None, None, "Location", "Location")
        \/ Line(c, "Sender", None, 0, "GET", 1, "location", None, None, "Location", "Location")
        \/ Line(c, "Sender", None, 0, "GET", 2, "evse", None, None, "Evse", "Evse")
        \/ Line(c, "Sender", None, 0, "GET", 3, "connector", None, None, "Connector", "Connector")
    BY <1>1, <1>5, LocationsSenderLines
  <2> HIDE DEF c
  <2>2. ASSUME Line(c, "Sender", None, 0, "GET", 0, "list", None, None, "Location", "Location")
        PROVE  Sits(r, "Sender", "GET", 0, "list", None, "Location", "Location")
    BY Zenon, <2>2, LineSits DEF c
  <2>3. ASSUME Line(c, "Sender", None, 0, "GET", 1, "location", None, None, "Location", "Location")
        PROVE  Sits(r, "Sender", "GET", 1, "location", None, "Location", "Location")
    BY Zenon, <2>3, LineSits DEF c
  <2>4. ASSUME Line(c, "Sender", None, 0, "GET", 2, "evse", None, None, "Evse", "Evse")
        PROVE  Sits(r, "Sender", "GET", 2, "evse", None, "Evse", "Evse")
    BY Zenon, <2>4, LineSits DEF c
  <2>5. ASSUME Line(c, "Sender", None, 0, "GET", 3, "connector", None, None, "Connector",
                   "Connector")
        PROVE  Sits(r, "Sender", "GET", 3, "connector", None, "Connector", "Connector")
    BY <2>5, LineSits DEF c
  <2> QED
    BY <2>1, <2>2, <2>3, <2>4, <2>5
<1>6. CASE c \in C!LocationsReceiverCalls
  <2>1. \/ Line(c, "Receiver", None, 2, "PUT", 1, "put_location", "Location", "Location", None,
           None)
        \/ Line(c, "Receiver", None, 2, "PUT", 2, "put_evse", "Evse", "Evse", None, None)
        \/ Line(c, "Receiver", None, 2, "PATCH", 1, "patch", "Location", "Location", None, None)
        \/ Line(c, "Receiver", None, 2, "PATCH", 2, "patch", "Evse", "Evse", None, None)
        \/ Line(c, "Receiver", None, 2, "PATCH", 3, "patch", "Connector", "Connector", None, None)
    BY <1>1, <1>6, LocationsReceiverLines
  <2> HIDE DEF c
  <2>2. ASSUME Line(c, "Receiver", None, 2, "PUT", 1, "put_location", "Location", "Location",
                   None, None)
        PROVE  Sits(r, "Receiver", "PUT", 3, "put_location", "Location", None, None)
    BY <2>2, OwnedSits DEF c
  <2>3. ASSUME Line(c, "Receiver", None, 2, "PUT", 2, "put_evse", "Evse", "Evse", None, None)
        PROVE  Sits(r, "Receiver", "PUT", 4, "put_evse", "Evse", None, None)
    BY <2>3, OwnedSits DEF c
  <2>4. ASSUME Line(c, "Receiver", None, 2, "PATCH", 1, "patch", "Location", "Location", None, None)
        PROVE  Sits(r, "Receiver", "PATCH", 3, "patch", "Location", None, None)
    BY <2>4, OwnedSits DEF c
  <2>5. ASSUME Line(c, "Receiver", None, 2, "PATCH", 2, "patch", "Evse", "Evse", None, None)
        PROVE  Sits(r, "Receiver", "PATCH", 4, "patch", "Evse", None, None)
    BY <2>5, OwnedSits DEF c
  <2>6. ASSUME Line(c, "Receiver", None, 2, "PATCH", 3, "patch", "Connector", "Connector", None,
                   None)
        PROVE  Sits(r, "Receiver", "PATCH", 5, "patch", "Connector", None, None)
    BY <2>6, OwnedSits DEF c
  <2> QED
    BY <2>1, <2>2, <2>3, <2>4, <2>5, <2>6
<1> QED
  BY <1>2, <1>5, <1>6

LEMMA TokensSits ==
    ASSUME NEW r \in Requests, r.call.module = "tokens"
    PROVE  \/ Sits(r, "Sender", "GET", 0, "list", None, "Token", "Token")
           \/ Sits(r, "Sender", "POST", 2, "authorize", "LocationReferences", "AuthorizationInfo",
              "AuthorizationInfo") /\ Below(r) = r.call.sub /\ r.call.sub = <<"UID1", "authorize">>
           \/ Sits(r, "Receiver", "GET", 3, "token", None, "Token", "Token")
           \/ Sits(r, "Receiver", "PUT", 3, "put_token", "Token", None, None)
           \/ Sits(r, "Receiver", "PATCH", 3, "patch_token", "Token", None, None)
<1> DEFINE c == r.call
           len == Len(Below(r))
<1>1. c \in C!AllCalls \cup OtherCalls /\ c.module = "tokens"
  BY Zenon, RequestIs
<1>2. c \in C!TokensSenderCalls \/ c \in C!TokensReceiverCalls
  <2> HIDE DEF c
  <2> QED
    BY <1>1, ModulesOfCalls, CallsOfModules
<1>3. Proper(c) /\ r.party \in {"own", "other", "bad"}
  BY Zenon, <1>1, RequestIs, CallsAreProper
<1>4. /\ len = (IF c.under = None THEN 0 ELSE 1) + (IF c.names THEN 2 ELSE 0) + Len(c.sub)
      /\ c.under = None /\ ~c.names => Below(r) = c.sub
      /\ c.under # None => Below(r)[1] = c.under
  BY Zenon, <1>3, BelowIs
<1>5. CASE c \in C!TokensSenderCalls
  <2>1. \/ Line(c, "Sender", None, 0, "GET", 0, "list", None, None, "Token", "Token")
        \/ Line(c, "Sender", None, 0, "POST", 2, "authorize", "LocationReferences", None,
           "AuthorizationInfo", "AuthorizationInfo") /\ c.sub = <<"UID1", "authorize">>
    BY <1>1, <1>5, TokensSenderLines
  <2> HIDE DEF c
  <2>2. ASSUME Line(c, "Sender", None, 0, "GET", 0, "list", None, None, "Token", "Token")
        PROVE  Sits(r, "Sender", "GET", 0, "list", None, "Token", "Token")
    BY Zenon, <2>2, LineSits DEF c
  <2>3. ASSUME Line(c, "Sender", None, 0, "POST", 2, "authorize", "LocationReferences", None,
                   "AuthorizationInfo", "AuthorizationInfo") /\ c.sub = <<"UID1", "authorize">>
        PROVE  Sits(r, "Sender", "POST", 2, "authorize", "LocationReferences",
                   "AuthorizationInfo", "AuthorizationInfo") /\ Below(r) = r.call.sub
                   /\ r.call.sub = <<"UID1", "authorize">>
    BY Zenon, <2>3, LineSits DEF c
  <2> QED
    BY <2>1, <2>2, <2>3
<1>6. CASE c \in C!TokensReceiverCalls
  <2>1. \/ Line(c, "Receiver", None, 2, "GET", 1, "token", None, None, "Token", "Token")
        \/ Line(c, "Receiver", None, 2, "PUT", 1, "put_token", "Token", "Token", None, None)
        \/ Line(c, "Receiver", None, 2, "PATCH", 1, "patch_token", "Token", "Token", None, None)
    BY <1>1, <1>6, TokensReceiverLines
  <2> HIDE DEF c
  <2>2. ASSUME Line(c, "Receiver", None, 2, "GET", 1, "token", None, None, "Token", "Token")
        PROVE  Sits(r, "Receiver", "GET", 3, "token", None, "Token", "Token")
    BY <2>2, OwnedSits DEF c
  <2>3. ASSUME Line(c, "Receiver", None, 2, "PUT", 1, "put_token", "Token", "Token", None, None)
        PROVE  Sits(r, "Receiver", "PUT", 3, "put_token", "Token", None, None)
    BY <2>3, OwnedSits DEF c
  <2>4. ASSUME Line(c, "Receiver", None, 2, "PATCH", 1, "patch_token", "Token", "Token", None, None)
        PROVE  Sits(r, "Receiver", "PATCH", 3, "patch_token", "Token", None, None)
    BY <2>4, OwnedSits DEF c
  <2> QED
    BY <2>1, <2>2, <2>3, <2>4
<1> QED
  BY <1>2, <1>5, <1>6

LEMMA CdrsSits ==
    ASSUME NEW r \in Requests, r.call.module = "cdrs"
    PROVE  \/ Sits(r, "Sender", "GET", 0, "list", None, "Cdr", "Cdr")
           \/ Sits(r, "Receiver", "POST", 0, "post_cdr", "Cdr", None, None)
<1> DEFINE c == r.call
           len == Len(Below(r))
<1>1. c \in C!AllCalls \cup OtherCalls /\ c.module = "cdrs"
  BY Zenon, RequestIs
<1>2. c \in C!CdrsCalls
  <2> HIDE DEF c
  <2> QED
    BY <1>1, ModulesOfCalls, CallsOfModules
<1>3. Proper(c) /\ r.party \in {"own", "other", "bad"}
  BY Zenon, <1>1, RequestIs, CallsAreProper
<1>4. /\ len = (IF c.under = None THEN 0 ELSE 1) + (IF c.names THEN 2 ELSE 0) + Len(c.sub)
      /\ c.under = None /\ ~c.names => Below(r) = c.sub
      /\ c.under # None => Below(r)[1] = c.under
  BY Zenon, <1>3, BelowIs
<1>5. CASE c \in C!CdrsCalls
  <2>1. \/ Line(c, "Sender", None, 0, "GET", 0, "list", None, None, "Cdr", "Cdr")
        \/ Line(c, "Receiver", None, 0, "POST", 0, "post_cdr", "Cdr", "Cdr", None, None)
    BY <1>1, <1>5, CdrsLines
  <2> HIDE DEF c
  <2>2. ASSUME Line(c, "Sender", None, 0, "GET", 0, "list", None, None, "Cdr", "Cdr")
        PROVE  Sits(r, "Sender", "GET", 0, "list", None, "Cdr", "Cdr")
    BY <2>2, LineSits DEF c
  <2>3. ASSUME Line(c, "Receiver", None, 0, "POST", 0, "post_cdr", "Cdr", "Cdr", None, None)
        PROVE  Sits(r, "Receiver", "POST", 0, "post_cdr", "Cdr", None, None)
    BY Zenon, <2>3, LineSits DEF c
  <2> QED
    BY <2>1, <2>2, <2>3
<1> QED
  BY <1>2, <1>5

LEMMA SessionsSits ==
    ASSUME NEW r \in Requests, r.call.module = "sessions"
    PROVE  \/ Sits(r, "Sender", "GET", 0, "list", None, "Session", "Session")
           \/ Sits(r, "Sender", "PUT", 2, "set_charging_preferences", "ChargingPreferences",
              "ChargingPreferencesResponse", None)
           \/ Sits(r, "Receiver", "GET", 3, "session", None, "Session", "Session")
           \/ Sits(r, "Receiver", "PUT", 3, "put_session", "Session", None, None)
           \/ Sits(r, "Receiver", "PATCH", 3, "patch_session", "Session", None, None)
<1> DEFINE c == r.call
           len == Len(Below(r))
<1>1. c \in C!AllCalls \cup OtherCalls /\ c.module = "sessions"
  BY Zenon, RequestIs
<1>2. c \in C!SessionsSenderCalls \/ c \in C!SessionsReceiverCalls
  <2> HIDE DEF c
  <2> QED
    BY <1>1, ModulesOfCalls, CallsOfModules
<1>3. Proper(c) /\ r.party \in {"own", "other", "bad"}
  BY Zenon, <1>1, RequestIs, CallsAreProper
<1>4. /\ len = (IF c.under = None THEN 0 ELSE 1) + (IF c.names THEN 2 ELSE 0) + Len(c.sub)
      /\ c.under = None /\ ~c.names => Below(r) = c.sub
      /\ c.under # None => Below(r)[1] = c.under
  BY Zenon, <1>3, BelowIs
<1>5. CASE c \in C!SessionsSenderCalls
  <2>1. \/ Line(c, "Sender", None, 0, "GET", 0, "list", None, None, "Session", "Session")
        \/ Line(c, "Sender", None, 0, "PUT", 2, "set_charging_preferences", "ChargingPreferences",
           None, "ChargingPreferencesResponse", None)
    BY <1>1, <1>5, SessionsSenderLines
  <2> HIDE DEF c
  <2>2. ASSUME Line(c, "Sender", None, 0, "GET", 0, "list", None, None, "Session", "Session")
        PROVE  Sits(r, "Sender", "GET", 0, "list", None, "Session", "Session")
    BY Zenon, <2>2, LineSits DEF c
  <2>3. ASSUME Line(c, "Sender", None, 0, "PUT", 2, "set_charging_preferences",
                   "ChargingPreferences", None, "ChargingPreferencesResponse", None)
        PROVE  Sits(r, "Sender", "PUT", 2, "set_charging_preferences", "ChargingPreferences",
                   "ChargingPreferencesResponse", None)
    BY Zenon, <2>3, LineSits DEF c
  <2> QED
    BY <2>1, <2>2, <2>3
<1>6. CASE c \in C!SessionsReceiverCalls
  <2>1. \/ Line(c, "Receiver", None, 2, "GET", 1, "session", None, None, "Session", "Session")
        \/ Line(c, "Receiver", None, 2, "PUT", 1, "put_session", "Session", "Session", None, None)
        \/ Line(c, "Receiver", None, 2, "PATCH", 1, "patch_session", "Session", "Session", None,
           None)
    BY <1>1, <1>6, SessionsReceiverLines
  <2> HIDE DEF c
  <2>2. ASSUME Line(c, "Receiver", None, 2, "GET", 1, "session", None, None, "Session", "Session")
        PROVE  Sits(r, "Receiver", "GET", 3, "session", None, "Session", "Session")
    BY <2>2, OwnedSits DEF c
  <2>3. ASSUME Line(c, "Receiver", None, 2, "PUT", 1, "put_session", "Session", "Session", None,
                   None)
        PROVE  Sits(r, "Receiver", "PUT", 3, "put_session", "Session", None, None)
    BY <2>3, OwnedSits DEF c
  <2>4. ASSUME Line(c, "Receiver", None, 2, "PATCH", 1, "patch_session", "Session", "Session",
                   None, None)
        PROVE  Sits(r, "Receiver", "PATCH", 3, "patch_session", "Session", None, None)
    BY <2>4, OwnedSits DEF c
  <2> QED
    BY <2>1, <2>2, <2>3, <2>4
<1> QED
  BY <1>2, <1>5, <1>6

LEMMA TariffsSits ==
    ASSUME NEW r \in Requests, r.call.module = "tariffs"
    PROVE  \/ Sits(r, "Sender", "GET", 0, "list", None, "Tariff", "Tariff")
           \/ Sits(r, "Receiver", "GET", 3, "tariff", None, "Tariff", "Tariff")
           \/ Sits(r, "Receiver", "PUT", 3, "put_tariff", "Tariff", None, None)
           \/ Sits(r, "Receiver", "DELETE", 3, "delete_tariff", None, None, None)
           \/ Sits(r, "Receiver", "DELETE", 4, "delete_tariff", None, None, None)
<1> DEFINE c == r.call
           len == Len(Below(r))
<1>1. c \in C!AllCalls \cup OtherCalls /\ c.module = "tariffs"
  BY Zenon, RequestIs
<1>2. c \in C!TariffsCalls \/ c \in OtherCalls
  <2> HIDE DEF c
  <2> QED
    BY <1>1, ModulesOfCalls, CallsOfModules
<1>3. Proper(c) /\ r.party \in {"own", "other", "bad"}
  BY Zenon, <1>1, RequestIs, CallsAreProper
<1>4. /\ len = (IF c.under = None THEN 0 ELSE 1) + (IF c.names THEN 2 ELSE 0) + Len(c.sub)
      /\ c.under = None /\ ~c.names => Below(r) = c.sub
      /\ c.under # None => Below(r)[1] = c.under
  BY Zenon, <1>3, BelowIs
<1>5. CASE c \in C!TariffsCalls
  <2>1. \/ Line(c, "Sender", None, 0, "GET", 0, "list", None, None, "Tariff", "Tariff")
        \/ Line(c, "Receiver", None, 2, "GET", 1, "tariff", None, None, "Tariff", "Tariff")
        \/ Line(c, "Receiver", None, 2, "PUT", 1, "put_tariff", "Tariff", "Tariff", None, None)
        \/ Line(c, "Receiver", None, 2, "DELETE", 1, "delete_tariff", None, None, None, None)
    BY <1>1, <1>5, TariffsLines
  <2> HIDE DEF c
  <2>2. ASSUME Line(c, "Sender", None, 0, "GET", 0, "list", None, None, "Tariff", "Tariff")
        PROVE  Sits(r, "Sender", "GET", 0, "list", None, "Tariff", "Tariff")
    BY Zenon, <2>2, LineSits DEF c
  <2>3. ASSUME Line(c, "Receiver", None, 2, "GET", 1, "tariff", None, None, "Tariff", "Tariff")
        PROVE  Sits(r, "Receiver", "GET", 3, "tariff", None, "Tariff", "Tariff")
    BY <2>3, OwnedSits DEF c
  <2>4. ASSUME Line(c, "Receiver", None, 2, "PUT", 1, "put_tariff", "Tariff", "Tariff", None, None)
        PROVE  Sits(r, "Receiver", "PUT", 3, "put_tariff", "Tariff", None, None)
    BY <2>4, OwnedSits DEF c
  <2>5. ASSUME Line(c, "Receiver", None, 2, "DELETE", 1, "delete_tariff", None, None, None, None)
        PROVE  Sits(r, "Receiver", "DELETE", 3, "delete_tariff", None, None, None)
    BY <2>5, OwnedSits DEF c
  <2> QED
    BY <2>1, <2>2, <2>3, <2>4, <2>5
<1>6. CASE c \in OtherCalls
  <2>1. /\ c.role = "Receiver" /\ c.under = None /\ c.names = TRUE /\ Len(c.sub) = 2
        /\ c.method = "DELETE" /\ c.means = "delete_tariff" /\ c.sends = None
        /\ c.wants = None /\ c.back = None
    <3>1. Len(<<"T1", "">>) = 2
      OBVIOUS
    <3> QED
      BY Zenon, <1>1, <1>6, <3>1, OtherLines
  <2>2. len = 4
    BY ONLY <1>4, <2>1
  <2> QED
    BY <2>1, <2>2 DEF Sits
<1> QED
  BY <1>2, <1>5, <1>6

LEMMA CommandsSits ==
    ASSUME NEW r \in Requests, r.call.module = "commands"
    PROVE  \/ Sits(r, "Receiver", "POST", 1, "command", "StartSession", "CommandResponse", None)
              /\ Below(r) = r.call.sub /\ r.call.sub = <<"START_SESSION">>
           \/ Sits(r, "Receiver", "POST", 1, "command", "ReserveNow", "CommandResponse", None)
              /\ Below(r) = r.call.sub /\ r.call.sub = <<"RESERVE_NOW">>
           \/ Sits(r, "Receiver", "POST", 1, "command", "StopSession", "CommandResponse", None)
              /\ Below(r) = r.call.sub /\ r.call.sub = <<"STOP_SESSION">>
           \/ Sits(r, "Receiver", "POST", 1, "command", "CancelReservation", "CommandResponse",
              None) /\ Below(r) = r.call.sub /\ r.call.sub = <<"CANCEL_RESERVATION">>
           \/ Sits(r, "Receiver", "POST", 1, "command", "UnlockConnector", "CommandResponse",
              None) /\ Below(r) = r.call.sub /\ r.call.sub = <<"UNLOCK_CONNECTOR">>
           \/ Sits(r, "Sender", "POST", 2, "command_result", "CommandResult", None, None)
              /\ Below(r) = r.call.sub /\ r.call.sub = <<"START_SESSION", "1234">>
           \/ Sits(r, "Sender", "POST", 2, "command_result", "CommandResult", None, None)
              /\ Below(r) = r.call.sub /\ r.call.sub = <<"RESERVE_NOW", "1234">>
           \/ Sits(r, "Sender", "POST", 2, "command_result", "CommandResult", None, None)
              /\ Below(r) = r.call.sub /\ r.call.sub = <<"STOP_SESSION", "1234">>
           \/ Sits(r, "Receiver", "POST", 1, "command", "StopSession", "CommandResponse", None)
              /\ Below(r) = r.call.sub /\ r.call.sub = <<"DANCE">>
<1> DEFINE c == r.call
           len == Len(Below(r))
<1>1. c \in C!AllCalls \cup OtherCalls /\ c.module = "commands"
  BY Zenon, RequestIs
<1>2. c \in C!CommandsCalls \/ c \in C!CallbackCalls \/ c \in OtherCalls
  <2> HIDE DEF c
  <2> QED
    BY <1>1, ModulesOfCalls, CallsOfModules
<1>3. Proper(c) /\ r.party \in {"own", "other", "bad"}
  BY Zenon, <1>1, RequestIs, CallsAreProper
<1>4. /\ len = (IF c.under = None THEN 0 ELSE 1) + (IF c.names THEN 2 ELSE 0) + Len(c.sub)
      /\ c.under = None /\ ~c.names => Below(r) = c.sub
      /\ c.under # None => Below(r)[1] = c.under
  BY Zenon, <1>3, BelowIs
<1>5. CASE c \in C!CommandsCalls
  <2>1. \/ Line(c, "Receiver", None, 0, "POST", 1, "command", "StartSession", "StartSession",
           "CommandResponse", None) /\ c.sub = <<"START_SESSION">>
        \/ Line(c, "Receiver", None, 0, "POST", 1, "command", "ReserveNow", "ReserveNow",
           "CommandResponse", None) /\ c.sub = <<"RESERVE_NOW">>
        \/ Line(c, "Receiver", None, 0, "POST", 1, "command", "StopSession", None,
           "CommandResponse", None) /\ c.sub = <<"STOP_SESSION">>
        \/ Line(c, "Receiver", None, 0, "POST", 1, "command", "CancelReservation", None,
           "CommandResponse", None) /\ c.sub = <<"CANCEL_RESERVATION">>
        \/ Line(c, "Receiver", None, 0, "POST", 1, "command", "UnlockConnector", None,
           "CommandResponse", None) /\ c.sub = <<"UNLOCK_CONNECTOR">>
    BY <1>1, <1>5, CommandsLines
  <2> HIDE DEF c
  <2>2. ASSUME Line(c, "Receiver", None, 0, "POST", 1, "command", "StartSession", "StartSession",
                   "CommandResponse", None) /\ c.sub = <<"START_SESSION">>
        PROVE  Sits(r, "Receiver", "POST", 1, "command", "StartSession", "CommandResponse", None)
                   /\ Below(r) = r.call.sub /\ r.call.sub = <<"START_SESSION">>
    BY Zenon, <2>2, LineSits DEF c
  <2>3. ASSUME Line(c, "Receiver", None, 0, "POST", 1, "command", "ReserveNow", "ReserveNow",
                   "CommandResponse", None) /\ c.sub = <<"RESERVE_NOW">>
        PROVE  Sits(r, "Receiver", "POST", 1, "command", "ReserveNow", "CommandResponse", None)
                   /\ Below(r) = r.call.sub /\ r.call.sub = <<"RESERVE_NOW">>
    BY Zenon, <2>3, LineSits DEF c
  <2>4. ASSUME Line(c, "Receiver", None, 0, "POST", 1, "command", "StopSession", None,
                   "CommandResponse", None) /\ c.sub = <<"STOP_SESSION">>
        PROVE  Sits(r, "Receiver", "POST", 1, "command", "StopSession", "CommandResponse", None)
                   /\ Below(r) = r.call.sub /\ r.call.sub = <<"STOP_SESSION">>
    BY Zenon, <2>4, LineSits DEF c
  <2>5. ASSUME Line(c, "Receiver", None, 0, "POST", 1, "command", "CancelReservation", None,
                   "CommandResponse", None) /\ c.sub = <<"CANCEL_RESERVATION">>
        PROVE  Sits(r, "Receiver", "POST", 1, "command", "CancelReservation", "CommandResponse",
                   None) /\ Below(r) = r.call.sub /\ r.call.sub = <<"CANCEL_RESERVATION">>
    BY Zenon, <2>5, LineSits DEF c
  <2>6. ASSUME Line(c, "Receiver", None, 0, "POST", 1, "command", "UnlockConnector", None,
                   "CommandResponse", None) /\ c.sub = <<"UNLOCK_CONNECTOR">>
        PROVE  Sits(r, "Receiver", "POST", 1, "command", "UnlockConnector", "CommandResponse",
                   None) /\ Below(r) = r.call.sub /\ r.call.sub = <<"UNLOCK_CONNECTOR">>
    BY Zenon, <2>6, LineSits DEF c
  <2> QED
    BY <2>1, <2>2, <2>3, <2>4, <2>5, <2>6
<1>6. CASE c \in C!CallbackCalls
  <2>1. \/ Line(c, "Sender", None, 0, "POST", 2, "command_result", "CommandResult", None, None,
           None) /\ c.sub = <<"START_SESSION", "1234">>
        \/ Line(c, "Sender", None, 0, "POST", 2, "command_result", "CommandResult", None, None,
           None) /\ c.sub = <<"RESERVE_NOW", "1234">>
        \/ Line(c, "Sender", None, 0, "POST", 2, "command_result", "CommandResult", None, None,
           None) /\ c.sub = <<"STOP_SESSION", "1234">>
    BY <1>1, <1>6, CallbackLines
  <2> HIDE DEF c
  <2>2. ASSUME Line(c, "Sender", None, 0, "POST", 2, "command_result", "CommandResult", None,
                   None, None) /\ c.sub = <<"START_SESSION", "1234">>
        PROVE  Sits(r, "Sender", "POST", 2, "command_result", "CommandResult", None, None)
                   /\ Below(r) = r.call.sub /\ r.call.sub = <<"START_SESSION", "1234">>
    BY <2>2, LineSits DEF c
  <2>3. ASSUME Line(c, "Sender", None, 0, "POST", 2, "command_result", "CommandResult", None,
                   None, None) /\ c.sub = <<"RESERVE_NOW", "1234">>
        PROVE  Sits(r, "Sender", "POST", 2, "command_result", "CommandResult", None, None)
                   /\ Below(r) = r.call.sub /\ r.call.sub = <<"RESERVE_NOW", "1234">>
    BY Zenon, <2>3, LineSits DEF c
  <2>4. ASSUME Line(c, "Sender", None, 0, "POST", 2, "command_result", "CommandResult", None,
                   None, None) /\ c.sub = <<"STOP_SESSION", "1234">>
        PROVE  Sits(r, "Sender", "POST", 2, "command_result", "CommandResult", None, None)
                   /\ Below(r) = r.call.sub /\ r.call.sub = <<"STOP_SESSION", "1234">>
    BY Zenon, <2>4, LineSits DEF c
  <2> QED
    BY <2>1, <2>2, <2>3, <2>4
<1>7. CASE c \in OtherCalls
  <2>1. \/ Line(c, "Receiver", None, 0, "POST", 1, "command", "StopSession", None,
           "CommandResponse", None) /\ c.sub = <<"DANCE">>
    BY Zenon, <1>1, <1>7, OtherLines
  <2> HIDE DEF c
  <2>2. ASSUME Line(c, "Receiver", None, 0, "POST", 1, "command", "StopSession", None,
                   "CommandResponse", None) /\ c.sub = <<"DANCE">>
        PROVE  Sits(r, "Receiver", "POST", 1, "command", "StopSession", "CommandResponse", None)
                   /\ Below(r) = r.call.sub /\ r.call.sub = <<"DANCE">>
    BY Zenon, <2>2, LineSits DEF c
  <2> QED
    BY <2>1, <2>2
<1> QED
  BY <1>2, <1>5, <1>6, <1>7

LEMMA HubClientInfoSits ==
    ASSUME NEW r \in Requests, r.call.module = "hubclientinfo"
    PROVE  \/ Sits(r, "Sender", "GET", 0, "list", None, "ClientInfo", "ClientInfo")
           \/ Sits(r, "Receiver", "GET", 2, "client_info", None, "ClientInfo", "ClientInfo")
           \/ Sits(r, "Receiver", "PUT", 2, "put_client_info", "ClientInfo", None, None)
<1> DEFINE c == r.call
           len == Len(Below(r))
<1>1. c \in C!AllCalls \cup OtherCalls /\ c.module = "hubclientinfo"
  BY Zenon, RequestIs
<1>2. c \in C!HubClientInfoCalls
  <2> HIDE DEF c
  <2> QED
    BY <1>1, ModulesOfCalls, CallsOfModules
<1>3. Proper(c) /\ r.party \in {"own", "other", "bad"}
  BY Zenon, <1>1, RequestIs, CallsAreProper
<1>4. /\ len = (IF c.under = None THEN 0 ELSE 1) + (IF c.names THEN 2 ELSE 0) + Len(c.sub)
      /\ c.under = None /\ ~c.names => Below(r) = c.sub
      /\ c.under # None => Below(r)[1] = c.under
  BY Zenon, <1>3, BelowIs
<1>5. CASE c \in C!HubClientInfoCalls
  <2>1. \/ Line(c, "Sender", None, 0, "GET", 0, "list", None, None, "ClientInfo", "ClientInfo")
        \/ Line(c, "Receiver", None, 2, "GET", 0, "client_info", None, None, "ClientInfo",
           "ClientInfo")
        \/ Line(c, "Receiver", None, 2, "PUT", 0, "put_client_info", "ClientInfo", "ClientInfo",
           None, None)
    BY <1>1, <1>5, HubClientInfoLines
  <2> HIDE DEF c
  <2>2. ASSUME Line(c, "Sender", None, 0, "GET", 0, "list", None, None, "ClientInfo", "ClientInfo")
        PROVE  Sits(r, "Sender", "GET", 0, "list", None, "ClientInfo", "ClientInfo")
    BY <2>2, LineSits DEF c
  <2>3. ASSUME Line(c, "Receiver", None, 2, "GET", 0, "client_info", None, None, "ClientInfo",
                   "ClientInfo")
        PROVE  Sits(r, "Receiver", "GET", 2, "client_info", None, "ClientInfo", "ClientInfo")
    BY <2>3, OwnedSits DEF c
  <2>4. ASSUME Line(c, "Receiver", None, 2, "PUT", 0, "put_client_info", "ClientInfo",
                   "ClientInfo", None, None)
        PROVE  Sits(r, "Receiver", "PUT", 2, "put_client_info", "ClientInfo", None, None)
    BY <2>4, OwnedSits DEF c
  <2> QED
    BY <2>1, <2>2, <2>3, <2>4
<1> QED
  BY <1>2, <1>5

LEMMA ChargingProfilesSits ==
    ASSUME NEW r \in Requests, r.call.module = "chargingprofiles"
    PROVE  \/ Sits(r, "Receiver", "GET", 1, "active_charging_profile", None,
              "ChargingProfileResponse", None)
           \/ Sits(r, "Receiver", "PUT", 1, "set_charging_profile", "SetChargingProfile",
              "ChargingProfileResponse", None)
           \/ Sits(r, "Receiver", "DELETE", 1, "clear_charging_profile", None,
              "ChargingProfileResponse", None)
           \/ Sits(r, "Sender", "PUT", 1, "put_active_charging_profile", "ActiveChargingProfile",
              None, None)
           \/ Sits(r, "Sender", "POST", 3, "active_charging_profile_result",
              "ActiveChargingProfileResult", None, None) /\ Below(r) = r.call.sub
              /\ r.call.sub = <<"result", "active", "1234">>
           \/ Sits(r, "Sender", "POST", 3, "charging_profile_result", "ChargingProfileResult",
              None, None) /\ Below(r) = r.call.sub /\ r.call.sub = <<"result", "set", "1234">>
           \/ Sits(r, "Sender", "POST", 3, "clear_profile_result", "ClearProfileResult", None,
              None) /\ Below(r) = r.call.sub /\ r.call.sub = <<"result", "clear", "1234">>
<1> DEFINE c == r.call
           len == Len(Below(r))
<1>1. c \in C!AllCalls \cup OtherCalls /\ c.module = "chargingprofiles"
  BY Zenon, RequestIs
<1>2. c \in C!ChargingProfilesCalls \/ c \in C!CallbackCalls
  <2> HIDE DEF c
  <2> QED
    BY <1>1, ModulesOfCalls, CallsOfModules
<1>3. Proper(c) /\ r.party \in {"own", "other", "bad"}
  BY Zenon, <1>1, RequestIs, CallsAreProper
<1>4. /\ len = (IF c.under = None THEN 0 ELSE 1) + (IF c.names THEN 2 ELSE 0) + Len(c.sub)
      /\ c.under = None /\ ~c.names => Below(r) = c.sub
      /\ c.under # None => Below(r)[1] = c.under
  BY Zenon, <1>3, BelowIs
<1>5. CASE c \in C!ChargingProfilesCalls
  <2>1. \/ Line(c, "Receiver", None, 0, "GET", 1, "active_charging_profile", None, None,
           "ChargingProfileResponse", None)
        \/ Line(c, "Receiver", None, 0, "PUT", 1, "set_charging_profile", "SetChargingProfile",
           None, "ChargingProfileResponse", None)
        \/ Line(c, "Receiver", None, 0, "DELETE", 1, "clear_charging_profile", None, None,
           "ChargingProfileResponse", None)
        \/ Line(c, "Sender", None, 0, "PUT", 1, "put_active_charging_profile",
           "ActiveChargingProfile", None, None, None)
    BY <1>1, <1>5, ChargingProfilesLines
  <2> HIDE DEF c
  <2>2. ASSUME Line(c, "Receiver", None, 0, "GET", 1, "active_charging_profile", None, None,
                   "ChargingProfileResponse", None)
        PROVE  Sits(r, "Receiver", "GET", 1, "active_charging_profile", None,
                   "ChargingProfileResponse", None)
    BY Zenon, <2>2, LineSits DEF c
  <2>3. ASSUME Line(c, "Receiver", None, 0, "PUT", 1, "set_charging_profile",
                   "SetChargingProfile", None, "ChargingProfileResponse", None)
        PROVE  Sits(r, "Receiver", "PUT", 1, "set_charging_profile", "SetChargingProfile",
                   "ChargingProfileResponse", None)
    BY <2>3, LineSits DEF c
  <2>4. ASSUME Line(c, "Receiver", None, 0, "DELETE", 1, "clear_charging_profile", None, None,
                   "ChargingProfileResponse", None)
        PROVE  Sits(r, "Receiver", "DELETE", 1, "clear_charging_profile", None,
                   "ChargingProfileResponse", None)
    BY Zenon, <2>4, LineSits DEF c
  <2>5. ASSUME Line(c, "Sender", None, 0, "PUT", 1, "put_active_charging_profile",
                   "ActiveChargingProfile", None, None, None)
        PROVE  Sits(r, "Sender", "PUT", 1, "put_active_charging_profile", "ActiveChargingProfile",
                   None, None)
    BY <2>5, LineSits DEF c
  <2> QED
    BY <2>1, <2>2, <2>3, <2>4, <2>5
<1>6. CASE c \in C!CallbackCalls
  <2>1. \/ Line(c, "Sender", None, 0, "POST", 3, "active_charging_profile_result",
           "ActiveChargingProfileResult", None, None, None)
           /\ c.sub = <<"result", "active", "1234">>
        \/ Line(c, "Sender", None, 0, "POST", 3, "charging_profile_result",
           "ChargingProfileResult", None, None, None) /\ c.sub = <<"result", "set", "1234">>
        \/ Line(c, "Sender", None, 0, "POST", 3, "clear_profile_result", "ClearProfileResult",
           None, None, None) /\ c.sub = <<"result", "clear", "1234">>
    BY <1>1, <1>6, CallbackLines
  <2> HIDE DEF c
  <2>2. ASSUME Line(c, "Sender", None, 0, "POST", 3, "active_charging_profile_result",
                   "ActiveChargingProfileResult", None, None, None)
                   /\ c.sub = <<"result", "active", "1234">>
        PROVE  Sits(r, "Sender", "POST", 3, "active_charging_profile_result",
                   "ActiveChargingProfileResult", None, None) /\ Below(r) = r.call.sub
                   /\ r.call.sub = <<"result", "active", "1234">>
    BY ZenonT(30), <2>2, LineSits DEF c
  <2>3. ASSUME Line(c, "Sender", None, 0, "POST", 3, "charging_profile_result",
                   "ChargingProfileResult", None, None, None) /\ c.sub = <<"result", "set", "1234">>
        PROVE  Sits(r, "Sender", "POST", 3, "charging_profile_result", "ChargingProfileResult",
                   None, None) /\ Below(r) = r.call.sub /\ r.call.sub = <<"result", "set", "1234">>
    BY ZenonT(30), <2>3, LineSits DEF c
  <2>4. ASSUME Line(c, "Sender", None, 0, "POST", 3, "clear_profile_result", "ClearProfileResult",
                   None, None, None) /\ c.sub = <<"result", "clear", "1234">>
        PROVE  Sits(r, "Sender", "POST", 3, "clear_profile_result", "ClearProfileResult", None,
                   None) /\ Below(r) = r.call.sub /\ r.call.sub = <<"result", "clear", "1234">>
    BY <2>4, LineSits DEF c
  <2> QED
    BY <2>1, <2>2, <2>3, <2>4
<1> QED
  BY <1>2, <1>5, <1>6

LEMMA PaymentsSits ==
    ASSUME NEW r \in Requests, r.call.module = "payments"
    PROVE  \/ Sits(r, "Sender", "GET", 1, "terminals", None, "Terminal", None)
              /\ Below(r)[1] = "terminals"
           \/ Sits(r, "Sender", "GET", 2, "terminal", None, "Terminal", None)
              /\ Below(r)[1] = "terminals"
           \/ Sits(r, "Sender", "PUT", 2, "put_terminal", "Terminal", "Terminal", None)
              /\ Below(r)[1] = "terminals"
           \/ Sits(r, "Sender", "PATCH", 2, "patch_terminal", "Terminal", "Terminal", None)
              /\ Below(r)[1] = "terminals"
           \/ Sits(r, "Sender", "POST", 2, "activate_terminal", "Terminal", "Terminal", None)
              /\ Below(r)[1] = "terminals"
           \/ Sits(r, "Sender", "POST", 3, "deactivate_terminal", "Empty", "Terminal", None)
              /\ Below(r)[1] = "terminals"
           \/ Sits(r, "Receiver", "POST", 1, "post_terminal", "Terminal", "Terminal", None)
              /\ Below(r)[1] = "terminals"
           \/ Sits(r, "Sender", "GET", 1, "financial_advice_confirmations", None,
              "FinancialAdviceConfirmation", None) /\ Below(r)[1] = "financial-advice-confirmations"
           \/ Sits(r, "Sender", "GET", 2, "financial_advice_confirmation", None,
              "FinancialAdviceConfirmation", None) /\ Below(r)[1] = "financial-advice-confirmations"
           \/ Sits(r, "Receiver", "POST", 1, "post_financial_advice_confirmation",
              "FinancialAdviceConfirmation", "FinancialAdviceConfirmation", None)
              /\ Below(r)[1] = "financial-advice-confirmations"
<1> DEFINE c == r.call
           len == Len(Below(r))
<1>1. c \in C!AllCalls \cup OtherCalls /\ c.module = "payments"
  BY Zenon, RequestIs
<1>2. c \in C!PaymentsCalls
  <2> HIDE DEF c
  <2> QED
    BY <1>1, ModulesOfCalls, CallsOfModules
<1>3. Proper(c) /\ r.party \in {"own", "other", "bad"}
  BY Zenon, <1>1, RequestIs, CallsAreProper
<1>4. /\ len = (IF c.under = None THEN 0 ELSE 1) + (IF c.names THEN 2 ELSE 0) + Len(c.sub)
      /\ c.under = None /\ ~c.names => Below(r) = c.sub
      /\ c.under # None => Below(r)[1] = c.under
  BY Zenon, <1>3, BelowIs
<1>5. CASE c \in C!PaymentsCalls
  <2>0. "terminals" # None /\ "financial-advice-confirmations" # None
    BY DEF None
  <2>1. \/ Line(c, "Sender", "terminals", 0, "GET", 0, "terminals", None, None, "Terminal", None)
        \/ Line(c, "Sender", "terminals", 0, "GET", 1, "terminal", None, None, "Terminal", None)
        \/ Line(c, "Sender", "terminals", 0, "PUT", 1, "put_terminal", "Terminal", None,
           "Terminal", None)
        \/ Line(c, "Sender", "terminals", 0, "PATCH", 1, "patch_terminal", "Terminal", None,
           "Terminal", None)
        \/ Line(c, "Sender", "terminals", 0, "POST", 1, "activate_terminal", "Terminal", None,
           "Terminal", None)
        \/ Line(c, "Sender", "terminals", 0, "POST", 2, "deactivate_terminal", "Empty", None,
           "Terminal", None)
        \/ Line(c, "Receiver", "terminals", 0, "POST", 0, "post_terminal", "Terminal", None,
           "Terminal", None)
        \/ Line(c, "Sender", "financial-advice-confirmations", 0, "GET", 0,
           "financial_advice_confirmations", None, None, "FinancialAdviceConfirmation", None)
        \/ Line(c, "Sender", "financial-advice-confirmations", 0, "GET", 1,
           "financial_advice_confirmation", None, None, "FinancialAdviceConfirmation", None)
        \/ Line(c, "Receiver", "financial-advice-confirmations", 0, "POST", 0,
           "post_financial_advice_confirmation", "FinancialAdviceConfirmation", None,
           "FinancialAdviceConfirmation", None)
    BY <1>1, <1>5, PaymentsLines
  <2> HIDE DEF c
  <2>2. ASSUME Line(c, "Sender", "terminals", 0, "GET", 0, "terminals", None, None, "Terminal",
                   None)
        PROVE  Sits(r, "Sender", "GET", 1, "terminals", None, "Terminal", None)
                   /\ Below(r)[1] = "terminals"
    BY <2>0, <2>2, UnderSits DEF c
  <2>3. ASSUME Line(c, "Sender", "terminals", 0, "GET", 1, "terminal", None, None, "Terminal", None)
        PROVE  Sits(r, "Sender", "GET", 2, "terminal", None, "Terminal", None)
                   /\ Below(r)[1] = "terminals"
    BY Zenon, <2>0, <2>3, UnderSits DEF c
  <2>4. ASSUME Line(c, "Sender", "terminals", 0, "PUT", 1, "put_terminal", "Terminal", None,
                   "Terminal", None)
        PROVE  Sits(r, "Sender", "PUT", 2, "put_terminal", "Terminal", "Terminal", None)
                   /\ Below(r)[1] = "terminals"
    BY Zenon, <2>0, <2>4, UnderSits DEF c
  <2>5. ASSUME Line(c, "Sender", "terminals", 0, "PATCH", 1, "patch_terminal", "Terminal", None,
                   "Terminal", None)
        PROVE  Sits(r, "Sender", "PATCH", 2, "patch_terminal", "Terminal", "Terminal", None)
                   /\ Below(r)[1] = "terminals"
    BY Zenon, <2>0, <2>5, UnderSits DEF c
  <2>6. ASSUME Line(c, "Sender", "terminals", 0, "POST", 1, "activate_terminal", "Terminal", None,
                   "Terminal", None)
        PROVE  Sits(r, "Sender", "POST", 2, "activate_terminal", "Terminal", "Terminal", None)
                   /\ Below(r)[1] = "terminals"
    BY Zenon, <2>0, <2>6, UnderSits DEF c
  <2>7. ASSUME Line(c, "Sender", "terminals", 0, "POST", 2, "deactivate_terminal", "Empty", None,
                   "Terminal", None)
        PROVE  Sits(r, "Sender", "POST", 3, "deactivate_terminal", "Empty", "Terminal", None)
                   /\ Below(r)[1] = "terminals"
    BY Zenon, <2>0, <2>7, UnderSits DEF c
  <2>8. ASSUME Line(c, "Receiver", "terminals", 0, "POST", 0, "post_terminal", "Terminal", None,
                   "Terminal", None)
        PROVE  Sits(r, "Receiver", "POST", 1, "post_terminal", "Terminal", "Terminal", None)
                   /\ Below(r)[1] = "terminals"
    BY Zenon, <2>0, <2>8, UnderSits DEF c
  <2>9. ASSUME Line(c, "Sender", "financial-advice-confirmations", 0, "GET", 0,
                   "financial_advice_confirmations", None, None, "FinancialAdviceConfirmation",
                   None)
        PROVE  Sits(r, "Sender", "GET", 1, "financial_advice_confirmations", None,
                   "FinancialAdviceConfirmation", None)
                   /\ Below(r)[1] = "financial-advice-confirmations"
    BY Zenon, <2>0, <2>9, UnderSits DEF c
  <2>10. ASSUME Line(c, "Sender", "financial-advice-confirmations", 0, "GET", 1,
                    "financial_advice_confirmation", None, None, "FinancialAdviceConfirmation",
                    None)
        PROVE  Sits(r, "Sender", "GET", 2, "financial_advice_confirmation", None,
                   "FinancialAdviceConfirmation", None)
                   /\ Below(r)[1] = "financial-advice-confirmations"
    BY Zenon, <2>0, <2>10, UnderSits DEF c
  <2>11. ASSUME Line(c, "Receiver", "financial-advice-confirmations", 0, "POST", 0,
                    "post_financial_advice_confirmation", "FinancialAdviceConfirmation", None,
                    "FinancialAdviceConfirmation", None)
        PROVE  Sits(r, "Receiver", "POST", 1, "post_financial_advice_confirmation",
                   "FinancialAdviceConfirmation", "FinancialAdviceConfirmation", None)
                   /\ Below(r)[1] = "financial-advice-confirmations"
    BY <2>0, <2>11, UnderSits DEF c
  <2> QED
    BY <2>1, <2>2, <2>3, <2>4, <2>5, <2>6, <2>7, <2>8, <2>9, <2>10, <2>11
<1> QED
  BY <1>2, <1>5

LEMMA LengthsOfRows ==
    ASSUME NEW S, NEW a \in S, NEW b \in S, NEW c \in S, NEW d \in S
    PROVE  /\ <<>> \in Seq(S) /\ Len(<<>>) = 0
           /\ <<a>> \in Seq(S) /\ Len(<<a>>) = 1
           /\ <<a, b>> \in Seq(S) /\ Len(<<a, b>>) = 2
           /\ <<a, b, c>> \in Seq(S) /\ Len(<<a, b, c>>) = 3
           /\ <<a, b, c, d>> \in Seq(S) /\ Len(<<a, b, c, d>>) = 4
OBVIOUS

(* What a static segment of a pattern says of a path that fits.             *)
LEMMA StaticSegments ==
    ASSUME NEW S, NEW x \in Seq(S), NEW a \in S, NEW b \in S, NEW c \in S
    PROVE  /\ R!Fits(<<a>>, x) /\ a # R!Id => x[1] = a
           /\ R!Fits(<<a, b>>, x) /\ a # R!Id => x[1] = a
           /\ R!Fits(<<a, b, c>>, x) /\ a # R!Id => x[1] = a
           /\ R!Fits(<<a, b, c>>, x) /\ b # R!Id => x[2] = b
<1>1. /\ <<a>>[1] = a /\ <<a, b>>[1] = a /\ <<a, b, c>>[1] = a /\ <<a, b, c>>[2] = b
      /\ Len(<<a>>) = 1 /\ Len(<<a, b>>) = 2 /\ Len(<<a, b, c>>) = 3
  OBVIOUS
<1>2. DOMAIN x = 1..Len(x) /\ Len(x) \in Nat
  OBVIOUS
<1>3. ASSUME NEW p, NEW n \in Nat, Len(p) = n, R!Fits(p, x), NEW i \in 1..n
      PROVE  p[i] = x[i] \/ p[i] = R!Id
  BY Zenon, <1>2, <1>3 DEF R!Fits
<1>4. R!Fits(<<a>>, x) => <<a>>[1] = x[1] \/ <<a>>[1] = R!Id
  BY <1>1, <1>3
<1>5. R!Fits(<<a, b>>, x) => <<a, b>>[1] = x[1] \/ <<a, b>>[1] = R!Id
  BY <1>1, <1>3
<1>6. R!Fits(<<a, b, c>>, x) => /\ <<a, b, c>>[1] = x[1] \/ <<a, b, c>>[1] = R!Id
                                /\ <<a, b, c>>[2] = x[2] \/ <<a, b, c>>[2] = R!Id
  <2> DEFINE p == <<a, b, c>>
  <2>1. Len(p) = 3
    BY <1>1
  <2> HIDE DEF p
  <2>2. R!Fits(p, x) => p[1] = x[1] \/ p[1] = R!Id
    BY <1>3, <2>1
  <2>3. R!Fits(p, x) => p[2] = x[2] \/ p[2] = R!Id
    BY <1>3, <2>1
  <2> QED
    BY <2>2, <2>3 DEF p
<1> QED
  BY <1>1, <1>4, <1>5, <1>6

LEMMA CredentialsMeets ==
    ASSUME NEW r, NEW q \in R!Credentials, Matched(r, q), <<q.module, q.role>> \in server.mounted
    PROVE  Meets(r.call, q)
<1> DEFINE c == r.call
           len == Len(Below(r))
           b1 == <<>>
<1>1. b1 \in Seq(Words) /\ Len(b1) = 0
  <2>1. R!Id \in Words
    BY DEF Words
  <2> QED
    BY <2>1, LengthsOfRows
<1>2. r \in Requests /\ r.call.method = q.method /\ Below(r) \in Seq(Words)
  BY Zenon, RequestIs, CallsAreProper, BelowIs DEF Matched
<1>4. /\ q.module = "credentials" /\ q.role = "Sender"
      /\ \/ Row(q, "GET", b1, "get", None, None)
         \/ Row(q, "POST", b1, "post", "json", "Credentials")
         \/ Row(q, "PUT", b1, "put", "json", "Credentials")
         \/ Row(q, "DELETE", b1, "delete", None, None)
  BY CredentialsRows
<1>5. "credentials" \in ModuleNames /\ "Sender" \in Interfaces
  BY DEF ModuleNames, Interfaces
<1> HIDE DEF b1
<1>6. /\ Together2(r, q)
      /\ \/ Spot(r, q, "GET", b1, "get", None, None)
         \/ Spot(r, q, "POST", b1, "post", "json", "Credentials")
         \/ Spot(r, q, "PUT", b1, "put", "json", "Credentials")
         \/ Spot(r, q, "DELETE", b1, "delete", None, None)
  BY Zenon, <1>1, <1>4, <1>5, RowFound
<1>7. c.module = "credentials"
  BY <1>4, <1>5, <1>6 DEF Together2
<1>8. \/ Sits(r, "Sender", "POST", 0, "post", "Credentials", "Credentials", "Credentials")
      \/ Sits(r, "Sender", "PUT", 0, "put", "Credentials", "Credentials", "Credentials")
      \/ Sits(r, "Sender", "DELETE", 0, "delete", None, None, None)
  BY <1>2, <1>7, RegistrationSits
<1> HIDE DEF c, len
<1>9. CASE Spot(r, q, "GET", b1, "get", None, None)
  <2>1. len = 0 /\ c.method = "GET" /\ q.handler = "get" /\ q.body = None /\ q.takes = None
    BY <1>1, <1>2, <1>9 DEF Spot, c, len
  <2>2. c.means = "get" /\ c.role = "Sender"
    BY <1>7, <1>8, <2>1 DEF Sits, c, len
  <2> QED
    BY <1>4, <1>7, <2>1, <2>2 DEF Meets, c, None
<1>10. CASE Spot(r, q, "POST", b1, "post", "json", "Credentials")
  <2>1. len = 0 /\ c.method = "POST" /\ q.handler = "post" /\ q.body = "json"
            /\ q.takes = "Credentials"
    BY <1>1, <1>2, <1>10 DEF Spot, c, len
  <2>2. c.means = "post" /\ c.role = "Sender" /\ c.sends = "Credentials"
    BY <1>7, <1>8, <2>1 DEF Sits, c, len
  <2> QED
    BY <1>4, <1>7, <2>1, <2>2 DEF Meets, c, None
<1>11. CASE Spot(r, q, "PUT", b1, "put", "json", "Credentials")
  <2>1. len = 0 /\ c.method = "PUT" /\ q.handler = "put" /\ q.body = "json"
            /\ q.takes = "Credentials"
    BY <1>1, <1>2, <1>11 DEF Spot, c, len
  <2>2. c.means = "put" /\ c.role = "Sender" /\ c.sends = "Credentials"
    BY <1>7, <1>8, <2>1 DEF Sits, c, len
  <2> QED
    BY <1>4, <1>7, <2>1, <2>2 DEF Meets, c, None
<1>12. CASE Spot(r, q, "DELETE", b1, "delete", None, None)
  <2>1. len = 0 /\ c.method = "DELETE" /\ q.handler = "delete" /\ q.body = None /\ q.takes = None
    BY <1>1, <1>2, <1>12 DEF Spot, c, len
  <2>2. c.means = "delete" /\ c.role = "Sender"
    BY <1>7, <1>8, <2>1 DEF Sits, c, len
  <2> QED
    BY <1>4, <1>7, <2>1, <2>2 DEF Meets, c, None
<1> QED
  BY <1>6, <1>9, <1>10, <1>11, <1>12

LEMMA LocationsSenderMeets ==
    ASSUME NEW r, NEW q \in R!LocationsSender, Matched(r, q),
               <<q.module, q.role>> \in server.mounted
    PROVE  Meets(r.call, q)
<1> DEFINE c == r.call
           len == Len(Below(r))
           b1 == <<>>
           b2 == <<R!Id>>
           b3 == <<R!Id, R!Id>>
           b4 == <<R!Id, R!Id, R!Id>>
<1>1. b1 \in Seq(Words) /\ Len(b1) = 0 /\ b2 \in Seq(Words) /\ Len(b2) = 1 /\ b3 \in Seq(Words)
          /\ Len(b3) = 2 /\ b4 \in Seq(Words) /\ Len(b4) = 3
  <2>1. R!Id \in Words
    BY DEF Words
  <2> QED
    BY <2>1, LengthsOfRows
<1>2. r \in Requests /\ r.call.method = q.method /\ Below(r) \in Seq(Words)
  BY RequestIs, CallsAreProper, BelowIs DEF Matched
<1>4. /\ q.module = "locations" /\ q.role = "Sender"
      /\ \/ Row(q, "GET", b1, "list", None, None)
         \/ Row(q, "GET", b2, "location", None, None)
         \/ Row(q, "GET", b3, "evse", None, None)
         \/ Row(q, "GET", b4, "connector", None, None)
  BY LocationsSenderRows
<1>5. "locations" \in ModuleNames /\ "Sender" \in Interfaces /\ "locations" \in Ambiguous
  BY DEF ModuleNames, Interfaces, Ambiguous
<1> HIDE DEF b1, b2, b3, b4
<1>6. /\ Together2(r, q)
      /\ \/ Spot(r, q, "GET", b1, "list", None, None)
         \/ Spot(r, q, "GET", b2, "location", None, None)
         \/ Spot(r, q, "GET", b3, "evse", None, None)
         \/ Spot(r, q, "GET", b4, "connector", None, None)
  BY Zenon, <1>1, <1>4, <1>5, RowFound
<1>7. c.module = "locations" /\ c.role = "Sender"
  BY <1>4, <1>5, <1>6 DEF Together2
<1>8. \/ Sits(r, "Sender", "GET", 0, "list", None, "Location", "Location")
      \/ Sits(r, "Sender", "GET", 1, "location", None, "Location", "Location")
      \/ Sits(r, "Sender", "GET", 2, "evse", None, "Evse", "Evse")
      \/ Sits(r, "Sender", "GET", 3, "connector", None, "Connector", "Connector")
      \/ Sits(r, "Receiver", "PUT", 3, "put_location", "Location", None, None)
      \/ Sits(r, "Receiver", "PUT", 4, "put_evse", "Evse", None, None)
      \/ Sits(r, "Receiver", "PATCH", 3, "patch", "Location", None, None)
      \/ Sits(r, "Receiver", "PATCH", 4, "patch", "Evse", None, None)
      \/ Sits(r, "Receiver", "PATCH", 5, "patch", "Connector", None, None)
  BY <1>2, <1>7, LocationsSits
<1> HIDE DEF c, len
<1>9. CASE Spot(r, q, "GET", b1, "list", None, None)
  <2>1. len = 0 /\ c.method = "GET" /\ q.handler = "list" /\ q.body = None /\ q.takes = None
    BY <1>1, <1>2, <1>9 DEF Spot, c, len
  <2>2. c.means = "list" /\ c.role = "Sender"
    BY <1>7, <1>8, <2>1 DEF Sits, c, len
  <2> QED
    BY <1>4, <1>7, <2>1, <2>2 DEF Meets, c, None
<1>10. CASE Spot(r, q, "GET", b2, "location", None, None)
  <2>1. len = 1 /\ c.method = "GET" /\ q.handler = "location" /\ q.body = None /\ q.takes = None
    BY <1>1, <1>2, <1>10 DEF Spot, c, len
  <2>2. c.means = "location" /\ c.role = "Sender"
    BY <1>7, <1>8, <2>1 DEF Sits, c, len
  <2> QED
    BY <1>4, <1>7, <2>1, <2>2 DEF Meets, c, None
<1>11. CASE Spot(r, q, "GET", b3, "evse", None, None)
  <2>1. len = 2 /\ c.method = "GET" /\ q.handler = "evse" /\ q.body = None /\ q.takes = None
    BY <1>1, <1>2, <1>11 DEF Spot, c, len
  <2>2. c.means = "evse" /\ c.role = "Sender"
    BY <1>7, <1>8, <2>1 DEF Sits, c, len
  <2> QED
    BY <1>4, <1>7, <2>1, <2>2 DEF Meets, c, None
<1>12. CASE Spot(r, q, "GET", b4, "connector", None, None)
  <2>1. len = 3 /\ c.method = "GET" /\ q.handler = "connector" /\ q.body = None /\ q.takes = None
    BY <1>1, <1>2, <1>12 DEF Spot, c, len
  <2>2. c.means = "connector" /\ c.role = "Sender"
    BY <1>7, <1>8, <2>1 DEF Sits, c, len
  <2> QED
    BY <1>4, <1>7, <2>1, <2>2 DEF Meets, c, None
<1> QED
  BY <1>6, <1>9, <1>10, <1>11, <1>12

LEMMA LocationsReceiverMeets ==
    ASSUME NEW r, NEW q \in R!LocationsReceiver(server.prefix), Matched(r, q),
               <<q.module, q.role>> \in server.mounted
    PROVE  Meets(r.call, q)
<1> DEFINE c == r.call
           len == Len(Below(r))
           b1 == <<R!Id, R!Id, R!Id>>
           b2 == <<R!Id, R!Id, R!Id, R!Id>>
<1>1. b1 \in Seq(Words) /\ Len(b1) = 3 /\ b2 \in Seq(Words) /\ Len(b2) = 4
  <2>1. R!Id \in Words
    BY DEF Words
  <2> QED
    BY <2>1, LengthsOfRows
<1>2. r \in Requests /\ r.call.method = q.method /\ Below(r) \in Seq(Words)
  BY Zenon, RequestIs, CallsAreProper, BelowIs DEF Matched
<1>4. /\ q.module = "locations" /\ q.role = "Receiver"
      /\ \/ Row(q, "GET", b1, "location", None, None)
         \/ Row(q, "PUT", b1, "put_location", "json", "Location")
         \/ Row(q, "PATCH", b1, "patch", "patch", "Location")
         \/ Row(q, "PUT", b2, "put_evse", "json", "Evse")
  BY LocationsReceiverRows
<1>5. "locations" \in ModuleNames /\ "Receiver" \in Interfaces /\ "locations" \in Ambiguous
  BY DEF ModuleNames, Interfaces, Ambiguous
<1> HIDE DEF b1, b2
<1>6. /\ Together2(r, q)
      /\ \/ Spot(r, q, "GET", b1, "location", None, None)
         \/ Spot(r, q, "PUT", b1, "put_location", "json", "Location")
         \/ Spot(r, q, "PATCH", b1, "patch", "patch", "Location")
         \/ Spot(r, q, "PUT", b2, "put_evse", "json", "Evse")
  BY <1>1, <1>4, <1>5, RowFound
<1>7. c.module = "locations" /\ c.role = "Receiver"
  BY <1>4, <1>5, <1>6 DEF Together2
<1>8. \/ Sits(r, "Sender", "GET", 0, "list", None, "Location", "Location")
      \/ Sits(r, "Sender", "GET", 1, "location", None, "Location", "Location")
      \/ Sits(r, "Sender", "GET", 2, "evse", None, "Evse", "Evse")
      \/ Sits(r, "Sender", "GET", 3, "connector", None, "Connector", "Connector")
      \/ Sits(r, "Receiver", "PUT", 3, "put_location", "Location", None, None)
      \/ Sits(r, "Receiver", "PUT", 4, "put_evse", "Evse", None, None)
      \/ Sits(r, "Receiver", "PATCH", 3, "patch", "Location", None, None)
      \/ Sits(r, "Receiver", "PATCH", 4, "patch", "Evse", None, None)
      \/ Sits(r, "Receiver", "PATCH", 5, "patch", "Connector", None, None)
  BY <1>2, <1>7, LocationsSits
<1> HIDE DEF c, len
<1>9. CASE Spot(r, q, "GET", b1, "location", None, None)
  <2>1. len = 3 /\ c.method = "GET" /\ q.handler = "location" /\ q.body = None /\ q.takes = None
    BY <1>1, <1>2, <1>9 DEF Spot, c, len
  <2>2. c.means = "location" /\ c.role = "Receiver"
    BY <1>7, <1>8, <2>1 DEF Sits, c, len
  <2> QED
    BY <1>4, <1>7, <2>1, <2>2 DEF Meets, c, None
<1>10. CASE Spot(r, q, "PUT", b1, "put_location", "json", "Location")
  <2>1. len = 3 /\ c.method = "PUT" /\ q.handler = "put_location" /\ q.body = "json"
            /\ q.takes = "Location"
    BY <1>1, <1>2, <1>10 DEF Spot, c, len
  <2>2. c.means = "put_location" /\ c.role = "Receiver" /\ c.sends = "Location"
    BY <1>7, <1>8, <2>1 DEF Sits, c, len
  <2> QED
    BY <1>4, <1>7, <2>1, <2>2 DEF Meets, c, None
<1>11. CASE Spot(r, q, "PATCH", b1, "patch", "patch", "Location")
  <2>1. len = 3 /\ c.method = "PATCH" /\ q.handler = "patch" /\ q.body = "patch"
            /\ q.takes = "Location"
    BY <1>1, <1>2, <1>11 DEF Spot, c, len
  <2>2. c.means = "patch" /\ c.role = "Receiver" /\ c.sends = "Location"
    BY <1>7, <1>8, <2>1 DEF Sits, c, len
  <2> QED
    BY <1>4, <1>7, <2>1, <2>2 DEF Meets, c, None
<1>12. CASE Spot(r, q, "PUT", b2, "put_evse", "json", "Evse")
  <2>1. len = 4 /\ c.method = "PUT" /\ q.handler = "put_evse" /\ q.body = "json" /\ q.takes = "Evse"
    BY <1>1, <1>2, <1>12 DEF Spot, c, len
  <2>2. c.means = "put_evse" /\ c.role = "Receiver" /\ c.sends = "Evse"
    BY <1>7, <1>8, <2>1 DEF Sits, c, len
  <2> QED
    BY <1>4, <1>7, <2>1, <2>2 DEF Meets, c, None
<1> QED
  BY <1>6, <1>9, <1>10, <1>11, <1>12

LEMMA TokensSenderMeets ==
    ASSUME NEW r, NEW q \in R!TokensSender, Matched(r, q), <<q.module, q.role>> \in server.mounted
    PROVE  Meets(r.call, q)
<1> DEFINE c == r.call
           len == Len(Below(r))
           b1 == <<>>
           b2 == <<R!Id, "authorize">>
<1>1. b1 \in Seq(Words) /\ Len(b1) = 0 /\ b2 \in Seq(Words) /\ Len(b2) = 2
  <2>1. R!Id \in Words /\ "authorize" \in Words
    BY DEF Words
  <2> QED
    BY <2>1, LengthsOfRows
<1>2. r \in Requests /\ r.call.method = q.method /\ Below(r) \in Seq(Words)
  BY RequestIs, CallsAreProper, BelowIs DEF Matched
<1>4. /\ q.module = "tokens" /\ q.role = "Sender"
      /\ \/ Row(q, "GET", b1, "list", None, None)
         \/ Row(q, "POST", b2, "authorize", "optional", "LocationReferences")
  BY TokensSenderRows
<1>5. "tokens" \in ModuleNames /\ "Sender" \in Interfaces
  BY DEF ModuleNames, Interfaces
<1> HIDE DEF b1, b2
<1>6. /\ Together2(r, q)
      /\ \/ Spot(r, q, "GET", b1, "list", None, None)
         \/ Spot(r, q, "POST", b2, "authorize", "optional", "LocationReferences")
  BY Zenon, <1>1, <1>4, <1>5, RowFound
<1>7. c.module = "tokens"
  BY <1>4, <1>5, <1>6 DEF Together2
<1>8. \/ Sits(r, "Sender", "GET", 0, "list", None, "Token", "Token")
      \/ Sits(r, "Sender", "POST", 2, "authorize", "LocationReferences", "AuthorizationInfo",
         "AuthorizationInfo") /\ Below(r) = r.call.sub /\ r.call.sub = <<"UID1", "authorize">>
      \/ Sits(r, "Receiver", "GET", 3, "token", None, "Token", "Token")
      \/ Sits(r, "Receiver", "PUT", 3, "put_token", "Token", None, None)
      \/ Sits(r, "Receiver", "PATCH", 3, "patch_token", "Token", None, None)
  BY <1>2, <1>7, TokensSits
<1> HIDE DEF c, len
<1>9. CASE Spot(r, q, "GET", b1, "list", None, None)
  <2>1. len = 0 /\ c.method = "GET" /\ q.handler = "list" /\ q.body = None /\ q.takes = None
    BY <1>1, <1>2, <1>9 DEF Spot, c, len
  <2>2. c.means = "list" /\ c.role = "Sender"
    BY <1>7, <1>8, <2>1 DEF Sits, c, len
  <2> QED
    BY <1>4, <1>7, <2>1, <2>2 DEF Meets, c, None
<1>10. CASE Spot(r, q, "POST", b2, "authorize", "optional", "LocationReferences")
  <2>1. len = 2 /\ c.method = "POST" /\ q.handler = "authorize" /\ q.body = "optional"
            /\ q.takes = "LocationReferences"
    BY <1>1, <1>2, <1>10 DEF Spot, c, len
  <2>2. c.means = "authorize" /\ c.role = "Sender"
    BY <1>7, <1>8, <2>1 DEF Sits, c, len
  <2> QED
    BY <1>4, <1>7, <2>1, <2>2 DEF Meets, c, None
<1> QED
  BY <1>6, <1>9, <1>10

LEMMA TokensReceiverMeets ==
    ASSUME NEW r, NEW q \in R!TokensReceiver(server.prefix), Matched(r, q),
               <<q.module, q.role>> \in server.mounted
    PROVE  Meets(r.call, q)
<1> DEFINE c == r.call
           len == Len(Below(r))
           b1 == <<R!Id, R!Id, R!Id>>
<1>1. b1 \in Seq(Words) /\ Len(b1) = 3
  <2>1. R!Id \in Words
    BY DEF Words
  <2> QED
    BY <2>1, LengthsOfRows
<1>2. r \in Requests /\ r.call.method = q.method /\ Below(r) \in Seq(Words)
  BY RequestIs, CallsAreProper, BelowIs DEF Matched
<1>4. /\ q.module = "tokens" /\ q.role = "Receiver"
      /\ \/ Row(q, "GET", b1, "token", None, None)
         \/ Row(q, "PUT", b1, "put_token", "json", "Token")
         \/ Row(q, "PATCH", b1, "patch_token", "patch", "Token")
  BY TokensReceiverRows
<1>5. "tokens" \in ModuleNames /\ "Receiver" \in Interfaces
  BY DEF ModuleNames, Interfaces
<1> HIDE DEF b1
<1>6. /\ Together2(r, q)
      /\ \/ Spot(r, q, "GET", b1, "token", None, None)
         \/ Spot(r, q, "PUT", b1, "put_token", "json", "Token")
         \/ Spot(r, q, "PATCH", b1, "patch_token", "patch", "Token")
  BY <1>1, <1>4, <1>5, RowFound
<1>7. c.module = "tokens"
  BY <1>4, <1>5, <1>6 DEF Together2
<1>8. \/ Sits(r, "Sender", "GET", 0, "list", None, "Token", "Token")
      \/ Sits(r, "Sender", "POST", 2, "authorize", "LocationReferences", "AuthorizationInfo",
         "AuthorizationInfo") /\ Below(r) = r.call.sub /\ r.call.sub = <<"UID1", "authorize">>
      \/ Sits(r, "Receiver", "GET", 3, "token", None, "Token", "Token")
      \/ Sits(r, "Receiver", "PUT", 3, "put_token", "Token", None, None)
      \/ Sits(r, "Receiver", "PATCH", 3, "patch_token", "Token", None, None)
  BY <1>2, <1>7, TokensSits
<1> HIDE DEF c, len
<1>9. CASE Spot(r, q, "GET", b1, "token", None, None)
  <2>1. len = 3 /\ c.method = "GET" /\ q.handler = "token" /\ q.body = None /\ q.takes = None
    BY <1>1, <1>2, <1>9 DEF Spot, c, len
  <2>2. c.means = "token" /\ c.role = "Receiver"
    BY <1>7, <1>8, <2>1 DEF Sits, c, len
  <2> QED
    BY <1>4, <1>7, <2>1, <2>2 DEF Meets, c, None
<1>10. CASE Spot(r, q, "PUT", b1, "put_token", "json", "Token")
  <2>1. len = 3 /\ c.method = "PUT" /\ q.handler = "put_token" /\ q.body = "json"
            /\ q.takes = "Token"
    BY <1>1, <1>2, <1>10 DEF Spot, c, len
  <2>2. c.means = "put_token" /\ c.role = "Receiver" /\ c.sends = "Token"
    BY <1>7, <1>8, <2>1 DEF Sits, c, len
  <2> QED
    BY <1>4, <1>7, <2>1, <2>2 DEF Meets, c, None
<1>11. CASE Spot(r, q, "PATCH", b1, "patch_token", "patch", "Token")
  <2>1. len = 3 /\ c.method = "PATCH" /\ q.handler = "patch_token" /\ q.body = "patch"
            /\ q.takes = "Token"
    BY <1>1, <1>2, <1>11 DEF Spot, c, len
  <2>2. c.means = "patch_token" /\ c.role = "Receiver" /\ c.sends = "Token"
    BY <1>7, <1>8, <2>1 DEF Sits, c, len
  <2> QED
    BY <1>4, <1>7, <2>1, <2>2 DEF Meets, c, None
<1> QED
  BY <1>6, <1>9, <1>10, <1>11

LEMMA CdrsSenderMeets ==
    ASSUME NEW r, NEW q \in R!CdrsSender, Matched(r, q), <<q.module, q.role>> \in server.mounted
    PROVE  Meets(r.call, q)
<1> DEFINE c == r.call
           len == Len(Below(r))
           b1 == <<>>
<1>1. b1 \in Seq(Words) /\ Len(b1) = 0
  <2>1. R!Id \in Words
    BY DEF Words
  <2> QED
    BY <2>1, LengthsOfRows
<1>2. r \in Requests /\ r.call.method = q.method /\ Below(r) \in Seq(Words)
  BY RequestIs, CallsAreProper, BelowIs DEF Matched
<1>4. /\ q.module = "cdrs" /\ q.role = "Sender"
      /\ Row(q, "GET", b1, "list", None, None)
  BY CdrsSenderRows
<1>5. "cdrs" \in ModuleNames /\ "Sender" \in Interfaces
  BY DEF ModuleNames, Interfaces
<1> HIDE DEF b1
<1>6. /\ Together2(r, q)
      /\ Spot(r, q, "GET", b1, "list", None, None)
  BY Zenon, <1>1, <1>4, <1>5, RowFound
<1>7. c.module = "cdrs"
  BY <1>4, <1>5, <1>6 DEF Together2
<1>8. \/ Sits(r, "Sender", "GET", 0, "list", None, "Cdr", "Cdr")
      \/ Sits(r, "Receiver", "POST", 0, "post_cdr", "Cdr", None, None)
  BY <1>2, <1>7, CdrsSits
<1> HIDE DEF c, len
<1>9. CASE Spot(r, q, "GET", b1, "list", None, None)
  <2>1. len = 0 /\ c.method = "GET" /\ q.handler = "list" /\ q.body = None /\ q.takes = None
    BY <1>1, <1>2, <1>9 DEF Spot, c, len
  <2>2. c.means = "list" /\ c.role = "Sender"
    BY <1>7, <1>8, <2>1 DEF Sits, c, len
  <2> QED
    BY <1>4, <1>7, <2>1, <2>2 DEF Meets, c, None
<1> QED
  BY <1>6, <1>9

LEMMA CdrsReceiverMeets ==
    ASSUME NEW r, NEW q \in R!CdrsReceiver(server.prefix), Matched(r, q),
               <<q.module, q.role>> \in server.mounted
    PROVE  Meets(r.call, q)
<1> DEFINE c == r.call
           len == Len(Below(r))
           b1 == <<>>
           b2 == <<R!Id>>
<1>1. b1 \in Seq(Words) /\ Len(b1) = 0 /\ b2 \in Seq(Words) /\ Len(b2) = 1
  <2>1. R!Id \in Words
    BY DEF Words
  <2> QED
    BY <2>1, LengthsOfRows
<1>2. r \in Requests /\ r.call.method = q.method /\ Below(r) \in Seq(Words)
  BY RequestIs, CallsAreProper, BelowIs DEF Matched
<1>4. /\ q.module = "cdrs" /\ q.role = "Receiver"
      /\ \/ Row(q, "POST", b1, "post_cdr", "json", "Cdr")
         \/ Row(q, "GET", b2, "cdr", None, None)
  BY CdrsReceiverRows
<1>5. "cdrs" \in ModuleNames /\ "Receiver" \in Interfaces
  BY DEF ModuleNames, Interfaces
<1> HIDE DEF b1, b2
<1>6. /\ Together2(r, q)
      /\ \/ Spot(r, q, "POST", b1, "post_cdr", "json", "Cdr")
         \/ Spot(r, q, "GET", b2, "cdr", None, None)
  BY Zenon, <1>1, <1>4, <1>5, RowFound
<1>7. c.module = "cdrs"
  BY <1>4, <1>5, <1>6 DEF Together2
<1>8. \/ Sits(r, "Sender", "GET", 0, "list", None, "Cdr", "Cdr")
      \/ Sits(r, "Receiver", "POST", 0, "post_cdr", "Cdr", None, None)
  BY <1>2, <1>7, CdrsSits
<1> HIDE DEF c, len
<1>9. CASE Spot(r, q, "POST", b1, "post_cdr", "json", "Cdr")
  <2>1. len = 0 /\ c.method = "POST" /\ q.handler = "post_cdr" /\ q.body = "json" /\ q.takes = "Cdr"
    BY <1>1, <1>2, <1>9 DEF Spot, c, len
  <2>2. c.means = "post_cdr" /\ c.role = "Receiver" /\ c.sends = "Cdr"
    BY <1>7, <1>8, <2>1 DEF Sits, c, len
  <2> QED
    BY <1>4, <1>7, <2>1, <2>2 DEF Meets, c, None
<1>10. CASE Spot(r, q, "GET", b2, "cdr", None, None)
  <2>1. len = 1 /\ c.method = "GET" /\ q.handler = "cdr" /\ q.body = None /\ q.takes = None
    BY <1>1, <1>2, <1>10 DEF Spot, c, len
  <2>2. c.means = "cdr" /\ c.role = "Receiver"
    BY <1>7, <1>8, <2>1 DEF Sits, c, len
  <2> QED
    BY <1>4, <1>7, <2>1, <2>2 DEF Meets, c, None
<1> QED
  BY <1>6, <1>9, <1>10

LEMMA SessionsSenderMeets ==
    ASSUME NEW r, NEW q \in R!SessionsSender, Matched(r, q), <<q.module, q.role>> \in server.mounted
    PROVE  Meets(r.call, q)
<1> DEFINE c == r.call
           len == Len(Below(r))
           b1 == <<>>
           b2 == <<R!Id, "charging_preferences">>
<1>1. b1 \in Seq(Words) /\ Len(b1) = 0 /\ b2 \in Seq(Words) /\ Len(b2) = 2
  <2>1. R!Id \in Words /\ "charging_preferences" \in Words
    BY DEF Words
  <2> QED
    BY <2>1, LengthsOfRows
<1>2. r \in Requests /\ r.call.method = q.method /\ Below(r) \in Seq(Words)
  BY RequestIs, CallsAreProper, BelowIs DEF Matched
<1>4. /\ q.module = "sessions" /\ q.role = "Sender"
      /\ \/ Row(q, "GET", b1, "list", None, None)
         \/ Row(q, "PUT", b2, "set_charging_preferences", "json", "ChargingPreferences")
  BY SessionsSenderRows
<1>5. "sessions" \in ModuleNames /\ "Sender" \in Interfaces
  BY DEF ModuleNames, Interfaces
<1> HIDE DEF b1, b2
<1>6. /\ Together2(r, q)
      /\ \/ Spot(r, q, "GET", b1, "list", None, None)
         \/ Spot(r, q, "PUT", b2, "set_charging_preferences", "json", "ChargingPreferences")
  BY Zenon, <1>1, <1>4, <1>5, RowFound
<1>7. c.module = "sessions"
  BY <1>4, <1>5, <1>6 DEF Together2
<1>8. \/ Sits(r, "Sender", "GET", 0, "list", None, "Session", "Session")
      \/ Sits(r, "Sender", "PUT", 2, "set_charging_preferences", "ChargingPreferences",
         "ChargingPreferencesResponse", None)
      \/ Sits(r, "Receiver", "GET", 3, "session", None, "Session", "Session")
      \/ Sits(r, "Receiver", "PUT", 3, "put_session", "Session", None, None)
      \/ Sits(r, "Receiver", "PATCH", 3, "patch_session", "Session", None, None)
  BY <1>2, <1>7, SessionsSits
<1> HIDE DEF c, len
<1>9. CASE Spot(r, q, "GET", b1, "list", None, None)
  <2>1. len = 0 /\ c.method = "GET" /\ q.handler = "list" /\ q.body = None /\ q.takes = None
    BY <1>1, <1>2, <1>9 DEF Spot, c, len
  <2>2. c.means = "list" /\ c.role = "Sender"
    BY <1>7, <1>8, <2>1 DEF Sits, c, len
  <2> QED
    BY <1>4, <1>7, <2>1, <2>2 DEF Meets, c, None
<1>10. CASE Spot(r, q, "PUT", b2, "set_charging_preferences", "json", "ChargingPreferences")
  <2>1. len = 2 /\ c.method = "PUT" /\ q.handler = "set_charging_preferences" /\ q.body = "json"
            /\ q.takes = "ChargingPreferences"
    BY <1>1, <1>2, <1>10 DEF Spot, c, len
  <2>2. c.means = "set_charging_preferences" /\ c.role = "Sender" /\ c.sends = "ChargingPreferences"
    BY <1>7, <1>8, <2>1 DEF Sits, c, len
  <2> QED
    BY <1>4, <1>7, <2>1, <2>2 DEF Meets, c, None
<1> QED
  BY <1>6, <1>9, <1>10

LEMMA SessionsReceiverMeets ==
    ASSUME NEW r, NEW q \in R!SessionsReceiver(server.prefix), Matched(r, q),
               <<q.module, q.role>> \in server.mounted
    PROVE  Meets(r.call, q)
<1> DEFINE c == r.call
           len == Len(Below(r))
           b1 == <<R!Id, R!Id, R!Id>>
<1>1. b1 \in Seq(Words) /\ Len(b1) = 3
  <2>1. R!Id \in Words
    BY DEF Words
  <2> QED
    BY <2>1, LengthsOfRows
<1>2. r \in Requests /\ r.call.method = q.method /\ Below(r) \in Seq(Words)
  BY RequestIs, CallsAreProper, BelowIs DEF Matched
<1>4. /\ q.module = "sessions" /\ q.role = "Receiver"
      /\ \/ Row(q, "GET", b1, "session", None, None)
         \/ Row(q, "PUT", b1, "put_session", "json", "Session")
         \/ Row(q, "PATCH", b1, "patch_session", "patch", "Session")
  BY SessionsReceiverRows
<1>5. "sessions" \in ModuleNames /\ "Receiver" \in Interfaces
  BY DEF ModuleNames, Interfaces
<1> HIDE DEF b1
<1>6. /\ Together2(r, q)
      /\ \/ Spot(r, q, "GET", b1, "session", None, None)
         \/ Spot(r, q, "PUT", b1, "put_session", "json", "Session")
         \/ Spot(r, q, "PATCH", b1, "patch_session", "patch", "Session")
  BY <1>1, <1>4, <1>5, RowFound
<1>7. c.module = "sessions"
  BY <1>4, <1>5, <1>6 DEF Together2
<1>8. \/ Sits(r, "Sender", "GET", 0, "list", None, "Session", "Session")
      \/ Sits(r, "Sender", "PUT", 2, "set_charging_preferences", "ChargingPreferences",
         "ChargingPreferencesResponse", None)
      \/ Sits(r, "Receiver", "GET", 3, "session", None, "Session", "Session")
      \/ Sits(r, "Receiver", "PUT", 3, "put_session", "Session", None, None)
      \/ Sits(r, "Receiver", "PATCH", 3, "patch_session", "Session", None, None)
  BY <1>2, <1>7, SessionsSits
<1> HIDE DEF c, len
<1>9. CASE Spot(r, q, "GET", b1, "session", None, None)
  <2>1. len = 3 /\ c.method = "GET" /\ q.handler = "session" /\ q.body = None /\ q.takes = None
    BY <1>1, <1>2, <1>9 DEF Spot, c, len
  <2>2. c.means = "session" /\ c.role = "Receiver"
    BY <1>7, <1>8, <2>1 DEF Sits, c, len
  <2> QED
    BY <1>4, <1>7, <2>1, <2>2 DEF Meets, c, None
<1>10. CASE Spot(r, q, "PUT", b1, "put_session", "json", "Session")
  <2>1. len = 3 /\ c.method = "PUT" /\ q.handler = "put_session" /\ q.body = "json"
            /\ q.takes = "Session"
    BY <1>1, <1>2, <1>10 DEF Spot, c, len
  <2>2. c.means = "put_session" /\ c.role = "Receiver" /\ c.sends = "Session"
    BY <1>7, <1>8, <2>1 DEF Sits, c, len
  <2> QED
    BY <1>4, <1>7, <2>1, <2>2 DEF Meets, c, None
<1>11. CASE Spot(r, q, "PATCH", b1, "patch_session", "patch", "Session")
  <2>1. len = 3 /\ c.method = "PATCH" /\ q.handler = "patch_session" /\ q.body = "patch"
            /\ q.takes = "Session"
    BY <1>1, <1>2, <1>11 DEF Spot, c, len
  <2>2. c.means = "patch_session" /\ c.role = "Receiver" /\ c.sends = "Session"
    BY <1>7, <1>8, <2>1 DEF Sits, c, len
  <2> QED
    BY <1>4, <1>7, <2>1, <2>2 DEF Meets, c, None
<1> QED
  BY <1>6, <1>9, <1>10, <1>11

LEMMA TariffsSenderMeets ==
    ASSUME NEW r, NEW q \in R!TariffsSender, Matched(r, q), <<q.module, q.role>> \in server.mounted
    PROVE  Meets(r.call, q)
<1> DEFINE c == r.call
           len == Len(Below(r))
           b1 == <<>>
<1>1. b1 \in Seq(Words) /\ Len(b1) = 0
  <2>1. R!Id \in Words
    BY DEF Words
  <2> QED
    BY <2>1, LengthsOfRows
<1>2. r \in Requests /\ r.call.method = q.method /\ Below(r) \in Seq(Words)
  BY RequestIs, CallsAreProper, BelowIs DEF Matched
<1>4. /\ q.module = "tariffs" /\ q.role = "Sender"
      /\ Row(q, "GET", b1, "list", None, None)
  BY TariffsSenderRows
<1>5. "tariffs" \in ModuleNames /\ "Sender" \in Interfaces
  BY DEF ModuleNames, Interfaces
<1> HIDE DEF b1
<1>6. /\ Together2(r, q)
      /\ Spot(r, q, "GET", b1, "list", None, None)
  BY Zenon, <1>1, <1>4, <1>5, RowFound
<1>7. c.module = "tariffs"
  BY <1>4, <1>5, <1>6 DEF Together2
<1>8. \/ Sits(r, "Sender", "GET", 0, "list", None, "Tariff", "Tariff")
      \/ Sits(r, "Receiver", "GET", 3, "tariff", None, "Tariff", "Tariff")
      \/ Sits(r, "Receiver", "PUT", 3, "put_tariff", "Tariff", None, None)
      \/ Sits(r, "Receiver", "DELETE", 3, "delete_tariff", None, None, None)
      \/ Sits(r, "Receiver", "DELETE", 4, "delete_tariff", None, None, None)
  BY <1>2, <1>7, TariffsSits
<1> HIDE DEF c, len
<1>9. CASE Spot(r, q, "GET", b1, "list", None, None)
  <2>1. len = 0 /\ c.method = "GET" /\ q.handler = "list" /\ q.body = None /\ q.takes = None
    BY <1>1, <1>2, <1>9 DEF Spot, c, len
  <2>2. c.means = "list" /\ c.role = "Sender"
    BY <1>7, <1>8, <2>1 DEF Sits, c, len
  <2> QED
    BY <1>4, <1>7, <2>1, <2>2 DEF Meets, c, None
<1> QED
  BY <1>6, <1>9

LEMMA TariffsReceiverMeets ==
    ASSUME NEW r, NEW q \in R!TariffsReceiver(server.prefix), Matched(r, q),
               <<q.module, q.role>> \in server.mounted
    PROVE  Meets(r.call, q)
<1> DEFINE c == r.call
           len == Len(Below(r))
           b1 == <<R!Id, R!Id, R!Id>>
           b2 == <<R!Id, R!Id, R!Id, "">>
<1>1. b1 \in Seq(Words) /\ Len(b1) = 3 /\ b2 \in Seq(Words) /\ Len(b2) = 4
  <2> DEFINE e == ""
  <2>1. R!Id \in Words /\ e \in Words
    BY DEF Words
  <2> HIDE DEF e
  <2>2. b1 \in Seq(Words) /\ Len(b1) = 3 /\ <<R!Id, R!Id, R!Id, e>> \in Seq(Words)
        /\ Len(<<R!Id, R!Id, R!Id, e>>) = 4
    BY <2>1, LengthsOfRows
  <2> QED
    BY Zenon, <2>2 DEF e
<1>2. r \in Requests /\ r.call.method = q.method /\ Below(r) \in Seq(Words)
  BY RequestIs, CallsAreProper, BelowIs DEF Matched
<1>4. /\ q.module = "tariffs" /\ q.role = "Receiver"
      /\ \/ Row(q, "GET", b1, "tariff", None, None)
         \/ Row(q, "PUT", b1, "put_tariff", "json", "Tariff")
         \/ Row(q, "DELETE", b2, "delete_tariff", None, None)
  BY Zenon, TariffsReceiverRows
<1>5. "tariffs" \in ModuleNames /\ "Receiver" \in Interfaces
  BY DEF ModuleNames, Interfaces
<1> HIDE DEF b1, b2
<1>6. /\ Together2(r, q)
      /\ \/ Spot(r, q, "GET", b1, "tariff", None, None)
         \/ Spot(r, q, "PUT", b1, "put_tariff", "json", "Tariff")
         \/ Spot(r, q, "DELETE", b2, "delete_tariff", None, None)
  BY <1>1, <1>4, <1>5, RowFound
<1>7. c.module = "tariffs"
  BY <1>4, <1>5, <1>6 DEF Together2
<1>8. \/ Sits(r, "Sender", "GET", 0, "list", None, "Tariff", "Tariff")
      \/ Sits(r, "Receiver", "GET", 3, "tariff", None, "Tariff", "Tariff")
      \/ Sits(r, "Receiver", "PUT", 3, "put_tariff", "Tariff", None, None)
      \/ Sits(r, "Receiver", "DELETE", 3, "delete_tariff", None, None, None)
      \/ Sits(r, "Receiver", "DELETE", 4, "delete_tariff", None, None, None)
  BY <1>2, <1>7, TariffsSits
<1> HIDE DEF c, len
<1>9. CASE Spot(r, q, "GET", b1, "tariff", None, None)
  <2>1. len = 3 /\ c.method = "GET" /\ q.handler = "tariff" /\ q.body = None /\ q.takes = None
    BY <1>1, <1>2, <1>9 DEF Spot, c, len
  <2>2. c.means = "tariff" /\ c.role = "Receiver"
    BY <1>7, <1>8, <2>1 DEF Sits, c, len
  <2> QED
    BY <1>4, <1>7, <2>1, <2>2 DEF Meets, c, None
<1>10. CASE Spot(r, q, "PUT", b1, "put_tariff", "json", "Tariff")
  <2>1. len = 3 /\ c.method = "PUT" /\ q.handler = "put_tariff" /\ q.body = "json"
            /\ q.takes = "Tariff"
    BY <1>1, <1>2, <1>10 DEF Spot, c, len
  <2>2. c.means = "put_tariff" /\ c.role = "Receiver" /\ c.sends = "Tariff"
    BY <1>7, <1>8, <2>1 DEF Sits, c, len
  <2> QED
    BY <1>4, <1>7, <2>1, <2>2 DEF Meets, c, None
<1>11. CASE Spot(r, q, "DELETE", b2, "delete_tariff", None, None)
  <2>1. len = 4 /\ c.method = "DELETE" /\ q.handler = "delete_tariff" /\ q.body = None
            /\ q.takes = None
    BY <1>1, <1>2, <1>11 DEF Spot, c, len
  <2>2. c.means = "delete_tariff" /\ c.role = "Receiver"
    BY <1>7, <1>8, <2>1 DEF Sits, c, len
  <2> QED
    BY <1>4, <1>7, <2>1, <2>2 DEF Meets, c, None
<1> QED
  BY <1>6, <1>9, <1>10, <1>11

LEMMA CommandsReceiverMeets ==
    ASSUME NEW r, NEW q \in R!CommandsReceiver, Matched(r, q),
               <<q.module, q.role>> \in server.mounted
    PROVE  Meets(r.call, q)
<1> DEFINE c == r.call
           len == Len(Below(r))
           b1 == <<R!Id>>
<1>1. b1 \in Seq(Words) /\ Len(b1) = 1
  <2>1. R!Id \in Words
    BY DEF Words
  <2> QED
    BY <2>1, LengthsOfRows
<1>2. r \in Requests /\ r.call.method = q.method /\ Below(r) \in Seq(Words)
  BY RequestIs, CallsAreProper, BelowIs DEF Matched
<1>4. /\ q.module = "commands" /\ q.role = "Receiver"
      /\ Row(q, "POST", b1, "command", "command", "Command")
  BY CommandsReceiverRows
<1>5. "commands" \in ModuleNames /\ "Receiver" \in Interfaces
  BY DEF ModuleNames, Interfaces
<1> HIDE DEF b1
<1>6. /\ Together2(r, q)
      /\ Spot(r, q, "POST", b1, "command", "command", "Command")
  BY <1>1, <1>4, <1>5, RowFound
<1>7. c.module = "commands"
  BY <1>4, <1>5, <1>6 DEF Together2
<1>8. \/ Sits(r, "Receiver", "POST", 1, "command", "StartSession", "CommandResponse", None)
         /\ Below(r) = r.call.sub /\ r.call.sub = <<"START_SESSION">>
      \/ Sits(r, "Receiver", "POST", 1, "command", "ReserveNow", "CommandResponse", None)
         /\ Below(r) = r.call.sub /\ r.call.sub = <<"RESERVE_NOW">>
      \/ Sits(r, "Receiver", "POST", 1, "command", "StopSession", "CommandResponse", None)
         /\ Below(r) = r.call.sub /\ r.call.sub = <<"STOP_SESSION">>
      \/ Sits(r, "Receiver", "POST", 1, "command", "CancelReservation", "CommandResponse", None)
         /\ Below(r) = r.call.sub /\ r.call.sub = <<"CANCEL_RESERVATION">>
      \/ Sits(r, "Receiver", "POST", 1, "command", "UnlockConnector", "CommandResponse", None)
         /\ Below(r) = r.call.sub /\ r.call.sub = <<"UNLOCK_CONNECTOR">>
      \/ Sits(r, "Sender", "POST", 2, "command_result", "CommandResult", None, None)
         /\ Below(r) = r.call.sub /\ r.call.sub = <<"START_SESSION", "1234">>
      \/ Sits(r, "Sender", "POST", 2, "command_result", "CommandResult", None, None)
         /\ Below(r) = r.call.sub /\ r.call.sub = <<"RESERVE_NOW", "1234">>
      \/ Sits(r, "Sender", "POST", 2, "command_result", "CommandResult", None, None)
         /\ Below(r) = r.call.sub /\ r.call.sub = <<"STOP_SESSION", "1234">>
      \/ Sits(r, "Receiver", "POST", 1, "command", "StopSession", "CommandResponse", None)
         /\ Below(r) = r.call.sub /\ r.call.sub = <<"DANCE">>
  BY <1>2, <1>7, CommandsSits
<1> HIDE DEF c, len
<1>9. CASE Spot(r, q, "POST", b1, "command", "command", "Command")
  <2>1. len = 1 /\ c.method = "POST" /\ q.handler = "command" /\ q.body = "command"
            /\ q.takes = "Command"
    BY <1>1, <1>2, <1>9 DEF Spot, c, len
  <2>2. c.means = "command" /\ c.role = "Receiver"
    BY <1>7, <1>8, <2>1 DEF Sits, c, len
  <2> QED
    BY <1>4, <1>7, <2>1, <2>2 DEF Meets, c, None
<1> QED
  BY <1>6, <1>9

LEMMA CommandsSenderMeets ==
    ASSUME NEW r, NEW q \in R!CommandsSender, Matched(r, q), <<q.module, q.role>> \in server.mounted
    PROVE  Meets(r.call, q)
<1> DEFINE c == r.call
           len == Len(Below(r))
           b1 == <<R!Id, R!Id>>
<1>1. b1 \in Seq(Words) /\ Len(b1) = 2
  <2>1. R!Id \in Words
    BY DEF Words
  <2> QED
    BY <2>1, LengthsOfRows
<1>2. r \in Requests /\ r.call.method = q.method /\ Below(r) \in Seq(Words)
  BY RequestIs, CallsAreProper, BelowIs DEF Matched
<1>4. /\ q.module = "commands" /\ q.role = "Sender"
      /\ Row(q, "POST", b1, "command_result", "json", "CommandResult")
  BY CommandsSenderRows
<1>5. "commands" \in ModuleNames /\ "Sender" \in Interfaces
  BY DEF ModuleNames, Interfaces
<1> HIDE DEF b1
<1>6. /\ Together2(r, q)
      /\ Spot(r, q, "POST", b1, "command_result", "json", "CommandResult")
  BY <1>1, <1>4, <1>5, RowFound
<1>7. c.module = "commands"
  BY <1>4, <1>5, <1>6 DEF Together2
<1>8. \/ Sits(r, "Receiver", "POST", 1, "command", "StartSession", "CommandResponse", None)
         /\ Below(r) = r.call.sub /\ r.call.sub = <<"START_SESSION">>
      \/ Sits(r, "Receiver", "POST", 1, "command", "ReserveNow", "CommandResponse", None)
         /\ Below(r) = r.call.sub /\ r.call.sub = <<"RESERVE_NOW">>
      \/ Sits(r, "Receiver", "POST", 1, "command", "StopSession", "CommandResponse", None)
         /\ Below(r) = r.call.sub /\ r.call.sub = <<"STOP_SESSION">>
      \/ Sits(r, "Receiver", "POST", 1, "command", "CancelReservation", "CommandResponse", None)
         /\ Below(r) = r.call.sub /\ r.call.sub = <<"CANCEL_RESERVATION">>
      \/ Sits(r, "Receiver", "POST", 1, "command", "UnlockConnector", "CommandResponse", None)
         /\ Below(r) = r.call.sub /\ r.call.sub = <<"UNLOCK_CONNECTOR">>
      \/ Sits(r, "Sender", "POST", 2, "command_result", "CommandResult", None, None)
         /\ Below(r) = r.call.sub /\ r.call.sub = <<"START_SESSION", "1234">>
      \/ Sits(r, "Sender", "POST", 2, "command_result", "CommandResult", None, None)
         /\ Below(r) = r.call.sub /\ r.call.sub = <<"RESERVE_NOW", "1234">>
      \/ Sits(r, "Sender", "POST", 2, "command_result", "CommandResult", None, None)
         /\ Below(r) = r.call.sub /\ r.call.sub = <<"STOP_SESSION", "1234">>
      \/ Sits(r, "Receiver", "POST", 1, "command", "StopSession", "CommandResponse", None)
         /\ Below(r) = r.call.sub /\ r.call.sub = <<"DANCE">>
  BY <1>2, <1>7, CommandsSits
<1> HIDE DEF c, len
<1>9. CASE Spot(r, q, "POST", b1, "command_result", "json", "CommandResult")
  <2>1. len = 2 /\ c.method = "POST" /\ q.handler = "command_result" /\ q.body = "json"
            /\ q.takes = "CommandResult"
    BY <1>1, <1>2, <1>9 DEF Spot, c, len
  <2>2. c.means = "command_result" /\ c.role = "Sender" /\ c.sends = "CommandResult"
    BY <1>7, <1>8, <2>1 DEF Sits, c, len
  <2> QED
    BY <1>4, <1>7, <2>1, <2>2 DEF Meets, c, None
<1> QED
  BY <1>6, <1>9

LEMMA HubClientInfoSenderMeets ==
    ASSUME NEW r, NEW q \in R!HubClientInfoSender, Matched(r, q),
               <<q.module, q.role>> \in server.mounted
    PROVE  Meets(r.call, q)
<1> DEFINE c == r.call
           len == Len(Below(r))
           b1 == <<>>
<1>1. b1 \in Seq(Words) /\ Len(b1) = 0
  <2>1. R!Id \in Words
    BY DEF Words
  <2> QED
    BY <2>1, LengthsOfRows
<1>2. r \in Requests /\ r.call.method = q.method /\ Below(r) \in Seq(Words)
  BY RequestIs, CallsAreProper, BelowIs DEF Matched
<1>4. /\ q.module = "hubclientinfo" /\ q.role = "Sender"
      /\ Row(q, "GET", b1, "list", None, None)
  BY HubClientInfoSenderRows
<1>5. "hubclientinfo" \in ModuleNames /\ "Sender" \in Interfaces
  BY DEF ModuleNames, Interfaces
<1> HIDE DEF b1
<1>6. /\ Together2(r, q)
      /\ Spot(r, q, "GET", b1, "list", None, None)
  BY Zenon, <1>1, <1>4, <1>5, RowFound
<1>7. c.module = "hubclientinfo"
  BY <1>4, <1>5, <1>6 DEF Together2
<1>8. \/ Sits(r, "Sender", "GET", 0, "list", None, "ClientInfo", "ClientInfo")
      \/ Sits(r, "Receiver", "GET", 2, "client_info", None, "ClientInfo", "ClientInfo")
      \/ Sits(r, "Receiver", "PUT", 2, "put_client_info", "ClientInfo", None, None)
  BY <1>2, <1>7, HubClientInfoSits
<1> HIDE DEF c, len
<1>9. CASE Spot(r, q, "GET", b1, "list", None, None)
  <2>1. len = 0 /\ c.method = "GET" /\ q.handler = "list" /\ q.body = None /\ q.takes = None
    BY <1>1, <1>2, <1>9 DEF Spot, c, len
  <2>2. c.means = "list" /\ c.role = "Sender"
    BY <1>7, <1>8, <2>1 DEF Sits, c, len
  <2> QED
    BY <1>4, <1>7, <2>1, <2>2 DEF Meets, c, None
<1> QED
  BY <1>6, <1>9

LEMMA HubClientInfoReceiverMeets ==
    ASSUME NEW r, NEW q \in R!HubClientInfoReceiver(server.prefix), Matched(r, q),
               <<q.module, q.role>> \in server.mounted
    PROVE  Meets(r.call, q)
<1> DEFINE c == r.call
           len == Len(Below(r))
           b1 == <<R!Id, R!Id>>
<1>1. b1 \in Seq(Words) /\ Len(b1) = 2
  <2>1. R!Id \in Words
    BY DEF Words
  <2> QED
    BY <2>1, LengthsOfRows
<1>2. r \in Requests /\ r.call.method = q.method /\ Below(r) \in Seq(Words)
  BY RequestIs, CallsAreProper, BelowIs DEF Matched
<1>4. /\ q.module = "hubclientinfo" /\ q.role = "Receiver"
      /\ \/ Row(q, "GET", b1, "client_info", None, None)
         \/ Row(q, "PUT", b1, "put_client_info", "json", "ClientInfo")
  BY HubClientInfoReceiverRows
<1>5. "hubclientinfo" \in ModuleNames /\ "Receiver" \in Interfaces
  BY DEF ModuleNames, Interfaces
<1> HIDE DEF b1
<1>6. /\ Together2(r, q)
      /\ \/ Spot(r, q, "GET", b1, "client_info", None, None)
         \/ Spot(r, q, "PUT", b1, "put_client_info", "json", "ClientInfo")
  BY <1>1, <1>4, <1>5, RowFound
<1>7. c.module = "hubclientinfo"
  BY <1>4, <1>5, <1>6 DEF Together2
<1>8. \/ Sits(r, "Sender", "GET", 0, "list", None, "ClientInfo", "ClientInfo")
      \/ Sits(r, "Receiver", "GET", 2, "client_info", None, "ClientInfo", "ClientInfo")
      \/ Sits(r, "Receiver", "PUT", 2, "put_client_info", "ClientInfo", None, None)
  BY <1>2, <1>7, HubClientInfoSits
<1> HIDE DEF c, len
<1>9. CASE Spot(r, q, "GET", b1, "client_info", None, None)
  <2>1. len = 2 /\ c.method = "GET" /\ q.handler = "client_info" /\ q.body = None /\ q.takes = None
    BY <1>1, <1>2, <1>9 DEF Spot, c, len
  <2>2. c.means = "client_info" /\ c.role = "Receiver"
    BY <1>7, <1>8, <2>1 DEF Sits, c, len
  <2> QED
    BY <1>4, <1>7, <2>1, <2>2 DEF Meets, c, None
<1>10. CASE Spot(r, q, "PUT", b1, "put_client_info", "json", "ClientInfo")
  <2>1. len = 2 /\ c.method = "PUT" /\ q.handler = "put_client_info" /\ q.body = "json"
            /\ q.takes = "ClientInfo"
    BY <1>1, <1>2, <1>10 DEF Spot, c, len
  <2>2. c.means = "put_client_info" /\ c.role = "Receiver" /\ c.sends = "ClientInfo"
    BY <1>7, <1>8, <2>1 DEF Sits, c, len
  <2> QED
    BY <1>4, <1>7, <2>1, <2>2 DEF Meets, c, None
<1> QED
  BY <1>6, <1>9, <1>10

LEMMA ChargingProfilesReceiverMeets ==
    ASSUME NEW r, NEW q \in R!ChargingProfilesReceiver(server.prefix), Matched(r, q),
               <<q.module, q.role>> \in server.mounted
    PROVE  Meets(r.call, q)
<1> DEFINE c == r.call
           len == Len(Below(r))
           b1 == <<R!Id>>
<1>1. b1 \in Seq(Words) /\ Len(b1) = 1
  <2>1. R!Id \in Words
    BY DEF Words
  <2> QED
    BY <2>1, LengthsOfRows
<1>2. r \in Requests /\ r.call.method = q.method /\ Below(r) \in Seq(Words)
  BY RequestIs, CallsAreProper, BelowIs DEF Matched
<1>4. /\ q.module = "chargingprofiles" /\ q.role = "Receiver"
      /\ \/ Row(q, "GET", b1, "active_charging_profile", None, None)
         \/ Row(q, "PUT", b1, "set_charging_profile", "json", "SetChargingProfile")
         \/ Row(q, "DELETE", b1, "clear_charging_profile", None, None)
  BY ChargingProfilesReceiverRows
<1>5. "chargingprofiles" \in ModuleNames /\ "Receiver" \in Interfaces
          /\ "chargingprofiles" \in Ambiguous
  BY DEF ModuleNames, Interfaces, Ambiguous
<1> HIDE DEF b1
<1>6. /\ Together2(r, q)
      /\ \/ Spot(r, q, "GET", b1, "active_charging_profile", None, None)
         \/ Spot(r, q, "PUT", b1, "set_charging_profile", "json", "SetChargingProfile")
         \/ Spot(r, q, "DELETE", b1, "clear_charging_profile", None, None)
  BY <1>1, <1>4, <1>5, RowFound
<1>7. c.module = "chargingprofiles" /\ c.role = "Receiver"
  BY <1>4, <1>5, <1>6 DEF Together2
<1>8. \/ Sits(r, "Receiver", "GET", 1, "active_charging_profile", None, "ChargingProfileResponse",
         None)
      \/ Sits(r, "Receiver", "PUT", 1, "set_charging_profile", "SetChargingProfile",
         "ChargingProfileResponse", None)
      \/ Sits(r, "Receiver", "DELETE", 1, "clear_charging_profile", None,
         "ChargingProfileResponse", None)
      \/ Sits(r, "Sender", "PUT", 1, "put_active_charging_profile", "ActiveChargingProfile", None,
         None)
      \/ Sits(r, "Sender", "POST", 3, "active_charging_profile_result",
         "ActiveChargingProfileResult", None, None) /\ Below(r) = r.call.sub
         /\ r.call.sub = <<"result", "active", "1234">>
      \/ Sits(r, "Sender", "POST", 3, "charging_profile_result", "ChargingProfileResult", None,
         None) /\ Below(r) = r.call.sub /\ r.call.sub = <<"result", "set", "1234">>
      \/ Sits(r, "Sender", "POST", 3, "clear_profile_result", "ClearProfileResult", None, None)
         /\ Below(r) = r.call.sub /\ r.call.sub = <<"result", "clear", "1234">>
  BY <1>2, <1>7, ChargingProfilesSits
<1> HIDE DEF c, len
<1>9. CASE Spot(r, q, "GET", b1, "active_charging_profile", None, None)
  <2>1. len = 1 /\ c.method = "GET" /\ q.handler = "active_charging_profile" /\ q.body = None
            /\ q.takes = None
    BY <1>1, <1>2, <1>9 DEF Spot, c, len
  <2>2. c.means = "active_charging_profile" /\ c.role = "Receiver"
    BY <1>7, <1>8, <2>1 DEF Sits, c, len
  <2> QED
    BY <1>4, <1>7, <2>1, <2>2 DEF Meets, c, None
<1>10. CASE Spot(r, q, "PUT", b1, "set_charging_profile", "json", "SetChargingProfile")
  <2>1. len = 1 /\ c.method = "PUT" /\ q.handler = "set_charging_profile" /\ q.body = "json"
            /\ q.takes = "SetChargingProfile"
    BY <1>1, <1>2, <1>10 DEF Spot, c, len
  <2>2. c.means = "set_charging_profile" /\ c.role = "Receiver" /\ c.sends = "SetChargingProfile"
    BY <1>7, <1>8, <2>1 DEF Sits, c, len
  <2> QED
    BY <1>4, <1>7, <2>1, <2>2 DEF Meets, c, None
<1>11. CASE Spot(r, q, "DELETE", b1, "clear_charging_profile", None, None)
  <2>1. len = 1 /\ c.method = "DELETE" /\ q.handler = "clear_charging_profile" /\ q.body = None
            /\ q.takes = None
    BY <1>1, <1>2, <1>11 DEF Spot, c, len
  <2>2. c.means = "clear_charging_profile" /\ c.role = "Receiver"
    BY <1>7, <1>8, <2>1 DEF Sits, c, len
  <2> QED
    BY <1>4, <1>7, <2>1, <2>2 DEF Meets, c, None
<1> QED
  BY <1>6, <1>9, <1>10, <1>11

LEMMA ChargingProfilesSenderMeets ==
    ASSUME NEW r, NEW q \in R!ChargingProfilesSender, Matched(r, q),
               <<q.module, q.role>> \in server.mounted
    PROVE  Meets(r.call, q)
<1> DEFINE c == r.call
           len == Len(Below(r))
           b1 == <<"result", "active", R!Id>>
           b2 == <<"result", "set", R!Id>>
           b3 == <<"result", "clear", R!Id>>
           b4 == <<R!Id>>
<1>1. b1 \in Seq(Words) /\ Len(b1) = 3 /\ b2 \in Seq(Words) /\ Len(b2) = 3 /\ b3 \in Seq(Words)
          /\ Len(b3) = 3 /\ b4 \in Seq(Words) /\ Len(b4) = 1
  <2>1. R!Id \in Words /\ "active" \in Words /\ "clear" \in Words /\ "result" \in Words
            /\ "set" \in Words
    BY DEF Words
  <2> QED
    BY <2>1, LengthsOfRows
<1>2. r \in Requests /\ r.call.method = q.method /\ Below(r) \in Seq(Words)
  BY RequestIs, CallsAreProper, BelowIs DEF Matched
<1>3. /\ R!Fits(b1, Below(r)) => Below(r)[2] = "active"
      /\ R!Fits(b2, Below(r)) => Below(r)[2] = "set"
      /\ R!Fits(b3, Below(r)) => Below(r)[2] = "clear"
  <2>1. R!Id \in Words /\ "active" \in Words /\ "active" # R!Id /\ "clear" \in Words
            /\ "clear" # R!Id /\ "result" \in Words /\ "result" # R!Id /\ "set" \in Words
            /\ "set" # R!Id
    BY DEF Words, R!Id
  <2> QED
    BY Zenon, <1>2, <2>1, StaticSegments
<1>4. /\ q.module = "chargingprofiles" /\ q.role = "Sender"
      /\ \/ Row(q, "POST", b1, "active_charging_profile_result", "json",
            "ActiveChargingProfileResult")
         \/ Row(q, "POST", b2, "charging_profile_result", "json", "ChargingProfileResult")
         \/ Row(q, "POST", b3, "clear_profile_result", "json", "ClearProfileResult")
         \/ Row(q, "PUT", b4, "put_active_charging_profile", "json", "ActiveChargingProfile")
  BY ChargingProfilesSenderRows
<1>5. "chargingprofiles" \in ModuleNames /\ "Sender" \in Interfaces
          /\ "chargingprofiles" \in Ambiguous
  BY DEF ModuleNames, Interfaces, Ambiguous
<1> HIDE DEF b1, b2, b3, b4
<1>6. /\ Together2(r, q)
      /\ \/ Spot(r, q, "POST", b1, "active_charging_profile_result", "json",
            "ActiveChargingProfileResult")
         \/ Spot(r, q, "POST", b2, "charging_profile_result", "json", "ChargingProfileResult")
         \/ Spot(r, q, "POST", b3, "clear_profile_result", "json", "ClearProfileResult")
         \/ Spot(r, q, "PUT", b4, "put_active_charging_profile", "json", "ActiveChargingProfile")
  BY <1>1, <1>4, <1>5, RowFound
<1>7. c.module = "chargingprofiles" /\ c.role = "Sender"
  BY <1>4, <1>5, <1>6 DEF Together2
<1>8. \/ Sits(r, "Receiver", "GET", 1, "active_charging_profile", None, "ChargingProfileResponse",
         None)
      \/ Sits(r, "Receiver", "PUT", 1, "set_charging_profile", "SetChargingProfile",
         "ChargingProfileResponse", None)
      \/ Sits(r, "Receiver", "DELETE", 1, "clear_charging_profile", None,
         "ChargingProfileResponse", None)
      \/ Sits(r, "Sender", "PUT", 1, "put_active_charging_profile", "ActiveChargingProfile", None,
         None)
      \/ Sits(r, "Sender", "POST", 3, "active_charging_profile_result",
         "ActiveChargingProfileResult", None, None) /\ Below(r) = r.call.sub
         /\ r.call.sub = <<"result", "active", "1234">>
      \/ Sits(r, "Sender", "POST", 3, "charging_profile_result", "ChargingProfileResult", None,
         None) /\ Below(r) = r.call.sub /\ r.call.sub = <<"result", "set", "1234">>
      \/ Sits(r, "Sender", "POST", 3, "clear_profile_result", "ClearProfileResult", None, None)
         /\ Below(r) = r.call.sub /\ r.call.sub = <<"result", "clear", "1234">>
  BY <1>2, <1>7, ChargingProfilesSits
<1> HIDE DEF c, len
<1>9. CASE Spot(r, q, "POST", b1, "active_charging_profile_result", "json",
               "ActiveChargingProfileResult")
  <2>1. len = 3 /\ c.method = "POST" /\ q.handler = "active_charging_profile_result"
            /\ q.body = "json" /\ q.takes = "ActiveChargingProfileResult" /\ Below(r)[2] = "active"
    BY <1>1, <1>2, <1>3, <1>9 DEF Spot, c, len
  <2>2. c.means = "active_charging_profile_result" /\ c.role = "Sender"
            /\ c.sends = "ActiveChargingProfileResult"
    BY <1>7, <1>8, <2>1 DEF Sits, c, len
  <2> QED
    BY <1>4, <1>7, <2>1, <2>2 DEF Meets, c, None
<1>10. CASE Spot(r, q, "POST", b2, "charging_profile_result", "json", "ChargingProfileResult")
  <2>1. len = 3 /\ c.method = "POST" /\ q.handler = "charging_profile_result" /\ q.body = "json"
            /\ q.takes = "ChargingProfileResult" /\ Below(r)[2] = "set"
    BY <1>1, <1>2, <1>3, <1>10 DEF Spot, c, len
  <2>2. c.means = "charging_profile_result" /\ c.role = "Sender"
            /\ c.sends = "ChargingProfileResult"
    BY <1>7, <1>8, <2>1 DEF Sits, c, len
  <2> QED
    BY <1>4, <1>7, <2>1, <2>2 DEF Meets, c, None
<1>11. CASE Spot(r, q, "POST", b3, "clear_profile_result", "json", "ClearProfileResult")
  <2>1. len = 3 /\ c.method = "POST" /\ q.handler = "clear_profile_result" /\ q.body = "json"
            /\ q.takes = "ClearProfileResult" /\ Below(r)[2] = "clear"
    BY <1>1, <1>2, <1>3, <1>11 DEF Spot, c, len
  <2>2. c.means = "clear_profile_result" /\ c.role = "Sender" /\ c.sends = "ClearProfileResult"
    BY <1>7, <1>8, <2>1 DEF Sits, c, len
  <2> QED
    BY <1>4, <1>7, <2>1, <2>2 DEF Meets, c, None
<1>12. CASE Spot(r, q, "PUT", b4, "put_active_charging_profile", "json", "ActiveChargingProfile")
  <2>1. len = 1 /\ c.method = "PUT" /\ q.handler = "put_active_charging_profile"
            /\ q.body = "json" /\ q.takes = "ActiveChargingProfile"
    BY <1>1, <1>2, <1>3, <1>12 DEF Spot, c, len
  <2>2. c.means = "put_active_charging_profile" /\ c.role = "Sender"
            /\ c.sends = "ActiveChargingProfile"
    BY <1>7, <1>8, <2>1 DEF Sits, c, len
  <2> QED
    BY <1>4, <1>7, <2>1, <2>2 DEF Meets, c, None
<1> QED
  BY <1>6, <1>9, <1>10, <1>11, <1>12

LEMMA PaymentsSenderMeets ==
    ASSUME NEW r, NEW q \in R!PaymentsSender, Matched(r, q), <<q.module, q.role>> \in server.mounted
    PROVE  Meets(r.call, q)
<1> DEFINE c == r.call
           len == Len(Below(r))
           b1 == <<"terminals">>
           b2 == <<"terminals", "activate">>
           b3 == <<"terminals", R!Id>>
           b4 == <<"terminals", R!Id, "deactivate">>
           b5 == <<"financial-advice-confirmations">>
           b6 == <<"financial-advice-confirmations", R!Id>>
<1>1. b1 \in Seq(Words) /\ Len(b1) = 1 /\ b2 \in Seq(Words) /\ Len(b2) = 2 /\ b3 \in Seq(Words)
          /\ Len(b3) = 2 /\ b4 \in Seq(Words) /\ Len(b4) = 3 /\ b5 \in Seq(Words) /\ Len(b5) = 1
          /\ b6 \in Seq(Words) /\ Len(b6) = 2
  <2>1. R!Id \in Words /\ "activate" \in Words /\ "deactivate" \in Words
            /\ "financial-advice-confirmations" \in Words /\ "terminals" \in Words
    BY DEF Words
  <2> QED
    BY <2>1, LengthsOfRows
<1>2. r \in Requests /\ r.call.method = q.method /\ Below(r) \in Seq(Words)
  BY RequestIs, CallsAreProper, BelowIs DEF Matched
<1>3. /\ R!Fits(b1, Below(r)) => Below(r)[1] = "terminals"
      /\ R!Fits(b2, Below(r)) => Below(r)[1] = "terminals"
      /\ R!Fits(b3, Below(r)) => Below(r)[1] = "terminals"
      /\ R!Fits(b4, Below(r)) => Below(r)[1] = "terminals"
      /\ R!Fits(b5, Below(r)) => Below(r)[1] = "financial-advice-confirmations"
      /\ R!Fits(b6, Below(r)) => Below(r)[1] = "financial-advice-confirmations"
  <2>1. R!Id \in Words /\ "activate" \in Words /\ "activate" # R!Id /\ "deactivate" \in Words
            /\ "deactivate" # R!Id /\ "financial-advice-confirmations" \in Words
            /\ "financial-advice-confirmations" # R!Id /\ "terminals" \in Words
            /\ "terminals" # R!Id
    BY DEF Words, R!Id
  <2> QED
    BY Zenon, <1>2, <2>1, StaticSegments
<1>4. /\ q.module = "payments" /\ q.role = "Sender"
      /\ \/ Row(q, "GET", b1, "terminals", None, None)
         \/ Row(q, "POST", b2, "activate_terminal", "partial", "Terminal")
         \/ Row(q, "GET", b3, "terminal", None, None)
         \/ Row(q, "PUT", b3, "put_terminal", "json", "Terminal")
         \/ Row(q, "PATCH", b3, "patch_terminal", "patch", "Terminal")
         \/ Row(q, "POST", b4, "deactivate_terminal", None, None)
         \/ Row(q, "GET", b5, "financial_advice_confirmations", None, None)
         \/ Row(q, "GET", b6, "financial_advice_confirmation", None, None)
  BY PaymentsSenderRows
<1>5. "payments" \in ModuleNames /\ "Sender" \in Interfaces /\ "payments" \in Ambiguous
  BY DEF ModuleNames, Interfaces, Ambiguous
<1> HIDE DEF b1, b2, b3, b4, b5, b6
<1>6. /\ Together2(r, q)
      /\ \/ Spot(r, q, "GET", b1, "terminals", None, None)
         \/ Spot(r, q, "POST", b2, "activate_terminal", "partial", "Terminal")
         \/ Spot(r, q, "GET", b3, "terminal", None, None)
         \/ Spot(r, q, "PUT", b3, "put_terminal", "json", "Terminal")
         \/ Spot(r, q, "PATCH", b3, "patch_terminal", "patch", "Terminal")
         \/ Spot(r, q, "POST", b4, "deactivate_terminal", None, None)
         \/ Spot(r, q, "GET", b5, "financial_advice_confirmations", None, None)
         \/ Spot(r, q, "GET", b6, "financial_advice_confirmation", None, None)
  BY <1>1, <1>4, <1>5, RowFound
<1>7. c.module = "payments" /\ c.role = "Sender"
  BY <1>4, <1>5, <1>6 DEF Together2
<1>8. \/ Sits(r, "Sender", "GET", 1, "terminals", None, "Terminal", None)
         /\ Below(r)[1] = "terminals"
      \/ Sits(r, "Sender", "GET", 2, "terminal", None, "Terminal", None)
         /\ Below(r)[1] = "terminals"
      \/ Sits(r, "Sender", "PUT", 2, "put_terminal", "Terminal", "Terminal", None)
         /\ Below(r)[1] = "terminals"
      \/ Sits(r, "Sender", "PATCH", 2, "patch_terminal", "Terminal", "Terminal", None)
         /\ Below(r)[1] = "terminals"
      \/ Sits(r, "Sender", "POST", 2, "activate_terminal", "Terminal", "Terminal", None)
         /\ Below(r)[1] = "terminals"
      \/ Sits(r, "Sender", "POST", 3, "deactivate_terminal", "Empty", "Terminal", None)
         /\ Below(r)[1] = "terminals"
      \/ Sits(r, "Receiver", "POST", 1, "post_terminal", "Terminal", "Terminal", None)
         /\ Below(r)[1] = "terminals"
      \/ Sits(r, "Sender", "GET", 1, "financial_advice_confirmations", None,
         "FinancialAdviceConfirmation", None) /\ Below(r)[1] = "financial-advice-confirmations"
      \/ Sits(r, "Sender", "GET", 2, "financial_advice_confirmation", None,
         "FinancialAdviceConfirmation", None) /\ Below(r)[1] = "financial-advice-confirmations"
      \/ Sits(r, "Receiver", "POST", 1, "post_financial_advice_confirmation",
         "FinancialAdviceConfirmation", "FinancialAdviceConfirmation", None)
         /\ Below(r)[1] = "financial-advice-confirmations"
  BY <1>2, <1>7, PaymentsSits
<1> HIDE DEF c, len
<1>9. CASE Spot(r, q, "GET", b1, "terminals", None, None)
  <2>1. len = 1 /\ c.method = "GET" /\ q.handler = "terminals" /\ q.body = None /\ q.takes = None
            /\ Below(r)[1] = "terminals"
    BY <1>1, <1>2, <1>3, <1>9 DEF Spot, c, len
  <2>2. c.means = "terminals" /\ c.role = "Sender"
    BY <1>7, <1>8, <2>1 DEF Sits, c, len
  <2> QED
    BY <1>4, <1>7, <2>1, <2>2 DEF Meets, c, None
<1>10. CASE Spot(r, q, "POST", b2, "activate_terminal", "partial", "Terminal")
  <2>1. len = 2 /\ c.method = "POST" /\ q.handler = "activate_terminal" /\ q.body = "partial"
            /\ q.takes = "Terminal" /\ Below(r)[1] = "terminals"
    BY <1>1, <1>2, <1>3, <1>10 DEF Spot, c, len
  <2>2. c.means = "activate_terminal" /\ c.role = "Sender"
    BY <1>7, <1>8, <2>1 DEF Sits, c, len
  <2> QED
    BY <1>4, <1>7, <2>1, <2>2 DEF Meets, c, None
<1>11. CASE Spot(r, q, "GET", b3, "terminal", None, None)
  <2>1. len = 2 /\ c.method = "GET" /\ q.handler = "terminal" /\ q.body = None /\ q.takes = None
            /\ Below(r)[1] = "terminals"
    BY <1>1, <1>2, <1>3, <1>11 DEF Spot, c, len
  <2>2. c.means = "terminal" /\ c.role = "Sender"
    BY <1>7, <1>8, <2>1 DEF Sits, c, len
  <2> QED
    BY <1>4, <1>7, <2>1, <2>2 DEF Meets, c, None
<1>12. CASE Spot(r, q, "PUT", b3, "put_terminal", "json", "Terminal")
  <2>1. len = 2 /\ c.method = "PUT" /\ q.handler = "put_terminal" /\ q.body = "json"
            /\ q.takes = "Terminal" /\ Below(r)[1] = "terminals"
    BY <1>1, <1>2, <1>3, <1>12 DEF Spot, c, len
  <2>2. c.means = "put_terminal" /\ c.role = "Sender" /\ c.sends = "Terminal"
    BY <1>7, <1>8, <2>1 DEF Sits, c, len
  <2> QED
    BY <1>4, <1>7, <2>1, <2>2 DEF Meets, c, None
<1>13. CASE Spot(r, q, "PATCH", b3, "patch_terminal", "patch", "Terminal")
  <2>1. len = 2 /\ c.method = "PATCH" /\ q.handler = "patch_terminal" /\ q.body = "patch"
            /\ q.takes = "Terminal" /\ Below(r)[1] = "terminals"
    BY <1>1, <1>2, <1>3, <1>13 DEF Spot, c, len
  <2>2. c.means = "patch_terminal" /\ c.role = "Sender" /\ c.sends = "Terminal"
    BY <1>7, <1>8, <2>1 DEF Sits, c, len
  <2> QED
    BY <1>4, <1>7, <2>1, <2>2 DEF Meets, c, None
<1>14. CASE Spot(r, q, "POST", b4, "deactivate_terminal", None, None)
  <2>1. len = 3 /\ c.method = "POST" /\ q.handler = "deactivate_terminal" /\ q.body = None
            /\ q.takes = None /\ Below(r)[1] = "terminals"
    BY <1>1, <1>2, <1>3, <1>14 DEF Spot, c, len
  <2>2. c.means = "deactivate_terminal" /\ c.role = "Sender"
    BY <1>7, <1>8, <2>1 DEF Sits, c, len
  <2> QED
    BY <1>4, <1>7, <2>1, <2>2 DEF Meets, c, None
<1>15. CASE Spot(r, q, "GET", b5, "financial_advice_confirmations", None, None)
  <2>1. len = 1 /\ c.method = "GET" /\ q.handler = "financial_advice_confirmations"
            /\ q.body = None /\ q.takes = None /\ Below(r)[1] = "financial-advice-confirmations"
    BY <1>1, <1>2, <1>3, <1>15 DEF Spot, c, len
  <2>2. c.means = "financial_advice_confirmations" /\ c.role = "Sender"
    BY <1>7, <1>8, <2>1 DEF Sits, c, len
  <2> QED
    BY <1>4, <1>7, <2>1, <2>2 DEF Meets, c, None
<1>16. CASE Spot(r, q, "GET", b6, "financial_advice_confirmation", None, None)
  <2>1. len = 2 /\ c.method = "GET" /\ q.handler = "financial_advice_confirmation"
            /\ q.body = None /\ q.takes = None /\ Below(r)[1] = "financial-advice-confirmations"
    BY <1>1, <1>2, <1>3, <1>16 DEF Spot, c, len
  <2>2. c.means = "financial_advice_confirmation" /\ c.role = "Sender"
    BY <1>7, <1>8, <2>1 DEF Sits, c, len
  <2> QED
    BY <1>4, <1>7, <2>1, <2>2 DEF Meets, c, None
<1> QED
  BY <1>6, <1>9, <1>10, <1>11, <1>12, <1>13, <1>14, <1>15, <1>16

LEMMA PaymentsReceiverMeets ==
    ASSUME NEW r, NEW q \in R!PaymentsReceiver(server.prefix), Matched(r, q),
               <<q.module, q.role>> \in server.mounted
    PROVE  Meets(r.call, q)
<1> DEFINE c == r.call
           len == Len(Below(r))
           b1 == <<"terminals">>
           b2 == <<"terminals", R!Id>>
           b3 == <<"financial-advice-confirmations">>
           b4 == <<"financial-advice-confirmations", R!Id>>
<1>1. b1 \in Seq(Words) /\ Len(b1) = 1 /\ b2 \in Seq(Words) /\ Len(b2) = 2 /\ b3 \in Seq(Words)
          /\ Len(b3) = 1 /\ b4 \in Seq(Words) /\ Len(b4) = 2
  <2>1. R!Id \in Words /\ "financial-advice-confirmations" \in Words /\ "terminals" \in Words
    BY DEF Words
  <2> QED
    BY <2>1, LengthsOfRows
<1>2. r \in Requests /\ r.call.method = q.method /\ Below(r) \in Seq(Words)
  BY RequestIs, CallsAreProper, BelowIs DEF Matched
<1>3. /\ R!Fits(b1, Below(r)) => Below(r)[1] = "terminals"
      /\ R!Fits(b2, Below(r)) => Below(r)[1] = "terminals"
      /\ R!Fits(b3, Below(r)) => Below(r)[1] = "financial-advice-confirmations"
      /\ R!Fits(b4, Below(r)) => Below(r)[1] = "financial-advice-confirmations"
  <2>1. R!Id \in Words /\ "financial-advice-confirmations" \in Words
            /\ "financial-advice-confirmations" # R!Id /\ "terminals" \in Words
            /\ "terminals" # R!Id
    BY DEF Words, R!Id
  <2> QED
    BY Zenon, <1>2, <2>1, StaticSegments
<1>4. /\ q.module = "payments" /\ q.role = "Receiver"
      /\ \/ Row(q, "POST", b1, "post_terminal", "json", "Terminal")
         \/ Row(q, "GET", b2, "terminal", None, None)
         \/ Row(q, "POST", b3, "post_financial_advice_confirmation", "json",
            "FinancialAdviceConfirmation")
         \/ Row(q, "GET", b4, "financial_advice_confirmation", None, None)
  BY PaymentsReceiverRows
<1>5. "payments" \in ModuleNames /\ "Receiver" \in Interfaces /\ "payments" \in Ambiguous
  BY DEF ModuleNames, Interfaces, Ambiguous
<1> HIDE DEF b1, b2, b3, b4
<1>6. /\ Together2(r, q)
      /\ \/ Spot(r, q, "POST", b1, "post_terminal", "json", "Terminal")
         \/ Spot(r, q, "GET", b2, "terminal", None, None)
         \/ Spot(r, q, "POST", b3, "post_financial_advice_confirmation", "json",
            "FinancialAdviceConfirmation")
         \/ Spot(r, q, "GET", b4, "financial_advice_confirmation", None, None)
  BY <1>1, <1>4, <1>5, RowFound
<1>7. c.module = "payments" /\ c.role = "Receiver"
  BY <1>4, <1>5, <1>6 DEF Together2
<1>8. \/ Sits(r, "Sender", "GET", 1, "terminals", None, "Terminal", None)
         /\ Below(r)[1] = "terminals"
      \/ Sits(r, "Sender", "GET", 2, "terminal", None, "Terminal", None)
         /\ Below(r)[1] = "terminals"
      \/ Sits(r, "Sender", "PUT", 2, "put_terminal", "Terminal", "Terminal", None)
         /\ Below(r)[1] = "terminals"
      \/ Sits(r, "Sender", "PATCH", 2, "patch_terminal", "Terminal", "Terminal", None)
         /\ Below(r)[1] = "terminals"
      \/ Sits(r, "Sender", "POST", 2, "activate_terminal", "Terminal", "Terminal", None)
         /\ Below(r)[1] = "terminals"
      \/ Sits(r, "Sender", "POST", 3, "deactivate_terminal", "Empty", "Terminal", None)
         /\ Below(r)[1] = "terminals"
      \/ Sits(r, "Receiver", "POST", 1, "post_terminal", "Terminal", "Terminal", None)
         /\ Below(r)[1] = "terminals"
      \/ Sits(r, "Sender", "GET", 1, "financial_advice_confirmations", None,
         "FinancialAdviceConfirmation", None) /\ Below(r)[1] = "financial-advice-confirmations"
      \/ Sits(r, "Sender", "GET", 2, "financial_advice_confirmation", None,
         "FinancialAdviceConfirmation", None) /\ Below(r)[1] = "financial-advice-confirmations"
      \/ Sits(r, "Receiver", "POST", 1, "post_financial_advice_confirmation",
         "FinancialAdviceConfirmation", "FinancialAdviceConfirmation", None)
         /\ Below(r)[1] = "financial-advice-confirmations"
  BY <1>2, <1>7, PaymentsSits
<1> HIDE DEF c, len
<1>9. CASE Spot(r, q, "POST", b1, "post_terminal", "json", "Terminal")
  <2>1. len = 1 /\ c.method = "POST" /\ q.handler = "post_terminal" /\ q.body = "json"
            /\ q.takes = "Terminal" /\ Below(r)[1] = "terminals"
    BY <1>1, <1>2, <1>3, <1>9 DEF Spot, c, len
  <2>2. c.means = "post_terminal" /\ c.role = "Receiver" /\ c.sends = "Terminal"
    BY <1>7, <1>8, <2>1 DEF Sits, c, len
  <2> QED
    BY <1>4, <1>7, <2>1, <2>2 DEF Meets, c, None
<1>10. CASE Spot(r, q, "GET", b2, "terminal", None, None)
  <2>1. len = 2 /\ c.method = "GET" /\ q.handler = "terminal" /\ q.body = None /\ q.takes = None
            /\ Below(r)[1] = "terminals"
    BY <1>1, <1>2, <1>3, <1>10 DEF Spot, c, len
  <2>2. c.means = "terminal" /\ c.role = "Receiver"
    BY <1>7, <1>8, <2>1 DEF Sits, c, len
  <2> QED
    BY <1>4, <1>7, <2>1, <2>2 DEF Meets, c, None
<1>11. CASE Spot(r, q, "POST", b3, "post_financial_advice_confirmation", "json",
                "FinancialAdviceConfirmation")
  <2>1. len = 1 /\ c.method = "POST" /\ q.handler = "post_financial_advice_confirmation"
            /\ q.body = "json" /\ q.takes = "FinancialAdviceConfirmation"
            /\ Below(r)[1] = "financial-advice-confirmations"
    BY <1>1, <1>2, <1>3, <1>11 DEF Spot, c, len
  <2>2. c.means = "post_financial_advice_confirmation" /\ c.role = "Receiver"
            /\ c.sends = "FinancialAdviceConfirmation"
    BY <1>7, <1>8, <2>1 DEF Sits, c, len
  <2> QED
    BY <1>4, <1>7, <2>1, <2>2 DEF Meets, c, None
<1>12. CASE Spot(r, q, "GET", b4, "financial_advice_confirmation", None, None)
  <2>1. len = 2 /\ c.method = "GET" /\ q.handler = "financial_advice_confirmation"
            /\ q.body = None /\ q.takes = None /\ Below(r)[1] = "financial-advice-confirmations"
    BY <1>1, <1>2, <1>3, <1>12 DEF Spot, c, len
  <2>2. c.means = "financial_advice_confirmation" /\ c.role = "Receiver"
    BY <1>7, <1>8, <2>1 DEF Sits, c, len
  <2> QED
    BY <1>4, <1>7, <2>1, <2>2 DEF Meets, c, None
<1> QED
  BY <1>6, <1>9, <1>10, <1>11, <1>12

(* A path below a module's segment, or below the prefix, is not one of the  *)
(* version endpoints.                                                       *)
LEMMA NoVersions ==
    ASSUME NEW r \in Requests, NEW q \in R!Versions
    PROVE  ~R!Fits(q.path, Path(r))
<1> DEFINE k == r.call.module
           from == From(r)
           p == "receiver"
           v == "versions"
           y == Below(r)
<1>1. Proper(r.call) /\ r.party \in {"own", "other", "bad"}
  BY Zenon, RequestIs, CallsAreProper
<1>2. Path(r) = from \o y /\ y \in Seq(Words)
  BY <1>1, PathIs
<1>3. k \in Words /\ p \in Words /\ v \in Words /\ k # v /\ p # v /\ v # R!Id
  <2>1. k \in ModuleNames
    BY <1>1 DEF Proper
  <2>2. ModuleNames \subseteq Words /\ p \in Words /\ v \in Words /\ v \notin ModuleNames
            /\ v # R!Id
    BY DEF ModuleNames, Words, R!Id
  <2> QED
    BY <2>1, <2>2
<1>4. from = <<k>> \/ from = <<p>> \o <<k>>
  <2> DEFINE prefix == IF r.call.role = "Receiver" THEN server.prefix ELSE None
  <2>1. IF k = "commands" /\ ~r.kit THEN from = <<k>> ELSE from = R!ReceiverPath(prefix, <<k>>)
    BY DEF From, Advertised
  <2>2. k \in ModuleNames
    BY <1>1 DEF Proper
  <2> HIDE DEF from
  <2> QED
    BY <2>1, <2>2, BasesAre
<1>5. q.path = <<>> \/ q.path = <<v>>
  <2>1. ASSUME NEW S, NEW a \in S PROVE <<>> \o <<>> = <<>> /\ <<>> \o <<a>> = <<a>>
    OBVIOUS
  <2>2. <<>> \o <<>> = <<>> /\ <<>> \o <<v>> = <<v>>
    BY <1>3, <2>1
  <2> DEFINE none == <<>>
             one == <<v>>
             rows == {<<"GET", none, "details", None, None, None>>,
                 <<"GET", one, "list", None, None, None>>}
  <2>3. q \in R!On("versions", "Sender", <<>>, None, rows)
    BY DEF R!Versions, None, R!None
  <2> HIDE DEF none, one, v
  <2>4. PICK row \in rows : q.path = <<>> \o row[2]
    <3> HIDE DEF rows
    <3> QED
      BY <2>3 DEF R!On
  <2>5. row[2] = none \/ row[2] = one
    BY <2>4
  <2> QED
    BY <2>2, <2>4, <2>5 DEF none, one
<1> HIDE DEF k, from, p, v, y
<1>6. \E a \in Words : \E x \in Seq(Words) : a # v /\ from \o y = <<a>> \o x
  <2>1. CASE from = <<k>>
    BY <1>2, <1>3, <2>1
  <2>2. CASE from = <<p>> \o <<k>>
    <3>1. (<<p>> \o <<k>>) \o y = <<p>> \o (<<k>> \o y) /\ <<k>> \o y \in Seq(Words)
      BY <1>2, <1>3, MoveOver
    <3> QED
      BY Zenon, <1>3, <2>2, <3>1
  <2> QED
    BY Zenon, <1>4, <2>1, <2>2
<1>7. PICK a \in Words, x \in Seq(Words) : a # v /\ from \o y = <<a>> \o x
  BY Zenon, <1>6
<1>8. ASSUME NEW S, NEW b \in S, NEW z \in Seq(S), NEW w \in S
      PROVE  /\ Len(<<b>> \o z) = 1 + Len(z) /\ Len(z) \in Nat /\ Len(<<>>) = 0 /\ Len(<<w>>) = 1
             /\ (<<b>> \o z)[1] = b /\ <<w>>[1] = w /\ DOMAIN (<<b>> \o z) = 1..(1 + Len(z))
  OBVIOUS
<1>9. ASSUME R!Fits(q.path, <<a>> \o x) PROVE FALSE
  <2> DEFINE path == <<a>> \o x
             n == Len(x)
             one == <<v>>
  <2>1. /\ Len(path) = 1 + n /\ n \in Nat /\ Len(<<>>) = 0 /\ Len(one) = 1
        /\ path[1] = a /\ one[1] = v /\ DOMAIN path = 1..(1 + n)
    BY <1>3, <1>8
  <2> HIDE DEF path, n, one
  <2>2. q.path = <<>> \/ q.path = one
    BY <1>5 DEF one
  <2>3. R!Fits(q.path, path)
    BY <1>9 DEF path
  <2>4. Len(q.path) = Len(path)
    BY Zenon, <2>3 DEF R!Fits
  <2>5. q.path = one
    BY <2>1, <2>2, <2>4
  <2>6. 1 \in DOMAIN path
    BY <2>1
  <2>7. one[1] = path[1] \/ one[1] = R!Id
    BY Zenon, <2>3, <2>5, <2>6 DEF R!Fits
  <2> QED
    BY <1>3, <1>7, <2>1, <2>7
<1> QED
  BY <1>2, <1>7, <1>9

(* The paths of the clients, of the router and of the version details agree: *)
(* a request that is matched to a route is matched to the handler it is     *)
(* meant for, which takes what it sends.                                    *)
LEMMA MatchedMeets ==
    ASSUME NEW r, NEW q, Matched(r, q)
    PROVE  Meets(r.call, q)
<1>1. r \in Requests /\ q \in Routes /\ R!Fits(q.path, Path(r))
  BY DEF Matched
<1>2. q \notin R!Versions
  BY <1>1, NoVersions
<1>3. q \in R!Mountable(server.prefix) /\ <<q.module, q.role>> \in server.mounted
  BY <1>1, <1>2, MountedIs
<1>4. \/ q \in R!Credentials
      \/ q \in R!LocationsSender
      \/ q \in R!LocationsReceiver(server.prefix)
      \/ q \in R!TokensSender
      \/ q \in R!TokensReceiver(server.prefix)
      \/ q \in R!CdrsSender
      \/ q \in R!CdrsReceiver(server.prefix)
      \/ q \in R!SessionsSender
      \/ q \in R!SessionsReceiver(server.prefix)
      \/ q \in R!TariffsSender
      \/ q \in R!TariffsReceiver(server.prefix)
      \/ q \in R!CommandsReceiver
      \/ q \in R!CommandsSender
      \/ q \in R!HubClientInfoSender
      \/ q \in R!HubClientInfoReceiver(server.prefix)
      \/ q \in R!ChargingProfilesReceiver(server.prefix)
      \/ q \in R!ChargingProfilesSender
      \/ q \in R!PaymentsSender
      \/ q \in R!PaymentsReceiver(server.prefix)
  BY <1>3 DEF R!Mountable
<1>5. CASE q \in R!Credentials
  BY <1>3, <1>5, CredentialsMeets
<1>6. CASE q \in R!LocationsSender
  BY <1>3, <1>6, LocationsSenderMeets
<1>7. CASE q \in R!LocationsReceiver(server.prefix)
  BY <1>3, <1>7, LocationsReceiverMeets
<1>8. CASE q \in R!TokensSender
  BY <1>3, <1>8, TokensSenderMeets
<1>9. CASE q \in R!TokensReceiver(server.prefix)
  BY <1>3, <1>9, TokensReceiverMeets
<1>10. CASE q \in R!CdrsSender
  BY <1>3, <1>10, CdrsSenderMeets
<1>11. CASE q \in R!CdrsReceiver(server.prefix)
  BY <1>3, <1>11, CdrsReceiverMeets
<1>12. CASE q \in R!SessionsSender
  BY <1>3, <1>12, SessionsSenderMeets
<1>13. CASE q \in R!SessionsReceiver(server.prefix)
  BY <1>3, <1>13, SessionsReceiverMeets
<1>14. CASE q \in R!TariffsSender
  BY <1>3, <1>14, TariffsSenderMeets
<1>15. CASE q \in R!TariffsReceiver(server.prefix)
  BY <1>3, <1>15, TariffsReceiverMeets
<1>16. CASE q \in R!CommandsReceiver
  BY <1>3, <1>16, CommandsReceiverMeets
<1>17. CASE q \in R!CommandsSender
  BY <1>3, <1>17, CommandsSenderMeets
<1>18. CASE q \in R!HubClientInfoSender
  BY <1>3, <1>18, HubClientInfoSenderMeets
<1>19. CASE q \in R!HubClientInfoReceiver(server.prefix)
  BY <1>3, <1>19, HubClientInfoReceiverMeets
<1>20. CASE q \in R!ChargingProfilesReceiver(server.prefix)
  BY <1>3, <1>20, ChargingProfilesReceiverMeets
<1>21. CASE q \in R!ChargingProfilesSender
  BY <1>3, <1>21, ChargingProfilesSenderMeets
<1>22. CASE q \in R!PaymentsSender
  BY <1>3, <1>22, PaymentsSenderMeets
<1>23. CASE q \in R!PaymentsReceiver(server.prefix)
  BY <1>3, <1>23, PaymentsReceiverMeets
<1> QED
  BY <1>4, <1>5, <1>6, <1>7, <1>8, <1>9, <1>10, <1>11, <1>12, <1>13, <1>14, <1>15, <1>16, <1>17,
     <1>18, <1>19, <1>20, <1>21, <1>22, <1>23

-----------------------------------------------------------------------------
(* What the edge reads off a path.                                         *)

(* None of the segments a call adds is empty, but in the one that carries   *)
(* nothing and wants nothing.                                               *)
Whole(c) == \A i \in DOMAIN c.sub : c.sub[i] # ""

(* A typed client's segments are never empty.                               *)
LEMMA KitCallsAreWhole ==
    ASSUME NEW c \in C!AllCalls
    PROVE  Whole(c) /\ c.under \in {None, "terminals", "financial-advice-confirmations"}
<1>1. CASE c \in C!RegistrationCalls
  BY Zenon, <1>1, RegistrationLines DEF Line, Good, Whole
<1>2. CASE c \in C!LocationsSenderCalls
  BY Zenon, <1>2, LocationsSenderLines DEF Line, Good, Whole
<1>3. CASE c \in C!LocationsReceiverCalls
  BY Zenon, <1>3, LocationsReceiverLines DEF Line, Good, Whole
<1>4. CASE c \in C!TokensSenderCalls
  BY Zenon, <1>4, TokensSenderLines DEF Line, Good, Whole
<1>5. CASE c \in C!TokensReceiverCalls
  BY Zenon, <1>5, TokensReceiverLines DEF Line, Good, Whole
<1>6. CASE c \in C!CdrsCalls
  BY Zenon, <1>6, CdrsLines DEF Line, Good, Whole
<1>7. CASE c \in C!CommandsCalls
  BY Zenon, <1>7, CommandsLines DEF Line, Good, Whole
<1>8. CASE c \in C!SessionsSenderCalls
  BY Zenon, <1>8, SessionsSenderLines DEF Line, Good, Whole
<1>9. CASE c \in C!SessionsReceiverCalls
  BY Zenon, <1>9, SessionsReceiverLines DEF Line, Good, Whole
<1>10. CASE c \in C!TariffsCalls
  BY Zenon, <1>10, TariffsLines DEF Line, Good, Whole
<1>11. CASE c \in C!ChargingProfilesCalls
  BY Zenon, <1>11, ChargingProfilesLines DEF Line, Good, Whole
<1>12. CASE c \in C!HubClientInfoCalls
  BY Zenon, <1>12, HubClientInfoLines DEF Line, Good, Whole
<1>13. CASE c \in C!PaymentsCalls
  BY Zenon, <1>13, PaymentsLines DEF Line, Good, Whole
<1>14. CASE c \in C!CallbackCalls
  BY Zenon, <1>14, CallbackLines DEF Line, Good, Whole
<1> QED
  BY <1>1, <1>2, <1>3, <1>4, <1>5, <1>6, <1>7, <1>8, <1>9, <1>10, <1>11, <1>12, <1>13, <1>14
     DEF C!AllCalls

LEMMA CallsAreWhole ==
    ASSUME NEW c \in C!AllCalls \cup OtherCalls
    PROVE  c.under # "" /\ (Whole(c) \/ (c.sends = None /\ c.wants = None))
<1> DEFINE Fine == c.under # "" /\ (Whole(c) \/ (c.sends = None /\ c.wants = None))
<1>1. ASSUME c \in C!AllCalls PROVE Fine
  <2>1. Whole(c) /\ c.under \in {None, "terminals", "financial-advice-confirmations"}
    BY Zenon, <1>1, KitCallsAreWhole
  <2>2. c.under # ""
    BY <2>1 DEF None
  <2> QED
    BY Zenon, <2>1, <2>2
<1>2. ASSUME c \in OtherCalls PROVE Fine
  <2> DEFINE e == ""
  <2>1. \/ Line(c, "Receiver", None, 0, "POST", 1, "command", "StopSession", None,
           "CommandResponse", None)
        \/ c.under = None /\ c.sends = None /\ c.wants = None
    BY Zenon, <1>2, OtherLines
  <2>2. c.under = None /\ (Whole(c) \/ (c.sends = None /\ c.wants = None))
    BY Zenon, <2>1 DEF Line, Good, Whole
  <2> QED
    BY <2>2 DEF None
<1> QED
  BY Zenon, <1>1, <1>2

(* The edge tells an interface from its path: the Sender's in any case.      *)
Sighted(r) == EdgeBlind => r.call.role = "Sender"

(* What the edge makes of a request's path.                                 *)
LEMMA EdgeReads ==
    ASSUME server \in Servers, Bridging(server.version), NEW r \in Requests, Sighted(r),
               Whole(r.call)
    PROVE  LET e == EndpointOf(Path(r))
           IN  /\ e.module = r.call.module /\ e.below = Below(r)
               /\ e.interface = r.call.role \/ r.call.module = "commands"
<1> DEFINE k == r.call.module
           from == From(r)
           p == "receiver"
           e == ""
           y == Below(r)
           role == r.call.role
<1>1. Proper(r.call) /\ r.party \in {"own", "other", "bad"} /\ <<k, role>> \in server.mounted
  BY RequestIs, CallsAreProper
<1>2. Path(r) = from \o y /\ y \in Seq(Words)
  BY <1>1, PathIs
<1>3. \A i \in DOMAIN y : y[i] # e
  BY Zenon, <1>1, RequestIs, CallsAreWhole, BelowWhole DEF Whole
<1>4. k \in Words /\ p \in Words /\ k # p /\ k # e /\ p # e
  <2>1. k \in ModuleNames
    BY <1>1 DEF Proper
  <2>2. ModuleNames \subseteq Words /\ p \in Words /\ p \notin ModuleNames /\ e \notin ModuleNames
            /\ p # e
    BY DEF ModuleNames, Words
  <2> QED
    BY Zenon, <2>1, <2>2
<1>5. \/ /\ from = <<k>>
         /\ role = "Receiver" => k = "commands" \/ server.prefix = None
      \/ from = <<p>> \o <<k>> /\ role = "Receiver" /\ server.prefix = "bare"
  <2> DEFINE prefix == IF role = "Receiver" THEN server.prefix ELSE None
  <2>1. IF k = "commands" /\ ~r.kit THEN from = <<k>> ELSE from = R!ReceiverPath(prefix, <<k>>)
    BY DEF From, Advertised
  <2>2. k \in ModuleNames /\ role \in {"Sender", "Receiver"}
    BY <1>1 DEF Proper, Interfaces
  <2>3. server.prefix \in {None, "bare"} \/ role = "Sender"
    BY ServersAre DEF EdgeBlind, Sighted
  <2> HIDE DEF from, k
  <2> QED
    BY Zenon, <2>1, <2>2, <2>3, BasesAre
<1>6. ASSUME server.prefix = None PROVE ~(<<k, "Sender">> \in server.mounted
                 /\ <<k, "Receiver">> \in server.mounted)
  BY <1>6, ServersAre
<1>7. role \in {"Sender", "Receiver"}
  BY <1>1 DEF Proper, Interfaces
<1> HIDE DEF k, from, p, y, e, role
<1>8. CASE from = <<k>> /\ (role = "Receiver" => k = "commands" \/ server.prefix = None)
  <2> DEFINE path == <<k>> \o y
  <2>1. \A i \in DOMAIN path : path[i] # e
    BY <1>2, <1>3, <1>4, StillWhole
  <2>2. path # <<>> /\ Head(path) = k /\ Tail(path) = y
    BY <1>2, <1>4, OneMore
  <2> HIDE DEF path
  <2>3. Segments(path) = path
    BY Zenon, <2>1, SegmentsStay DEF e
  <2>4. Path(r) = path
    BY <1>2, <1>8 DEF path
  <2>5. LET f == EndpointOf(path)
        IN  /\ f.module = k /\ f.below = y
            /\ f.interface = (IF <<k, "Sender">> \in server.mounted THEN "Sender" ELSE "Receiver")
    BY <1>4, <2>2, <2>3 DEF EndpointOf, p
  <2>6. role = (IF <<k, "Sender">> \in server.mounted THEN "Sender" ELSE "Receiver")
            \/ k = "commands"
    BY <1>1, <1>6, <1>7, <1>8 DEF k, role
  <2> QED
    BY <2>4, <2>5, <2>6 DEF k, y, role
<1>9. CASE from = <<p>> \o <<k>> /\ role = "Receiver" /\ server.prefix = "bare"
  <2> DEFINE rest == <<k>> \o y
             path == <<p>> \o rest
  <2>1. rest \in Seq(Words) /\ rest # <<>> /\ Head(rest) = k /\ Tail(rest) = y
    BY <1>2, <1>4, OneMore
  <2>2. \A i \in DOMAIN rest : rest[i] # e
    BY <1>2, <1>3, <1>4, StillWhole
  <2>3. Path(r) = path
    BY <1>2, <1>4, <1>9, MoveOver
  <2> HIDE DEF rest
  <2>4. \A i \in DOMAIN path : path[i] # e
    BY <1>4, <2>1, <2>2, StillWhole
  <2>5. path # <<>> /\ Head(path) = p /\ Tail(path) = rest
    BY <1>4, <2>1, OneMore
  <2> HIDE DEF path
  <2>6. Segments(path) = path
    BY <2>4, SegmentsStay DEF e
  <2>7. LET f == EndpointOf(path)
        IN  f.module = k /\ f.below = y /\ f.interface = "Receiver"
    BY Zenon, <1>9, <2>1, <2>5, <2>6 DEF EndpointOf, p
  <2> QED
    BY <1>9, <2>3, <2>7 DEF k, y, role
<1> QED
  BY <1>5, <1>8, <1>9

-----------------------------------------------------------------------------
(* What handlers return is what clients want.                              *)

(* What a handler that does not fail returns is what a call that is meant   *)
(* for it wants.                                                            *)
Returns(c) ==
    /\ T!Returned(c.module, c.role, c.means).object = c.wants
    /\ T!Returned(c.module, c.role, c.means).http \subseteq {200, 201}

LEMMA RegistrationReturns ==
    ASSUME NEW r \in Requests, r.call.module = "credentials"
    PROVE  Returns(r.call)
<1> DEFINE c == r.call
<1>1. T!Implementation("credentials") = [Sender |-> T!CredentialsHandler]
  BY DEF T!Implementation
<1>2. \/ Sits(r, "Sender", "POST", 0, "post", "Credentials", "Credentials", "Credentials")
      \/ Sits(r, "Sender", "PUT", 0, "put", "Credentials", "Credentials", "Credentials")
      \/ Sits(r, "Sender", "DELETE", 0, "delete", None, None, None)
  BY RegistrationSits
<1>3. \A role, means : T!Returned("credentials", role,
          means) = [Sender |-> T!CredentialsHandler][role][means]
  BY <1>1 DEF T!Returned
<1>4. /\ T!Returned("credentials", c.role, c.means).object = c.wants
      /\ T!Returned("credentials", c.role, c.means).http \subseteq {200, 201}
  BY <1>2, <1>3 DEF Sits, T!CredentialsHandler, T!Gives, T!Done, T!Created, T!Stored, T!None, None
<1> QED
  BY <1>4 DEF Returns

LEMMA LocationsReturns ==
    ASSUME NEW r \in Requests, r.call.module = "locations"
    PROVE  Returns(r.call)
<1> DEFINE c == r.call
<1>1. T!Implementation("locations") = [Sender |-> T!LocationsSender,
          Receiver |-> T!LocationsReceiver]
  BY DEF T!Implementation
<1>2. \/ Sits(r, "Sender", "GET", 0, "list", None, "Location", "Location")
      \/ Sits(r, "Sender", "GET", 1, "location", None, "Location", "Location")
      \/ Sits(r, "Sender", "GET", 2, "evse", None, "Evse", "Evse")
      \/ Sits(r, "Sender", "GET", 3, "connector", None, "Connector", "Connector")
      \/ Sits(r, "Receiver", "PUT", 3, "put_location", "Location", None, None)
      \/ Sits(r, "Receiver", "PUT", 4, "put_evse", "Evse", None, None)
      \/ Sits(r, "Receiver", "PATCH", 3, "patch", "Location", None, None)
      \/ Sits(r, "Receiver", "PATCH", 4, "patch", "Evse", None, None)
      \/ Sits(r, "Receiver", "PATCH", 5, "patch", "Connector", None, None)
  BY LocationsSits
<1>3. \A role, means : T!Returned("locations", role, means) = [Sender |-> T!LocationsSender,
          Receiver |-> T!LocationsReceiver][role][means]
  BY <1>1 DEF T!Returned
<1>4. /\ T!Returned("locations", c.role, c.means).object = c.wants
      /\ T!Returned("locations", c.role, c.means).http \subseteq {200, 201}
  BY <1>2, <1>3 DEF Sits, T!LocationsSender, T!LocationsReceiver, T!Gives, T!Done, T!Created,
     T!Stored, T!None, None
<1> QED
  BY <1>4 DEF Returns

LEMMA TokensReturns ==
    ASSUME NEW r \in Requests, r.call.module = "tokens"
    PROVE  Returns(r.call)
<1> DEFINE c == r.call
<1>1. T!Implementation("tokens") = [Sender |-> T!TokensSender, Receiver |-> T!TokensReceiver]
  BY DEF T!Implementation
<1>2. \/ Sits(r, "Sender", "GET", 0, "list", None, "Token", "Token")
      \/ Sits(r, "Sender", "POST", 2, "authorize", "LocationReferences", "AuthorizationInfo",
         "AuthorizationInfo") /\ Below(r) = r.call.sub /\ r.call.sub = <<"UID1", "authorize">>
      \/ Sits(r, "Receiver", "GET", 3, "token", None, "Token", "Token")
      \/ Sits(r, "Receiver", "PUT", 3, "put_token", "Token", None, None)
      \/ Sits(r, "Receiver", "PATCH", 3, "patch_token", "Token", None, None)
  BY TokensSits
<1>3. \A role, means : T!Returned("tokens", role, means) = [Sender |-> T!TokensSender,
          Receiver |-> T!TokensReceiver][role][means]
  BY <1>1 DEF T!Returned
<1>4. /\ T!Returned("tokens", c.role, c.means).object = c.wants
      /\ T!Returned("tokens", c.role, c.means).http \subseteq {200, 201}
  BY <1>2, <1>3 DEF Sits, T!TokensSender, T!TokensReceiver, T!Gives, T!Done, T!Created, T!Stored,
     T!None, None
<1> QED
  BY <1>4 DEF Returns

LEMMA CdrsReturns ==
    ASSUME NEW r \in Requests, r.call.module = "cdrs"
    PROVE  Returns(r.call)
<1> DEFINE c == r.call
<1>1. T!Implementation("cdrs") = [Sender |-> T!CdrsSender, Receiver |-> T!CdrsReceiver]
  BY DEF T!Implementation
<1>2. \/ Sits(r, "Sender", "GET", 0, "list", None, "Cdr", "Cdr")
      \/ Sits(r, "Receiver", "POST", 0, "post_cdr", "Cdr", None, None)
  BY CdrsSits
<1>3. \A role, means : T!Returned("cdrs", role, means) = [Sender |-> T!CdrsSender,
          Receiver |-> T!CdrsReceiver][role][means]
  BY <1>1 DEF T!Returned
<1>4. /\ T!Returned("cdrs", c.role, c.means).object = c.wants
      /\ T!Returned("cdrs", c.role, c.means).http \subseteq {200, 201}
  BY <1>2, <1>3 DEF Sits, T!CdrsSender, T!CdrsReceiver, T!Gives, T!Done, T!Created, T!Stored,
     T!None, None
<1> QED
  BY <1>4 DEF Returns

LEMMA SessionsReturns ==
    ASSUME NEW r \in Requests, r.call.module = "sessions"
    PROVE  Returns(r.call)
<1> DEFINE c == r.call
<1>1. T!Implementation("sessions") = [Sender |-> T!SessionsSender, Receiver |-> T!SessionsReceiver]
  BY DEF T!Implementation
<1>2. \/ Sits(r, "Sender", "GET", 0, "list", None, "Session", "Session")
      \/ Sits(r, "Sender", "PUT", 2, "set_charging_preferences", "ChargingPreferences",
         "ChargingPreferencesResponse", None)
      \/ Sits(r, "Receiver", "GET", 3, "session", None, "Session", "Session")
      \/ Sits(r, "Receiver", "PUT", 3, "put_session", "Session", None, None)
      \/ Sits(r, "Receiver", "PATCH", 3, "patch_session", "Session", None, None)
  BY SessionsSits
<1>3. \A role, means : T!Returned("sessions", role, means) = [Sender |-> T!SessionsSender,
          Receiver |-> T!SessionsReceiver][role][means]
  BY <1>1 DEF T!Returned
<1>4. /\ T!Returned("sessions", c.role, c.means).object = c.wants
      /\ T!Returned("sessions", c.role, c.means).http \subseteq {200, 201}
  BY <1>2, <1>3 DEF Sits, T!SessionsSender, T!SessionsReceiver, T!Gives, T!Done, T!Created,
     T!Stored, T!None, None
<1> QED
  BY <1>4 DEF Returns

LEMMA TariffsReturns ==
    ASSUME NEW r \in Requests, r.call.module = "tariffs"
    PROVE  Returns(r.call)
<1> DEFINE c == r.call
<1>1. T!Implementation("tariffs") = [Sender |-> T!TariffsSender, Receiver |-> T!TariffsReceiver]
  BY DEF T!Implementation
<1>2. \/ Sits(r, "Sender", "GET", 0, "list", None, "Tariff", "Tariff")
      \/ Sits(r, "Receiver", "GET", 3, "tariff", None, "Tariff", "Tariff")
      \/ Sits(r, "Receiver", "PUT", 3, "put_tariff", "Tariff", None, None)
      \/ Sits(r, "Receiver", "DELETE", 3, "delete_tariff", None, None, None)
      \/ Sits(r, "Receiver", "DELETE", 4, "delete_tariff", None, None, None)
  BY TariffsSits
<1>3. \A role, means : T!Returned("tariffs", role, means) = [Sender |-> T!TariffsSender,
          Receiver |-> T!TariffsReceiver][role][means]
  BY <1>1 DEF T!Returned
<1>4. /\ T!Returned("tariffs", c.role, c.means).object = c.wants
      /\ T!Returned("tariffs", c.role, c.means).http \subseteq {200, 201}
  BY <1>2, <1>3 DEF Sits, T!TariffsSender, T!TariffsReceiver, T!Gives, T!Done, T!Created,
     T!Stored, T!None, None
<1> QED
  BY <1>4 DEF Returns

LEMMA CommandsReturns ==
    ASSUME NEW r \in Requests, r.call.module = "commands"
    PROVE  Returns(r.call)
<1> DEFINE c == r.call
<1>1. T!Implementation("commands") = [Sender |-> T!CommandsSender, Receiver |-> T!CommandsReceiver]
  BY DEF T!Implementation
<1>2. \/ Sits(r, "Receiver", "POST", 1, "command", "StartSession", "CommandResponse", None)
         /\ Below(r) = r.call.sub /\ r.call.sub = <<"START_SESSION">>
      \/ Sits(r, "Receiver", "POST", 1, "command", "ReserveNow", "CommandResponse", None)
         /\ Below(r) = r.call.sub /\ r.call.sub = <<"RESERVE_NOW">>
      \/ Sits(r, "Receiver", "POST", 1, "command", "StopSession", "CommandResponse", None)
         /\ Below(r) = r.call.sub /\ r.call.sub = <<"STOP_SESSION">>
      \/ Sits(r, "Receiver", "POST", 1, "command", "CancelReservation", "CommandResponse", None)
         /\ Below(r) = r.call.sub /\ r.call.sub = <<"CANCEL_RESERVATION">>
      \/ Sits(r, "Receiver", "POST", 1, "command", "UnlockConnector", "CommandResponse", None)
         /\ Below(r) = r.call.sub /\ r.call.sub = <<"UNLOCK_CONNECTOR">>
      \/ Sits(r, "Sender", "POST", 2, "command_result", "CommandResult", None, None)
         /\ Below(r) = r.call.sub /\ r.call.sub = <<"START_SESSION", "1234">>
      \/ Sits(r, "Sender", "POST", 2, "command_result", "CommandResult", None, None)
         /\ Below(r) = r.call.sub /\ r.call.sub = <<"RESERVE_NOW", "1234">>
      \/ Sits(r, "Sender", "POST", 2, "command_result", "CommandResult", None, None)
         /\ Below(r) = r.call.sub /\ r.call.sub = <<"STOP_SESSION", "1234">>
      \/ Sits(r, "Receiver", "POST", 1, "command", "StopSession", "CommandResponse", None)
         /\ Below(r) = r.call.sub /\ r.call.sub = <<"DANCE">>
  BY CommandsSits
<1>3. \A role, means : T!Returned("commands", role, means) = [Sender |-> T!CommandsSender,
          Receiver |-> T!CommandsReceiver][role][means]
  BY <1>1 DEF T!Returned
<1>4. /\ T!Returned("commands", c.role, c.means).object = c.wants
      /\ T!Returned("commands", c.role, c.means).http \subseteq {200, 201}
  BY <1>2, <1>3 DEF Sits, T!CommandsSender, T!CommandsReceiver, T!Gives, T!Done, T!Created,
     T!Stored, T!None, None
<1> QED
  BY <1>4 DEF Returns

LEMMA HubClientInfoReturns ==
    ASSUME NEW r \in Requests, r.call.module = "hubclientinfo"
    PROVE  Returns(r.call)
<1> DEFINE c == r.call
<1>1. T!Implementation("hubclientinfo") = [Sender |-> T!HubClientInfoSender,
          Receiver |-> T!HubClientInfoReceiver]
  BY DEF T!Implementation
<1>2. \/ Sits(r, "Sender", "GET", 0, "list", None, "ClientInfo", "ClientInfo")
      \/ Sits(r, "Receiver", "GET", 2, "client_info", None, "ClientInfo", "ClientInfo")
      \/ Sits(r, "Receiver", "PUT", 2, "put_client_info", "ClientInfo", None, None)
  BY HubClientInfoSits
<1>3. \A role, means : T!Returned("hubclientinfo", role,
          means) = [Sender |-> T!HubClientInfoSender,
          Receiver |-> T!HubClientInfoReceiver][role][means]
  BY <1>1 DEF T!Returned
<1>4. /\ T!Returned("hubclientinfo", c.role, c.means).object = c.wants
      /\ T!Returned("hubclientinfo", c.role, c.means).http \subseteq {200, 201}
  BY <1>2, <1>3 DEF Sits, T!HubClientInfoSender, T!HubClientInfoReceiver, T!Gives, T!Done,
     T!Created, T!Stored, T!None, None
<1> QED
  BY <1>4 DEF Returns

LEMMA ChargingProfilesReturns ==
    ASSUME NEW r \in Requests, r.call.module = "chargingprofiles"
    PROVE  Returns(r.call)
<1> DEFINE c == r.call
<1>1. T!Implementation("chargingprofiles") = [Sender |-> T!ChargingProfilesSender,
          Receiver |-> T!ChargingProfilesReceiver]
  BY DEF T!Implementation
<1>2. \/ Sits(r, "Receiver", "GET", 1, "active_charging_profile", None, "ChargingProfileResponse",
         None)
      \/ Sits(r, "Receiver", "PUT", 1, "set_charging_profile", "SetChargingProfile",
         "ChargingProfileResponse", None)
      \/ Sits(r, "Receiver", "DELETE", 1, "clear_charging_profile", None,
         "ChargingProfileResponse", None)
      \/ Sits(r, "Sender", "PUT", 1, "put_active_charging_profile", "ActiveChargingProfile", None,
         None)
      \/ Sits(r, "Sender", "POST", 3, "active_charging_profile_result",
         "ActiveChargingProfileResult", None, None) /\ Below(r) = r.call.sub
         /\ r.call.sub = <<"result", "active", "1234">>
      \/ Sits(r, "Sender", "POST", 3, "charging_profile_result", "ChargingProfileResult", None,
         None) /\ Below(r) = r.call.sub /\ r.call.sub = <<"result", "set", "1234">>
      \/ Sits(r, "Sender", "POST", 3, "clear_profile_result", "ClearProfileResult", None, None)
         /\ Below(r) = r.call.sub /\ r.call.sub = <<"result", "clear", "1234">>
  BY ChargingProfilesSits
<1>3. \A role, means : T!Returned("chargingprofiles", role,
          means) = [Sender |-> T!ChargingProfilesSender,
          Receiver |-> T!ChargingProfilesReceiver][role][means]
  BY <1>1 DEF T!Returned
<1>4. /\ T!Returned("chargingprofiles", c.role, c.means).object = c.wants
      /\ T!Returned("chargingprofiles", c.role, c.means).http \subseteq {200, 201}
  BY <1>2, <1>3 DEF Sits, T!ChargingProfilesSender, T!ChargingProfilesReceiver, T!Gives, T!Done,
     T!Created, T!Stored, T!None, None
<1> QED
  BY <1>4 DEF Returns

LEMMA PaymentsReturns ==
    ASSUME NEW r \in Requests, r.call.module = "payments"
    PROVE  Returns(r.call)
<1> DEFINE c == r.call
<1>1. T!Implementation("payments") = [Sender |-> T!PaymentsSender, Receiver |-> T!PaymentsReceiver]
  BY DEF T!Implementation
<1>2. \/ Sits(r, "Sender", "GET", 1, "terminals", None, "Terminal", None)
         /\ Below(r)[1] = "terminals"
      \/ Sits(r, "Sender", "GET", 2, "terminal", None, "Terminal", None)
         /\ Below(r)[1] = "terminals"
      \/ Sits(r, "Sender", "PUT", 2, "put_terminal", "Terminal", "Terminal", None)
         /\ Below(r)[1] = "terminals"
      \/ Sits(r, "Sender", "PATCH", 2, "patch_terminal", "Terminal", "Terminal", None)
         /\ Below(r)[1] = "terminals"
      \/ Sits(r, "Sender", "POST", 2, "activate_terminal", "Terminal", "Terminal", None)
         /\ Below(r)[1] = "terminals"
      \/ Sits(r, "Sender", "POST", 3, "deactivate_terminal", "Empty", "Terminal", None)
         /\ Below(r)[1] = "terminals"
      \/ Sits(r, "Receiver", "POST", 1, "post_terminal", "Terminal", "Terminal", None)
         /\ Below(r)[1] = "terminals"
      \/ Sits(r, "Sender", "GET", 1, "financial_advice_confirmations", None,
         "FinancialAdviceConfirmation", None) /\ Below(r)[1] = "financial-advice-confirmations"
      \/ Sits(r, "Sender", "GET", 2, "financial_advice_confirmation", None,
         "FinancialAdviceConfirmation", None) /\ Below(r)[1] = "financial-advice-confirmations"
      \/ Sits(r, "Receiver", "POST", 1, "post_financial_advice_confirmation",
         "FinancialAdviceConfirmation", "FinancialAdviceConfirmation", None)
         /\ Below(r)[1] = "financial-advice-confirmations"
  BY PaymentsSits
<1>3. \A role, means : T!Returned("payments", role, means) = [Sender |-> T!PaymentsSender,
          Receiver |-> T!PaymentsReceiver][role][means]
  BY <1>1 DEF T!Returned
<1>4. /\ T!Returned("payments", c.role, c.means).object = c.wants
      /\ T!Returned("payments", c.role, c.means).http \subseteq {200, 201}
  BY <1>2, <1>3 DEF Sits, T!PaymentsSender, T!PaymentsReceiver, T!Gives, T!Done, T!Created,
     T!Stored, T!None, None
<1> QED
  BY <1>4 DEF Returns

LEMMA CallsReturn ==
    ASSUME NEW r \in Requests
    PROVE  Returns(r.call)
<1>1. r.call.module \in ModuleNames
  BY Zenon, RequestIs, CallsAreProper DEF Proper
<1> QED
  BY <1>1, RegistrationReturns, LocationsReturns, TokensReturns, CdrsReturns, SessionsReturns,
     TariffsReturns, CommandsReturns, HubClientInfoReturns, ChargingProfilesReturns,
     PaymentsReturns DEF ModuleNames

-----------------------------------------------------------------------------
(* What the edge takes a body for is what the clients send and want.       *)

(* What the edge takes the two bodies of a call for, having read the path.  *)
Takes(r, i, payload) == ForEndpoint(r.call.module, i, Below(r), payload)

(* It agrees with the typed clients, but takes the result of a command for  *)
(* the command.                                                             *)
Agrees(c, sent, got) ==
    /\ c.sends \in Kinds => sent = c.sends
    /\ c.sends \notin Kinds \cup {None} =>
          sent = NoKind \/ (c.sends = "CommandResult" /\ sent \in {"StartSession", "ReserveNow"})
    /\ c.wants \in Kinds => got = c.wants
    /\ c.wants \notin Kinds \cup {None} => got = NoKind
    /\ c.back \in Kinds => c.wants = c.back

LEMMA RegistrationAgree ==
    ASSUME NEW r \in Requests, r.call.module = "credentials", Segments(Below(r)) = Below(r),
               NEW i, i = r.call.role
    PROVE  Agrees(r.call, Takes(r, i, "Request"), Takes(r, i, "Response"))
<1> DEFINE c == r.call
           y == Below(r)
           len == Len(y)
<1>1. \/ Sits(r, "Sender", "POST", 0, "post", "Credentials", "Credentials", "Credentials")
      \/ Sits(r, "Sender", "PUT", 0, "put", "Credentials", "Credentials", "Credentials")
      \/ Sits(r, "Sender", "DELETE", 0, "delete", None, None, None)
  BY RegistrationSits
<1>2. \A payload : Takes(r, i, payload) = (IF len = 0 THEN "Credentials" ELSE NoKind)
  BY DEF Takes, ForEndpoint
<1> QED
  BY <1>1, <1>2 DEF Agrees, Kinds, NoKind, None, Sits

LEMMA LocationsAgree ==
    ASSUME NEW r \in Requests, r.call.module = "locations", Segments(Below(r)) = Below(r), NEW i,
               i = r.call.role
    PROVE  Agrees(r.call, Takes(r, i, "Request"), Takes(r, i, "Response"))
<1> DEFINE c == r.call
           y == Below(r)
           len == Len(y)
<1>1. \/ Sits(r, "Sender", "GET", 0, "list", None, "Location", "Location")
      \/ Sits(r, "Sender", "GET", 1, "location", None, "Location", "Location")
      \/ Sits(r, "Sender", "GET", 2, "evse", None, "Evse", "Evse")
      \/ Sits(r, "Sender", "GET", 3, "connector", None, "Connector", "Connector")
      \/ Sits(r, "Receiver", "PUT", 3, "put_location", "Location", None, None)
      \/ Sits(r, "Receiver", "PUT", 4, "put_evse", "Evse", None, None)
      \/ Sits(r, "Receiver", "PATCH", 3, "patch", "Location", None, None)
      \/ Sits(r, "Receiver", "PATCH", 4, "patch", "Evse", None, None)
      \/ Sits(r, "Receiver", "PATCH", 5, "patch", "Connector", None, None)
  BY LocationsSits
<1>2. \A payload : Takes(r, i, payload) = LocationKind(i, len)
  BY DEF Takes, ForEndpoint
<1>3. /\ LocationKind("Sender", 0) = "Location" /\ LocationKind("Sender", 1) = "Location"
      /\ LocationKind("Sender", 2) = "Evse" /\ LocationKind("Sender", 3) = "Connector"
      /\ LocationKind("Receiver", 3) = "Location" /\ LocationKind("Receiver", 4) = "Evse"
      /\ LocationKind("Receiver", 5) = "Connector"
  BY DEF LocationKind, AtDepth
<1>4. Sits(r, "Sender", "GET", 0, "list", None, "Location", "Location")
          => Agrees(r.call, LocationKind(i, len), LocationKind(i, len))
  BY <1>3 DEF Agrees, Kinds, NoKind, None, Sits
<1>5. Sits(r, "Sender", "GET", 1, "location", None, "Location", "Location")
          => Agrees(r.call, LocationKind(i, len), LocationKind(i, len))
  BY <1>3 DEF Agrees, Kinds, NoKind, None, Sits
<1>6. Sits(r, "Sender", "GET", 2, "evse", None, "Evse", "Evse") => Agrees(r.call, LocationKind(i,
          len), LocationKind(i, len))
  BY <1>3 DEF Agrees, Kinds, NoKind, None, Sits
<1>7. Sits(r, "Sender", "GET", 3, "connector", None, "Connector", "Connector")
          => Agrees(r.call, LocationKind(i, len), LocationKind(i, len))
  BY <1>3 DEF Agrees, Kinds, NoKind, None, Sits
<1>8. Sits(r, "Receiver", "PUT", 3, "put_location", "Location", None, None)
          => Agrees(r.call, LocationKind(i, len), LocationKind(i, len))
  BY <1>3 DEF Agrees, Kinds, NoKind, None, Sits
<1>9. Sits(r, "Receiver", "PUT", 4, "put_evse", "Evse", None, None)
          => Agrees(r.call, LocationKind(i, len), LocationKind(i, len))
  BY <1>3 DEF Agrees, Kinds, NoKind, None, Sits
<1>10. Sits(r, "Receiver", "PATCH", 3, "patch", "Location", None, None)
           => Agrees(r.call, LocationKind(i, len), LocationKind(i, len))
  BY <1>3 DEF Agrees, Kinds, NoKind, None, Sits
<1>11. Sits(r, "Receiver", "PATCH", 4, "patch", "Evse", None, None)
           => Agrees(r.call, LocationKind(i, len), LocationKind(i, len))
  BY <1>3 DEF Agrees, Kinds, NoKind, None, Sits
<1>12. Sits(r, "Receiver", "PATCH", 5, "patch", "Connector", None, None)
           => Agrees(r.call, LocationKind(i, len), LocationKind(i, len))
  BY <1>3 DEF Agrees, Kinds, NoKind, None, Sits
<1> QED
  BY <1>1, <1>2, <1>4, <1>5, <1>6, <1>7, <1>8, <1>9, <1>10, <1>11, <1>12

LEMMA TokensAgree ==
    ASSUME NEW r \in Requests, r.call.module = "tokens", Segments(Below(r)) = Below(r), NEW i,
               i = r.call.role
    PROVE  Agrees(r.call, Takes(r, i, "Request"), Takes(r, i, "Response"))
<1> DEFINE c == r.call
           y == Below(r)
           len == Len(y)
<1>1. \/ Sits(r, "Sender", "GET", 0, "list", None, "Token", "Token")
      \/ Sits(r, "Sender", "POST", 2, "authorize", "LocationReferences", "AuthorizationInfo",
         "AuthorizationInfo") /\ Below(r) = r.call.sub /\ r.call.sub = <<"UID1", "authorize">>
      \/ Sits(r, "Receiver", "GET", 3, "token", None, "Token", "Token")
      \/ Sits(r, "Receiver", "PUT", 3, "put_token", "Token", None, None)
      \/ Sits(r, "Receiver", "PATCH", 3, "patch_token", "Token", None, None)
  BY TokensSits
<1>2. \A payload : Takes(r, i, payload) = TokenKind(i, y, payload)
  BY DEF Takes, ForEndpoint
<1>3. y \in Seq(Words)
  BY Zenon, RequestIs, CallsAreProper, BelowIs
<1>4. len = 0 => y = <<>>
  BY <1>3
<1>5. y = <<"UID1", "authorize">> => y # <<>> /\ y[len] = "authorize" /\ len = 2
  OBVIOUS
<1> HIDE DEF y, len
<1>6. i = "Receiver" \/ len = 0 => \A payload : TokenKind(i, y, payload) = IF ListedOrOwned(i,
          len) THEN "Token" ELSE NoKind
  BY <1>4 DEF TokenKind, len
<1>7. i = "Sender" /\ y = <<"UID1", "authorize">> =>
         TokenKind(i, y, "Request") = NoKind /\ TokenKind(i, y, "Response") = "AuthorizationInfo"
  BY <1>5 DEF TokenKind, len
<1> QED
  BY <1>1, <1>2, <1>6, <1>7 DEF Agrees, Kinds, NoKind, None, Sits, ListedOrOwned, len, y

LEMMA CdrsAgree ==
    ASSUME NEW r \in Requests, r.call.module = "cdrs", Segments(Below(r)) = Below(r), NEW i,
               i = r.call.role
    PROVE  Agrees(r.call, Takes(r, i, "Request"), Takes(r, i, "Response"))
<1> DEFINE c == r.call
           y == Below(r)
           len == Len(y)
<1>1. \/ Sits(r, "Sender", "GET", 0, "list", None, "Cdr", "Cdr")
      \/ Sits(r, "Receiver", "POST", 0, "post_cdr", "Cdr", None, None)
  BY CdrsSits
<1>2. \A payload : Takes(r, i, payload) = (IF len <= 1 THEN "Cdr" ELSE NoKind)
  BY DEF Takes, ForEndpoint
<1> QED
  BY <1>1, <1>2 DEF Agrees, Kinds, NoKind, None, Sits

LEMMA SessionsAgree ==
    ASSUME NEW r \in Requests, r.call.module = "sessions", Segments(Below(r)) = Below(r), NEW i,
               i = r.call.role
    PROVE  Agrees(r.call, Takes(r, i, "Request"), Takes(r, i, "Response"))
<1> DEFINE c == r.call
           y == Below(r)
           len == Len(y)
<1>1. \/ Sits(r, "Sender", "GET", 0, "list", None, "Session", "Session")
      \/ Sits(r, "Sender", "PUT", 2, "set_charging_preferences", "ChargingPreferences",
         "ChargingPreferencesResponse", None)
      \/ Sits(r, "Receiver", "GET", 3, "session", None, "Session", "Session")
      \/ Sits(r, "Receiver", "PUT", 3, "put_session", "Session", None, None)
      \/ Sits(r, "Receiver", "PATCH", 3, "patch_session", "Session", None, None)
  BY SessionsSits
<1>2. \A payload : Takes(r, i, payload) = (IF ListedOrOwned(i, len) THEN "Session" ELSE NoKind)
  BY DEF Takes, ForEndpoint
<1> QED
  BY <1>1, <1>2 DEF Agrees, Kinds, NoKind, None, Sits, ListedOrOwned

LEMMA TariffsAgree ==
    ASSUME NEW r \in Requests, r.call.module = "tariffs", Segments(Below(r)) = Below(r), NEW i,
               i = r.call.role
    PROVE  Agrees(r.call, Takes(r, i, "Request"), Takes(r, i, "Response"))
<1> DEFINE c == r.call
           y == Below(r)
           len == Len(y)
<1>1. \/ Sits(r, "Sender", "GET", 0, "list", None, "Tariff", "Tariff")
      \/ Sits(r, "Receiver", "GET", 3, "tariff", None, "Tariff", "Tariff")
      \/ Sits(r, "Receiver", "PUT", 3, "put_tariff", "Tariff", None, None)
      \/ Sits(r, "Receiver", "DELETE", 3, "delete_tariff", None, None, None)
      \/ Sits(r, "Receiver", "DELETE", 4, "delete_tariff", None, None, None)
  BY TariffsSits
<1>2. \A payload : Takes(r, i, payload) = (IF ListedOrOwned(i, len) THEN "Tariff" ELSE NoKind)
  BY DEF Takes, ForEndpoint
<1> QED
  BY <1>1, <1>2 DEF Agrees, Kinds, NoKind, None, Sits, ListedOrOwned

LEMMA CommandsAgree ==
    ASSUME NEW r \in Requests, r.call.module = "commands", Segments(Below(r)) = Below(r), NEW i
    PROVE  Agrees(r.call, Takes(r, i, "Request"), Takes(r, i, "Response"))
<1> DEFINE c == r.call
           y == Below(r)
           len == Len(y)
<1>1. \/ Sits(r, "Receiver", "POST", 1, "command", "StartSession", "CommandResponse", None)
         /\ Below(r) = r.call.sub /\ r.call.sub = <<"START_SESSION">>
      \/ Sits(r, "Receiver", "POST", 1, "command", "ReserveNow", "CommandResponse", None)
         /\ Below(r) = r.call.sub /\ r.call.sub = <<"RESERVE_NOW">>
      \/ Sits(r, "Receiver", "POST", 1, "command", "StopSession", "CommandResponse", None)
         /\ Below(r) = r.call.sub /\ r.call.sub = <<"STOP_SESSION">>
      \/ Sits(r, "Receiver", "POST", 1, "command", "CancelReservation", "CommandResponse", None)
         /\ Below(r) = r.call.sub /\ r.call.sub = <<"CANCEL_RESERVATION">>
      \/ Sits(r, "Receiver", "POST", 1, "command", "UnlockConnector", "CommandResponse", None)
         /\ Below(r) = r.call.sub /\ r.call.sub = <<"UNLOCK_CONNECTOR">>
      \/ Sits(r, "Sender", "POST", 2, "command_result", "CommandResult", None, None)
         /\ Below(r) = r.call.sub /\ r.call.sub = <<"START_SESSION", "1234">>
      \/ Sits(r, "Sender", "POST", 2, "command_result", "CommandResult", None, None)
         /\ Below(r) = r.call.sub /\ r.call.sub = <<"RESERVE_NOW", "1234">>
      \/ Sits(r, "Sender", "POST", 2, "command_result", "CommandResult", None, None)
         /\ Below(r) = r.call.sub /\ r.call.sub = <<"STOP_SESSION", "1234">>
      \/ Sits(r, "Receiver", "POST", 1, "command", "StopSession", "CommandResponse", None)
         /\ Below(r) = r.call.sub /\ r.call.sub = <<"DANCE">>
  BY CommandsSits
<1>2. \A payload : Takes(r, i, payload) = CommandKind(y, payload)
  BY DEF Takes, ForEndpoint
<1>3. \A a, b : /\ <<a>> # <<>> /\ Head(<<a>>) = a /\ <<a, b>> # <<>> /\ Head(<<a, b>>) = a
  OBVIOUS
<1> HIDE DEF y
<1>4. CommandKind(y, "Response") = NoKind
  BY DEF CommandKind
<1>5. \A a, b : y = <<a>> \/ y = <<a, b>> =>
         CommandKind(y, "Request") = CASE a = "START_SESSION" -> "StartSession"
                                       [] a = "RESERVE_NOW" -> "ReserveNow"
                                       [] OTHER -> NoKind
  BY <1>3 DEF CommandKind
<1> QED
  BY <1>1, <1>2, <1>4, <1>5 DEF Agrees, Kinds, NoKind, None, Sits, y

LEMMA HubClientInfoAgree ==
    ASSUME NEW r \in Requests, r.call.module = "hubclientinfo", Segments(Below(r)) = Below(r),
               NEW i, i = r.call.role
    PROVE  Agrees(r.call, Takes(r, i, "Request"), Takes(r, i, "Response"))
<1> DEFINE c == r.call
           y == Below(r)
           len == Len(y)
<1>1. \/ Sits(r, "Sender", "GET", 0, "list", None, "ClientInfo", "ClientInfo")
      \/ Sits(r, "Receiver", "GET", 2, "client_info", None, "ClientInfo", "ClientInfo")
      \/ Sits(r, "Receiver", "PUT", 2, "put_client_info", "ClientInfo", None, None)
  BY HubClientInfoSits
<1>2. \A payload : Takes(r, i, payload) = (IF len = AtDepth(i, 0) THEN "ClientInfo" ELSE NoKind)
  BY DEF Takes, ForEndpoint
<1> QED
  BY <1>1, <1>2 DEF Agrees, Kinds, NoKind, None, Sits, AtDepth

LEMMA ChargingProfilesAgree ==
    ASSUME NEW r \in Requests, r.call.module = "chargingprofiles", Segments(Below(r)) = Below(r),
               NEW i, i = r.call.role
    PROVE  Agrees(r.call, Takes(r, i, "Request"), Takes(r, i, "Response"))
<1> DEFINE c == r.call
           y == Below(r)
           len == Len(y)
<1>1. \/ Sits(r, "Receiver", "GET", 1, "active_charging_profile", None, "ChargingProfileResponse",
         None)
      \/ Sits(r, "Receiver", "PUT", 1, "set_charging_profile", "SetChargingProfile",
         "ChargingProfileResponse", None)
      \/ Sits(r, "Receiver", "DELETE", 1, "clear_charging_profile", None,
         "ChargingProfileResponse", None)
      \/ Sits(r, "Sender", "PUT", 1, "put_active_charging_profile", "ActiveChargingProfile", None,
         None)
      \/ Sits(r, "Sender", "POST", 3, "active_charging_profile_result",
         "ActiveChargingProfileResult", None, None) /\ Below(r) = r.call.sub
         /\ r.call.sub = <<"result", "active", "1234">>
      \/ Sits(r, "Sender", "POST", 3, "charging_profile_result", "ChargingProfileResult", None,
         None) /\ Below(r) = r.call.sub /\ r.call.sub = <<"result", "set", "1234">>
      \/ Sits(r, "Sender", "POST", 3, "clear_profile_result", "ClearProfileResult", None, None)
         /\ Below(r) = r.call.sub /\ r.call.sub = <<"result", "clear", "1234">>
  BY ChargingProfilesSits
<1>2. \A payload : Takes(r, i, payload) = NoKind
  BY DEF Takes, ForEndpoint
<1> QED
  BY <1>1, <1>2 DEF Agrees, Kinds, NoKind, None, Sits

LEMMA PaymentsAgree ==
    ASSUME NEW r \in Requests, r.call.module = "payments", Segments(Below(r)) = Below(r), NEW i,
               i = r.call.role
    PROVE  Agrees(r.call, Takes(r, i, "Request"), Takes(r, i, "Response"))
<1> DEFINE c == r.call
           y == Below(r)
           len == Len(y)
<1>1. \/ Sits(r, "Sender", "GET", 1, "terminals", None, "Terminal", None)
         /\ Below(r)[1] = "terminals"
      \/ Sits(r, "Sender", "GET", 2, "terminal", None, "Terminal", None)
         /\ Below(r)[1] = "terminals"
      \/ Sits(r, "Sender", "PUT", 2, "put_terminal", "Terminal", "Terminal", None)
         /\ Below(r)[1] = "terminals"
      \/ Sits(r, "Sender", "PATCH", 2, "patch_terminal", "Terminal", "Terminal", None)
         /\ Below(r)[1] = "terminals"
      \/ Sits(r, "Sender", "POST", 2, "activate_terminal", "Terminal", "Terminal", None)
         /\ Below(r)[1] = "terminals"
      \/ Sits(r, "Sender", "POST", 3, "deactivate_terminal", "Empty", "Terminal", None)
         /\ Below(r)[1] = "terminals"
      \/ Sits(r, "Receiver", "POST", 1, "post_terminal", "Terminal", "Terminal", None)
         /\ Below(r)[1] = "terminals"
      \/ Sits(r, "Sender", "GET", 1, "financial_advice_confirmations", None,
         "FinancialAdviceConfirmation", None) /\ Below(r)[1] = "financial-advice-confirmations"
      \/ Sits(r, "Sender", "GET", 2, "financial_advice_confirmation", None,
         "FinancialAdviceConfirmation", None) /\ Below(r)[1] = "financial-advice-confirmations"
      \/ Sits(r, "Receiver", "POST", 1, "post_financial_advice_confirmation",
         "FinancialAdviceConfirmation", "FinancialAdviceConfirmation", None)
         /\ Below(r)[1] = "financial-advice-confirmations"
  BY PaymentsSits
<1>2. \A payload : Takes(r, i, payload) = NoKind
  BY DEF Takes, ForEndpoint
<1> QED
  BY <1>1, <1>2 DEF Agrees, Kinds, NoKind, None, Sits

LEMMA KindsAgree ==
    ASSUME server \in Servers, Bridging(server.version), NEW r \in Requests, Sighted(r)
    PROVE  \/ Agrees(r.call, KindAt(Path(r), "Request"), KindAt(Path(r), "Response"))
           \/ r.call.sends = None /\ r.call.wants = None
<1> DEFINE e == EndpointOf(Path(r))
<1>1. r.call \in C!AllCalls \cup OtherCalls /\ r.call.module \in ModuleNames
      /\ Proper(r.call) /\ r.party \in {"own", "other", "bad"}
  BY Zenon, RequestIs, CallsAreProper DEF Proper
<1>2. r.call.under # "" /\ (Whole(r.call) \/ (r.call.sends = None /\ r.call.wants = None))
  BY Zenon, <1>1, CallsAreWhole
<1>3. ASSUME Whole(r.call)
      PROVE  Agrees(r.call, KindAt(Path(r), "Request"), KindAt(Path(r), "Response"))
  <2>1. e.module = r.call.module /\ e.below = Below(r) /\ (e.interface = r.call.role
            \/ r.call.module = "commands")
    BY <1>3, EdgeReads
  <2>2. Segments(Below(r)) = Below(r)
    BY Zenon, <1>1, <1>2, <1>3, BelowWhole, SegmentsStay DEF Whole
  <2>3. \A payload : KindAt(Path(r), payload) = ForEndpoint(e.module, e.interface, e.below, payload)
    BY DEF KindAt
  <2> HIDE DEF e
  <2>4. KindAt(Path(r), "Request") = Takes(r, e.interface, "Request")
        /\ KindAt(Path(r), "Response") = Takes(r, e.interface, "Response")
    BY <2>1, <2>3 DEF Takes
  <2>5. Agrees(r.call, Takes(r, e.interface, "Request"), Takes(r, e.interface, "Response"))
    BY <1>1, <2>1, <2>2, RegistrationAgree, LocationsAgree, TokensAgree, CdrsAgree, SessionsAgree,
       TariffsAgree, CommandsAgree, HubClientInfoAgree, ChargingProfilesAgree, PaymentsAgree
       DEF ModuleNames
  <2> QED
    BY <2>4, <2>5
<1> QED
  BY Zenon, <1>2, <1>3

(* A patch is what a PATCH is decoded as, and nothing else is.              *)
LEMMA PatchesArePatches ==
    ASSUME NEW q \in Routes
    PROVE  /\ q.body = "patch" => q.method = "PATCH"
           /\ q.body \in {"json", "command"} => q.method # "PATCH"
<1> DEFINE Right == /\ q.body = "patch" => q.method = "PATCH"
                    /\ q.body \in {"json", "command"} => q.method # "PATCH"
<1>1. ASSUME q \in R!Versions PROVE Right
  BY <1>1 DEF R!Versions, R!On, None, R!None
<1>2. ASSUME q \in R!Credentials PROVE Right
  BY <1>2, CredentialsRows DEF Row, None
<1>3. ASSUME q \in R!LocationsSender PROVE Right
  BY <1>3, LocationsSenderRows DEF Row, None
<1>4. ASSUME q \in R!LocationsReceiver(server.prefix) PROVE Right
  BY <1>4, LocationsReceiverRows DEF Row, None
<1>5. ASSUME q \in R!TokensSender PROVE Right
  BY <1>5, TokensSenderRows DEF Row, None
<1>6. ASSUME q \in R!TokensReceiver(server.prefix) PROVE Right
  BY <1>6, TokensReceiverRows DEF Row, None
<1>7. ASSUME q \in R!CdrsSender PROVE Right
  BY <1>7, CdrsSenderRows DEF Row, None
<1>8. ASSUME q \in R!CdrsReceiver(server.prefix) PROVE Right
  BY <1>8, CdrsReceiverRows DEF Row, None
<1>9. ASSUME q \in R!SessionsSender PROVE Right
  BY <1>9, SessionsSenderRows DEF Row, None
<1>10. ASSUME q \in R!SessionsReceiver(server.prefix) PROVE Right
  BY <1>10, SessionsReceiverRows DEF Row, None
<1>11. ASSUME q \in R!TariffsSender PROVE Right
  BY <1>11, TariffsSenderRows DEF Row, None
<1>12. ASSUME q \in R!TariffsReceiver(server.prefix) PROVE Right
  BY Zenon, <1>12, TariffsReceiverRows DEF Row, None
<1>13. ASSUME q \in R!CommandsReceiver PROVE Right
  BY <1>13, CommandsReceiverRows DEF Row, None
<1>14. ASSUME q \in R!CommandsSender PROVE Right
  BY <1>14, CommandsSenderRows DEF Row, None
<1>15. ASSUME q \in R!HubClientInfoSender PROVE Right
  BY <1>15, HubClientInfoSenderRows DEF Row, None
<1>16. ASSUME q \in R!HubClientInfoReceiver(server.prefix) PROVE Right
  BY <1>16, HubClientInfoReceiverRows DEF Row, None
<1>17. ASSUME q \in R!ChargingProfilesReceiver(server.prefix) PROVE Right
  BY <1>17, ChargingProfilesReceiverRows DEF Row, None
<1>18. ASSUME q \in R!ChargingProfilesSender PROVE Right
  BY <1>18, ChargingProfilesSenderRows DEF Row, None
<1>19. ASSUME q \in R!PaymentsSender PROVE Right
  BY <1>19, PaymentsSenderRows DEF Row, None
<1>20. ASSUME q \in R!PaymentsReceiver(server.prefix) PROVE Right
  BY <1>20, PaymentsReceiverRows DEF Row, None
<1> QED
  BY ZenonT(30), MountedIs, <1>1, <1>2, <1>3, <1>4, <1>5, <1>6, <1>7, <1>8, <1>9, <1>10, <1>11, <1>12, <1>13,
     <1>14, <1>15, <1>16, <1>17, <1>18, <1>19, <1>20 DEF R!Mountable

-----------------------------------------------------------------------------
(* A request is served by the route it was matched to.                     *)

(* Between the match and the answer.                                        *)
Serving == {"auth", "query", "body", "scope", "late", "handler"}

(* A request is one of the calls there are, and is served by the route it   *)
(* was matched to until its answer has been read.                           *)
CourseInv ==
    /\ server \in Servers
    /\ at # "idle" => request \in Requests
    /\ at \in Serving \/ handled # Pending => Matched(request, route)
    /\ handled # Pending => at \in {"reply", "client", "done"}

LEMMA CourseInit == Init => CourseInv
  BY DEF Init, CourseInv, Serving

LEMMA CourseSend ==
    ASSUME CourseInv, at = "idle", NEW r \in Requests, Send(r)
    PROVE  CourseInv'
<1>1. at' \in {"done", "edge", "route"} /\ handled' = handled /\ handled = Pending
      /\ UNCHANGED server /\ request' = r
  BY DEF Send, Proceed, outcome, CourseInv
<1>2. Requests' = Requests
  BY <1>1 DEF Requests
<1> QED
  BY <1>1, <1>2 DEF CourseInv, Serving

(* While server, request and route stay, so does whether they match.        *)
LEMMA StillMatched ==
    ASSUME UNCHANGED <<server, request, route>>
    PROVE  Requests' = Requests /\ Servers' = Servers
               /\ Matched(request, route)' = Matched(request, route)
<1>1. Requests' = Requests /\ Servers' = Servers /\ Routes' = Routes
          /\ Path(request)' = Path(request)
  BY DEF Requests, Servers, Builds, Routes, Path, From, Advertised
<1> QED
  BY <1>1 DEF Matched

LEMMA CourseMatch ==
    ASSUME CourseInv, Match
    PROVE  CourseInv'
<1> DEFINE here == R!AtPath(Routes, Path(request))
           able == {r \in here : r.method = request.call.method}
<1>1. at = "route" /\ UNCHANGED <<server, request, handled>> /\ handled = Pending
  BY DEF Match, MatchTo, Sends, Proceed, outcome, CourseInv
<1>2. request \in Requests /\ server \in Servers
  BY <1>1 DEF CourseInv
<1>3. at' = "reply" \/ (at' = "auth" /\ able # {} /\ route' = (CHOOSE r \in able : TRUE))
  BY DEF Match, MatchTo, Sends, Proceed
<1>4. ASSUME able # {}, route' = (CHOOSE r \in able : TRUE) PROVE Matched(request, route')
  <2>1. route' \in able
    BY <1>4
  <2>2. route' \in Routes /\ R!Fits(route'.path, Path(request))
            /\ route'.method = request.call.method
    BY <2>1 DEF R!AtPath
  <2> QED
    BY <1>2, <2>2 DEF Matched
<1>5. Requests' = Requests /\ Servers' = Servers /\ (Matched(request, route')
          => Matched(request, route)')
  <2>1. Requests' = Requests /\ Servers' = Servers /\ Routes' = Routes
            /\ Path(request)' = Path(request)
    BY <1>1 DEF Requests, Servers, Builds, Routes, Path, From, Advertised
  <2> QED
    BY <1>1, <2>1 DEF Matched
<1> QED
  BY <1>1, <1>2, <1>3, <1>4, <1>5 DEF CourseInv, Serving

LEMMA CourseStep == CourseInv /\ [Next]_vars => CourseInv'
<1> SUFFICES ASSUME CourseInv, [Next]_vars PROVE CourseInv'
  OBVIOUS
<1>1. CASE at = "idle" /\ \E r \in Requests : Send(r)
  BY <1>1, CourseSend
<1>2. CASE Match
  BY <1>2, CourseMatch
<1>3. CASE EdgeIn
  <2>1. at = "edge" /\ at' \in {"route", "client"} /\ UNCHANGED <<server, request, route, handled>>
    BY <1>3 DEF EdgeIn, Sends, Proceed, outcome
  <2> QED
    BY <2>1, StillMatched DEF CourseInv, Serving
<1>4. CASE Authenticate \/ ReadQuery \/ ReadBody \/ EnterContext \/ EnterHandler
  <2>1. at \in Serving /\ at' \in Serving \cup {"reply"}
            /\ UNCHANGED <<server, request, route, handled>>
    BY <1>4 DEF Authenticate, ReadQuery, ReadBody, EnterContext, EnterHandler, Refuse, Sends,
       Proceed, outcome, Serving
  <2> QED
    BY <2>1, StillMatched DEF CourseInv, Serving
<1>5. CASE Handle
  <2>1. at = "handler" /\ at' = "reply" /\ UNCHANGED <<server, request, route>>
    BY <1>5 DEF Handle
  <2> QED
    BY <2>1, StillMatched DEF CourseInv, Serving
<1>6. CASE EdgeOut \/ Receive
  <2>1. at \in {"reply", "client"} /\ at' \in {"client", "done"}
            /\ UNCHANGED <<server, request, route, handled>>
    BY <1>6 DEF EdgeOut, Receive, Sends, Proceed, outcome
  <2> QED
    BY <2>1, StillMatched DEF CourseInv, Serving
<1>7. CASE Close
  <2>1. at' = "idle" /\ UNCHANGED server /\ handled' = Pending
    BY <1>7 DEF Close
  <2>2. Servers' = Servers
    BY DEF Servers, Builds
  <2> QED
    BY <2>1, <2>2 DEF CourseInv, Serving
<1>8. CASE \/ \E t \in Tokens : Revoke(t)
           \/ UNCHANGED vars
  <2>1. UNCHANGED <<server, at, request, route, handled>>
    BY <1>8 DEF Revoke, vars, outcome
  <2> QED
    BY <2>1, StillMatched DEF CourseInv
<1> QED
  BY <1>1, <1>2, <1>3, <1>4, <1>5, <1>6, <1>7, <1>8 DEF Next

-----------------------------------------------------------------------------
(* What the edge lets through to the routes.                                *)

(* The object a request sends, in the canonical model; of a patch, only     *)
(* fields that both versions have.                                          *)
Fitting ==
    Sighted(request) =>
        /\ ~Flawed("wrong_object") /\ request.call.method # "PATCH" =>
              body.is = request.call.sends /\ (body.is \in Kinds => body.version = Canonical)
        /\ request.call.method = "PATCH" /\ Bridging(server.version) =>
              FieldsOf(request, request.call.sends) \cap DivergentFields(request.call.sends) = {}

BodyInv ==
    /\ at = "edge" => Bridging(server.version) /\ body \in Written(request)
    /\ at \in {"route"} \cup Serving => Fitting
    /\ at = "handler" /\ route.body = "command" /\ ~Flawed("wrong_object") =>
          body.is = CommandObject(Seqs!Last(request.call.sub))
          /\ (body.is \in Kinds => body.version = Canonical)

LEMMA BodyInit == Init => BodyInv
  BY DEF Init, BodyInv, Serving

(* Only what has a kind differs between the versions.                       *)
LEMMA OnlyKindsDiverge ==
    ASSUME NEW kind, kind \notin Kinds
    PROVE  DivergentFields(kind) = {}
  BY DEF Kinds, DivergentFields

(* Between peers of the same version a request arrives as it was written.   *)
LEMMA BodySend ==
    ASSUME BodyInv, at = "idle", NEW r \in Requests, Send(r)
    PROVE  BodyInv'
<1>1. request' = r /\ UNCHANGED <<server, route>> /\ at' \in {"done", "edge", "route"}
      /\ (at' # "done" => body' \in Written(r)) /\ (at' = "edge" => Bridging(server.version))
      /\ (at' = "route" => ~Bridging(server.version))
  BY DEF Send, Proceed
<1>2. Written(request)' = Written(r)
  BY <1>1 DEF Written
<1>3. ASSUME at' = "route" PROVE Fitting'
  <2>1. server.version = Canonical /\ body' \in Written(r)
    BY <1>1, <1>3 DEF Bridging
  <2>2. ASSUME "wrong_object" \notin r.flaws PROVE body' = Doc(r.call.sends, Canonical)
    BY <2>1, <2>2 DEF Written
  <2> QED
    BY <1>1, <2>1, <2>2 DEF Fitting, Flawed, Doc, Bridging
<1> QED
  BY <1>1, <1>2, <1>3 DEF BodyInv, Serving

(* The result of a command is never decoded as the command, which requires   *)
(* what no result has.                                                      *)
LEMMA ResultsAreNoCommands ==
    ASSUME NEW v, NEW w, NEW kind \in {"StartSession", "ReserveNow"}
    PROVE  ~MayDecode(Doc("CommandResult", w), v, kind)
<1>1. "response_url" \in O!ShapeOf(v, kind).required
  <2>1. kind \notin DOMAIN O!Shared
    BY DEF O!Shared
  <2>2. /\ O!Versioned["StartSession"] = <<O!OldStartSession, O!NewStartSession>>
        /\ O!Versioned["ReserveNow"] = <<O!OldReserveNow, O!NewReserveNow>>
    BY DEF O!Versioned
  <2>3. O!ShapeOf(v, kind) \in {O!OldStartSession, O!NewStartSession, O!OldReserveNow,
            O!NewReserveNow}
    BY <2>1, <2>2 DEF O!ShapeOf
  <2> QED
    BY <2>3 DEF O!OldStartSession, O!NewStartSession, O!OldReserveNow, O!NewReserveNow, O!Shape
<1>2. "response_url" \notin O!Known(w, "CommandResult")
  <2>1. "CommandResult" \in DOMAIN O!Shared /\ O!Shared["CommandResult"] = O!CommandResult
    BY DEF O!Shared
  <2>2. O!ShapeOf(w, "CommandResult") = O!CommandResult
    BY <2>1 DEF O!ShapeOf
  <2> QED
    BY <2>2 DEF O!Known, O!CommandResult, O!Shape
<1> QED
  BY <1>1, <1>2 DEF MayDecode, Doc

(* What the edge makes of a body, as long as it can read the path.          *)
LEMMA EdgeKinds ==
    ASSUME CourseInv, Bridging(server.version), Sighted(request), at # "idle", NEW kind,
           kind = KindAt(Path(request), "Request")
    PROVE  LET sends == request.call.sends
           IN  /\ sends \in Kinds => kind = sends
               /\ sends \notin Kinds \cup {None, "CommandResult"} => kind = NoKind
               /\ sends = "CommandResult" => kind \in {NoKind, "StartSession", "ReserveNow"}
<1>1. server \in Servers /\ request \in Requests
  BY DEF CourseInv
<1>2. \/ Agrees(request.call, KindAt(Path(request), "Request"), KindAt(Path(request), "Response"))
      \/ request.call.sends = None /\ request.call.wants = None
  BY <1>1, KindsAgree
<1> QED
  BY <1>2 DEF Agrees, Kinds, None

LEMMA BodyEdge ==
    ASSUME CourseInv, BodyInv, EdgeIn
    PROVE  BodyInv'
<1> DEFINE kind == KindAt(Path(request), "Request")
           sends == request.call.sends
           patch == request.call.method = "PATCH"
<1>1. /\ at = "edge" /\ at' \in {"route", "client"} /\ UNCHANGED <<server, request, route>>
      /\ Bridging(server.version) /\ body \in Written(request)
  BY DEF EdgeIn, Proceed, Sends, BodyInv
<1>2. ASSUME at' = "route", Sighted(request) PROVE Fitting'
  <2>1. /\ sends \in Kinds => kind = sends
        /\ sends \notin Kinds \cup {None, "CommandResult"} => kind = NoKind
        /\ sends = "CommandResult" => kind \in {NoKind, "StartSession", "ReserveNow"}
    BY <1>1, <1>2, EdgeKinds
  <2>2. ~Flawed("wrong_object") => body.is = sends /\ body = Doc(sends, body.version)
    BY <1>1 DEF Written, Flawed, Doc
  <2>3. \/ (kind = NoKind \/ (body.is = None /\ ~patch)) /\ body' = body
        \/ kind # NoKind /\ patch /\ PatchCrossesUnchanged(kind, FieldsOf(request, kind))
           /\ body' = body
        \/ /\ kind # NoKind /\ body.is # None /\ ~patch
           /\ body' = Doc(kind, Canonical)
           /\ \E v : v = server.version /\ MayDecode(body, v, kind)
    BY <1>1, <1>2 DEF EdgeIn, Proceed, Sends
  <2> HIDE DEF kind
  <2>4. ASSUME ~Flawed("wrong_object"), ~patch
        PROVE  body'.is = sends /\ (body'.is \in Kinds => body'.version = Canonical)
    <3>1. NoKind \notin Kinds /\ None \notin Kinds /\ "CommandResult" \notin Kinds
      BY DEF Kinds, NoKind, None
    <3>2. body.is = sends
      BY <2>2, <2>4
    <3>3. CASE body' = body
      BY <2>1, <2>3, <2>4, <3>1, <3>2, <3>3 DEF Doc
    <3>4. CASE /\ kind # NoKind /\ body.is # None /\ ~patch
               /\ body' = Doc(kind, Canonical)
               /\ \E v : v = server.version /\ MayDecode(body, v, kind)
      <4>1. ASSUME sends = "CommandResult" PROVE FALSE
        <5>1. body = Doc("CommandResult", body.version) /\ kind \in {"StartSession", "ReserveNow"}
          BY <2>1, <2>2, <2>4, <3>4, <4>1
        <5>2. MayDecode(Doc("CommandResult", body.version), server.version, kind)
          BY <3>4, <5>1
        <5> QED
          BY <5>1, <5>2, ResultsAreNoCommands
      <4> QED
        BY <2>1, <3>1, <3>2, <3>4, <4>1 DEF Doc
    <3> QED
      BY <2>3, <2>4, <3>3, <3>4
  <2>5. ASSUME patch
        PROVE  FieldsOf(request, sends) \cap DivergentFields(sends) = {}
    <3>1. CASE sends \in Kinds
      <4>1. kind = sends /\ kind # NoKind
        BY <2>1, <3>1 DEF Kinds, NoKind
      <4> QED
        BY <2>3, <2>5, <4>1 DEF PatchCrossesUnchanged
    <3>2. CASE sends \notin Kinds
      BY <3>2, OnlyKindsDiverge
    <3> QED
      BY <3>1, <3>2
  <2>6. /\ FieldsOf(request, sends)' = FieldsOf(request, sends)
           /\ Flawed("wrong_object")' = Flawed("wrong_object")
    BY <1>1 DEF FieldsOf, Flawed
  <2> QED
    BY <1>1, <2>4, <2>5, <2>6 DEF Fitting
<1>3. Sighted(request)' = Sighted(request)
  BY <1>1 DEF Sighted, EdgeBlind, Bridging
<1>4. at' = "route" => Fitting'
  BY <1>2, <1>3 DEF Fitting
<1> QED
  BY <1>1, <1>4 DEF BodyInv, Serving

(* What has arrived stays as it is while it is served.                      *)
LEMMA StillFitting ==
    ASSUME Fitting, UNCHANGED <<server, request, body>>
    PROVE  Fitting'
BY DEF Fitting, Sighted, EdgeBlind, Bridging, Flawed, FieldsOf

(* The handler of a command decodes the bytes itself.                       *)
LEMMA BodyHandler ==
    ASSUME BodyInv, EnterHandler
    PROVE  BodyInv'
<1> DEFINE command == CommandObject(Seqs!Last(request.call.sub))
<1>1. at = "late" /\ UNCHANGED <<server, request, route, body>> /\ at' \in {"reply", "handler"}
  BY DEF EnterHandler, Refuse, Sends, Proceed
<1>2. Fitting'
  BY <1>1, StillFitting DEF BodyInv, Serving
<1>3. ASSUME at' = "handler", route.body = "command", ~Flawed("wrong_object")
      PROVE  body.is = command /\ (body.is \in Kinds => body.version = Canonical)
  <2>1. Late = Ok
    BY <1>3 DEF EnterHandler, Refuse, Sends
  <2>2. ~MayFail(body, Canonical, command)
    BY <1>3, <2>1 DEF Late, Ok, Err
  <2> QED
    BY <2>2 DEF MayFail
<1>4. Flawed("wrong_object")' = Flawed("wrong_object")
  BY <1>1 DEF Flawed
<1> QED
  BY <1>1, <1>2, <1>3, <1>4 DEF BodyInv, Serving

LEMMA BodyStep == CourseInv /\ BodyInv /\ [Next]_vars => BodyInv'
<1> SUFFICES ASSUME CourseInv, BodyInv, [Next]_vars PROVE BodyInv'
  OBVIOUS
<1>1. CASE at = "idle" /\ \E r \in Requests : Send(r)
  BY <1>1, BodySend
<1>2. CASE EdgeIn
  BY <1>2, BodyEdge
<1>3. CASE Match \/ Authenticate \/ ReadQuery \/ ReadBody \/ EnterContext
  <2>1. at \in {"route", "auth", "query", "body", "scope"}
        /\ at' \in {"reply", "auth", "query", "body", "scope", "late"}
        /\ UNCHANGED <<server, request, body>>
    BY <1>3 DEF Match, MatchTo, Authenticate, ReadQuery, ReadBody, EnterContext, Refuse, Sends,
       Proceed
  <2> QED
    BY <2>1, StillFitting DEF BodyInv, Serving
<1>4. CASE EnterHandler
  BY <1>4, BodyHandler
<1>5. CASE Handle \/ EdgeOut \/ Receive \/ Close
  <2>1. at' \in {"reply", "client", "done", "idle"}
    BY <1>5 DEF Handle, EdgeOut, Receive, Close, Sends, Proceed
  <2> QED
    BY <2>1 DEF BodyInv, Serving
<1>6. CASE \/ \E t \in Tokens : Revoke(t)
           \/ UNCHANGED vars
  <2>1. UNCHANGED <<server, at, request, route, body>>
    BY <1>6 DEF Revoke, vars
  <2>2. Written(request)' = Written(request) /\ Bridging(server.version)' = Bridging(server.version)
        /\ Flawed("wrong_object")' = Flawed("wrong_object")
    BY <2>1 DEF Written, Bridging, Flawed
  <2> QED
    BY <2>1, <2>2, StillFitting DEF BodyInv
<1> QED
  BY <1>1, <1>2, <1>3, <1>4, <1>5, <1>6 DEF Next

LEMMA CourseHolds == Spec => [](CourseInv /\ BodyInv)
<1>1. Init => CourseInv /\ BodyInv
  BY CourseInit, BodyInit
<1>2. CourseInv /\ BodyInv /\ [Next]_vars => (CourseInv /\ BodyInv)'
  BY CourseStep, BodyStep
<1> QED
  BY <1>1, <1>2, PTL DEF Spec

(* A handler is given the object it is written for, in the canonical model, *)
(* whichever version the router publishes and whoever sends it, for every    *)
(* set of modules, any number of flaws and anything sent for something else: *)
(* the table the edge reads off a path agrees with what the routes decode.  *)
THEOREM NothingIsMisread == Spec => []NoMisread
<1>1. ASSUME CourseInv, BodyInv PROVE NoMisread
  <2> SUFFICES ASSUME at = "handler", route.body \in {"json", "command"}, ~EdgeBlind,
                          ~Flawed("wrong_object")
               PROVE  /\ body.is = (IF route.body = "json" THEN route.takes
                                    ELSE CommandObject(Seqs!Last(request.call.sub)))
                      /\ body.is \in Kinds => body.version = Canonical
    BY DEF NoMisread
  <2>1. Matched(request, route) /\ Fitting /\ Sighted(request)
    BY <1>1 DEF CourseInv, BodyInv, Serving, Sighted
  <2>2. CASE route.body = "command"
    BY <1>1, <2>2 DEF BodyInv
  <2>3. CASE route.body = "json"
    <3>1. request.call.method # "PATCH"
      BY <2>1, <2>3, PatchesArePatches DEF Matched
    <3>2. route.takes = request.call.sends
      BY <2>1, <2>3, MatchedMeets DEF Meets
    <3> QED
      BY <2>1, <2>3, <3>1, <3>2 DEF Fitting
  <2> QED
    BY <2>2, <2>3
<1> QED
  BY <1>1, CourseHolds, PTL

(* A merge patch is not translated; one that reaches a handler across       *)
(* versions writes only fields both have, for every set of modules and any  *)
(* number of flaws.                                                         *)
THEOREM PatchesAgree == Spec => []PatchAgrees
<1>1. ASSUME CourseInv, BodyInv PROVE PatchAgrees
  <2> SUFFICES ASSUME at = "handler", route.body = "patch", Bridging(server.version), ~EdgeBlind
               PROVE  FieldsOf(request, route.takes) \cap DivergentFields(route.takes) = {}
    BY DEF PatchAgrees
  <2>1. Matched(request, route) /\ Fitting /\ Sighted(request)
    BY <1>1 DEF CourseInv, BodyInv, Serving, Sighted
  <2>2. request.call.method = "PATCH"
    BY <2>1, PatchesArePatches DEF Matched
  <2>3. route.takes = request.call.sends
    BY <2>1, MatchedMeets DEF Meets
  <2> QED
    BY <2>1, <2>2, <2>3 DEF Fitting
<1> QED
  BY <1>1, CourseHolds, PTL

-----------------------------------------------------------------------------
(* What a handler returned is what a typed client is told.                 *)

(* How an answer that is on its way back came about. What a handler         *)
(* returned is there, in the version the peer is read in.                   *)
Answered(version) ==
    \/ /\ handled = Ok
       /\ \E http \in {200, 201} : \E v :
            /\ answer = Reply(http, Doc(request.call.wants, v))
            /\ request.call.wants # None /\ request.call.back \in Kinds => v = version
    \/ handled \in Declines /\ answer = ErrorResponse(handled)

AnswerInv ==
    handled # Pending =>
        /\ at = "reply" => Answered(Canonical)
        /\ at = "client" /\ Sighted(request) => Answered(server.version)
        /\ at = "done" /\ request.kit /\ Sighted(request) =>
              \E fits : /\ told = Outcome(answer, Wants(request.call), fits)
                        /\ Answered(server.version)
                        /\ handled = Ok /\ request.call.wants # None => fits

(* What a handler may decline with.                                         *)
LEMMA ErrorsAre ==
    ASSUME NEW codes, NEW e \in OcpiErrors(codes)
    PROVE  \/ \E is : e = Err(is) /\ is \notin {"ok", "Remote", "MissingData"}
           \/ \E code : e = Remote(code)
           \/ \E code : e = MissingData(code)
  BY DEF OcpiErrors

LEMMA DeclinesAre ==
    ASSUME NEW e \in Declines
    PROVE  /\ e.is # "ok"
           /\ e.is \in {"Remote", "MissingData"} \/ ~IsSuccess(StatusCode(e))
           /\ HttpStatus(e) # 200 => e.is \notin {"Remote", "MissingData"}
<1>1. \/ \E is : e = Err(is) /\ is \notin {"ok", "Remote", "MissingData"}
      \/ \E code : e = Remote(code)
      \/ \E code : e = MissingData(code)
  BY DeclinesAssumption, ErrorsAre
<1>2. e.is \in {"Remote", "MissingData"} \/ e.is \notin {"ok", "Remote", "MissingData"}
  BY <1>1 DEF Err, Remote, MissingData
<1>4. CASE e.is \in {"Remote", "MissingData"}
  BY <1>4 DEF HttpStatus
<1>5. CASE e.is \notin {"ok", "Remote", "MissingData"}
  <2>2. StatusCode(e) \in {InvalidParameters, ClientError, ServerError}
    BY <1>5 DEF StatusCode
  <2>3. ~IsSuccess(InvalidParameters) /\ ~IsSuccess(ClientError) /\ ~IsSuccess(ServerError)
    <3>1. 2001 \notin 1000..1999 /\ 2000 \notin 1000..1999 /\ 3000 \notin 1000..1999
      OBVIOUS
    <3>2. ASSUME NEW code \in {2001, 2000, 3000} PROVE Class(code) # "Success"
      BY <3>1 DEF Class
    <3> QED
      BY <3>2 DEF IsSuccess, InvalidParameters, ClientError, ServerError
  <2> QED
    BY <1>5, <2>2, <2>3
<1> QED
  BY <1>2, <1>4, <1>5

LEMMA AnswerInit == Init => AnswerInv
  BY DEF Init, AnswerInv

LEMMA AnswerHandle ==
    ASSUME CourseInv, Handle
    PROVE  AnswerInv'
<1> DEFINE wants == request.call.wants
           returned == T!Returned(route.module, route.role, route.handler)
<1>1. at = "handler" /\ at' = "reply" /\ UNCHANGED <<server, request, route>>
  BY DEF Handle
<1>2. Matched(request, route) /\ request \in Requests
  BY <1>1 DEF CourseInv, Serving
<1>3. route.module = request.call.module /\ route.role = request.call.role
          /\ route.handler = request.call.means
  BY <1>2, MatchedMeets DEF Meets
<1>4. returned.object = wants /\ returned.http \subseteq {200, 201}
  BY <1>2, <1>3, CallsReturn DEF Returns
<1> HIDE DEF returned
<1>5. \/ handled' = Ok /\ \E http \in returned.http : answer' = Reply(http, Doc(returned.object,
         Canonical))
      \/ \E error \in Declines : handled' = error /\ answer' = ErrorResponse(error)
  BY DEF Handle, returned
<1>6. \/ handled' = Ok /\ \E http \in {200, 201} : answer' = Reply(http, Doc(wants, Canonical))
      \/ handled' \in Declines /\ answer' = ErrorResponse(handled')
  BY <1>4, <1>5
<1>7. Answered(Canonical)'
  BY <1>1, <1>6 DEF Answered
<1> QED
  BY <1>1, <1>7 DEF AnswerInv

LEMMA AnswerOut ==
    ASSUME CourseInv, AnswerInv, EdgeOut
    PROVE  AnswerInv'
<1> DEFINE c == request.call
           kind == KindAt(Path(request), "Response")
<1>1. at = "reply" /\ at' = "client" /\ UNCHANGED <<server, request, handled>>
  BY DEF EdgeOut, Sends, Proceed, outcome
<1>2. SUFFICES ASSUME handled # Pending, Sighted(request) PROVE Answered(server.version)'
  <2>1. Sighted(request)' = Sighted(request)
    BY <1>1 DEF Sighted, EdgeBlind, Bridging
  <2> QED
    BY <1>1, <2>1 DEF AnswerInv
<1>3. Answered(Canonical) /\ server \in Servers /\ request \in Requests
  BY <1>1, <1>2 DEF AnswerInv, CourseInv
<1>4. CASE handled \in Declines /\ answer = ErrorResponse(handled)
  <2>1. answer.data.is = None
    BY <1>4 DEF ErrorResponse, NoDoc, Doc
  <2>2. answer' = answer
    BY <2>1 DEF EdgeOut, Proceed, outcome
  <2> QED
    BY <1>1, <1>4, <2>2 DEF Answered
<1>5. ASSUME handled = Ok, NEW http \in {200, 201}, NEW v,
             answer = Reply(http, Doc(c.wants, v)),
             c.wants # None /\ c.back \in Kinds => v = Canonical
      PROVE  Answered(server.version)'
  <2>1. answer.data = Doc(c.wants, v) /\ answer.data.is = c.wants
    BY <1>5 DEF Reply, Doc
  <2>2. CASE ~Bridging(server.version)
    <3>1. answer' = answer /\ server.version = Canonical
      BY <2>2 DEF EdgeOut, Proceed, outcome, Bridging
    <3> QED
      BY <1>1, <1>5, <3>1 DEF Answered
  <2>3. CASE Bridging(server.version)
    <3>1. \/ Agrees(c, KindAt(Path(request), "Request"), kind)
          \/ c.sends = None /\ c.wants = None
      BY <1>2, <1>3, <2>3, KindsAgree
    <3> HIDE DEF kind
    <3>2. IF kind = NoKind \/ answer.data.is = None THEN answer' = answer
          ELSE IF answer.data.is = kind
          THEN answer' = [answer EXCEPT !.data = Doc(kind, server.version)]
          ELSE answer' = ErrorResponse(Err("Transport"))
      BY <2>3 DEF EdgeOut, Proceed, Sends, outcome, kind
    <3>3. CASE c.wants = None
      BY <1>1, <1>5, <2>1, <3>2, <3>3 DEF Answered
    <3>4. CASE c.wants \notin Kinds \cup {None}
      <4>1. kind = NoKind /\ c.back \notin Kinds
        BY <3>1, <3>4 DEF Agrees
      <4> QED
        BY <1>1, <1>5, <3>2, <4>1 DEF Answered
    <3>5. CASE c.wants \in Kinds
      <4>1. kind = c.wants /\ kind # NoKind /\ c.wants # None
        BY <3>1, <3>5 DEF Agrees, Kinds, NoKind, None
      <4>2. answer' = [answer EXCEPT !.data = Doc(c.wants, server.version)]
        BY <2>1, <3>2, <4>1
      <4>3. answer' = Reply(http, Doc(c.wants, server.version))
        BY <1>5, <4>2 DEF Reply
      <4> QED
        BY <1>1, <1>5, <4>3 DEF Answered
    <3> QED
      BY <3>3, <3>4, <3>5
  <2> QED
    BY <2>2, <2>3
<1> QED
  BY <1>3, <1>4, <1>5 DEF Answered

LEMMA AnswerReceive ==
    ASSUME AnswerInv, Receive
    PROVE  AnswerInv'
<1> DEFINE c == request.call
           fits == answer.data.is = c.wants /\ (c.back \in Kinds
               => answer.data.version = server.version)
<1>1. at = "client" /\ at' = "done" /\ UNCHANGED <<server, request, handled, answer>>
      /\ (request.kit => told' = Outcome(answer, Wants(c), fits))
  BY DEF Receive
<1>2. Sighted(request)' = Sighted(request) /\ Answered(server.version)' = Answered(server.version)
  BY <1>1 DEF Sighted, EdgeBlind, Bridging, Answered
<1>3. ASSUME handled = Ok, Answered(server.version), c.wants # None PROVE fits
  <2>1. ASSUME handled \in Declines, answer = ErrorResponse(handled) PROVE FALSE
    BY <1>3, <2>1, DeclinesAre DEF Ok
  <2> QED
    BY <1>3, <2>1 DEF Answered, Reply, Doc
<1>4. ASSUME handled # Pending, request.kit, Sighted(request)
      PROVE  /\ told' = Outcome(answer, Wants(c), fits)
             /\ Answered(server.version)'
             /\ handled = Ok /\ c.wants # None => fits
  BY <1>1, <1>2, <1>3, <1>4 DEF AnswerInv
<1> HIDE DEF fits
<1> QED
  BY <1>1, <1>2, <1>4 DEF AnswerInv

LEMMA AnswerStep == CourseInv /\ AnswerInv /\ [Next]_vars => AnswerInv'
<1> SUFFICES ASSUME CourseInv, AnswerInv, [Next]_vars PROVE AnswerInv'
  OBVIOUS
<1>1. CASE \/ at = "idle" /\ \E r \in Requests : Send(r)
           \/ EdgeIn \/ Match \/ Authenticate \/ ReadQuery \/ ReadBody \/ EnterContext
              \/ EnterHandler
  <2>1. at \notin {"reply", "client", "done"} /\ handled' = handled
    BY <1>1 DEF Send, EdgeIn, Match, MatchTo, Authenticate, ReadQuery, ReadBody, EnterContext,
       EnterHandler, Refuse, Sends, Proceed, outcome
  <2>2. handled = Pending
    BY <2>1 DEF CourseInv
  <2> QED
    BY <2>1, <2>2 DEF AnswerInv
<1>2. CASE Handle
  BY <1>2, AnswerHandle
<1>3. CASE EdgeOut
  BY <1>3, AnswerOut
<1>4. CASE Receive
  BY <1>4, AnswerReceive
<1>5. CASE Close
  BY <1>5 DEF Close, AnswerInv
<1>6. CASE \/ \E t \in Tokens : Revoke(t)
           \/ UNCHANGED vars
  <2>1. UNCHANGED <<server, at, request, handled, answer, told>>
    BY <1>6 DEF Revoke, vars, outcome
  <2> QED
    BY <2>1 DEF AnswerInv, Answered, Sighted, EdgeBlind, Bridging
<1> QED
  BY <1>1, <1>2, <1>3, <1>4, <1>5, <1>6 DEF Next

(* What a client makes of an answer to a handler that returned.             *)
LEMMA SuccessIsTold ==
    ASSUME NEW http \in {200, 201}, NEW v, NEW call, NEW fits, call.wants # None => fits
    PROVE  Outcome(Reply(http, Doc(call.wants, v)), Wants(call), fits) = Ok
<1> DEFINE answered == Reply(http, Doc(call.wants, v))
<1>1. answered.http \in 200..299 /\ answered.code = Success /\ answered.data = Doc(call.wants, v)
  BY DEF Reply
<1>2. IsSuccess(Success)
  BY DEF IsSuccess, Class, Success
<1>3. ExpectSuccess(answered) = Ok
  BY <1>1, <1>2 DEF ExpectSuccess
<1>4. call.wants # None => answered.data # NoDoc
  BY <1>1 DEF Doc, NoDoc
<1>5. IntoResult(answered) = Ok \/ call.wants = None
  BY <1>3, <1>4 DEF IntoResult
<1>6. call.wants = None => Wants(call) = None
  BY DEF Wants
<1> HIDE DEF answered
<1>7. None # "list"
  BY DEF None
<1>8. CASE call.wants = None
  <2>1. Outcome(answered, None, fits) = ExpectSuccess(answered)
    BY <1>1, <1>7 DEF Outcome
  <2> QED
    BY <1>3, <1>6, <1>8, <2>1 DEF answered
<1>9. CASE call.wants # None
  <2>1. \A wants : Outcome(answered, wants, fits) \in {ExpectSuccess(answered),
            IntoResult(answered)}
    BY <1>1, <1>9 DEF Outcome
  <2> QED
    BY <1>3, <1>5, <1>9, <2>1 DEF answered
<1> QED
  BY <1>8, <1>9

(* Ok has the code of success.                                              *)
LEMMA SuccessSucceeds == IsSuccess(Success) /\ StatusCode(Ok) = Success
<1>1. IsSuccess(Success)
  BY DEF IsSuccess, Class, Success
<1>2. StatusCode(Ok) = Success
  BY DEF StatusCode, Ok, Success
<1> QED
  BY <1>1, <1>2

(* And of the answer to a peer's success code that was passed on as an      *)
(* error.                                                                   *)
LEMMA PassedOnIsTold ==
    ASSUME NEW error \in Declines, IsSuccess(StatusCode(error)), NEW wants, NEW fits
    PROVE  LET read == Outcome(ErrorResponse(error), wants, fits)
           IN  /\ read = Ok <=> wants \in {None, "list"}
               /\ Class(StatusCode(read)) = Class(StatusCode(error))
<1> DEFINE sent == ErrorResponse(error)
           code == StatusCode(error)
<1>0. error.is \in {"Remote", "MissingData"}
  BY DeclinesAre
<1>1. error.is \in {"Remote", "MissingData"} /\ HttpStatus(error) = 200
  BY <1>0 DEF HttpStatus
<1>2. sent.http = 200 /\ sent.code = code /\ sent.data = NoDoc
  BY SMTT(30), <1>1 DEF ErrorResponse
<1>3. IsSuccess(Success) /\ StatusCode(Ok) = Success
  BY ONLY SuccessSucceeds
<1> HIDE DEF sent, code
<1>4. wants \in {None, "list"} => Outcome(sent, wants, fits) = Ok
  BY <1>2 DEF Outcome, ExpectSuccess, code
<1>5. wants \notin {None, "list"} => Outcome(sent, wants, fits) = MissingData(code)
  BY <1>2 DEF Outcome, IntoResult, code
<1>6. MissingData(code) # Ok /\ StatusCode(MissingData(code)) = code
  BY DEF MissingData, Ok, StatusCode
<1>7. Class(code) = Class(Success)
  BY <1>3 DEF IsSuccess, code
<1> QED
  BY <1>3, <1>4, <1>5, <1>6, <1>7 DEF sent, code

LEMMA AnswersAreTold ==
    ASSUME AnswerInv, at = "done", request.kit, handled # Pending, Sighted(request)
    PROVE  /\ told = Ok <=> handled = Ok \/ (PassedOn /\ Wants(request.call) \in {None, "list"})
           /\ Class(StatusCode(told)) = Class(StatusCode(handled))
<1> DEFINE call == request.call
           wants == Wants(call)
<1>1. PICK fits : /\ told = Outcome(answer, wants, fits)
                  /\ Answered(server.version)
                  /\ handled = Ok /\ call.wants # None => fits
  BY DEF AnswerInv
<1>2. ASSUME handled = Ok, NEW http \in {200, 201}, NEW v, answer = Reply(http, Doc(call.wants, v))
      PROVE  told = Ok
  BY <1>1, <1>2, SuccessIsTold
<1>3. ASSUME handled \in Declines, answer = ErrorResponse(handled)
      PROVE  /\ told = Ok <=> handled = Ok \/ (PassedOn /\ wants \in {None, "list"})
             /\ Class(StatusCode(told)) = Class(StatusCode(handled))
  <2>1. handled # Ok /\ (handled.is \in {"Remote", "MissingData"}
            \/ ~IsSuccess(StatusCode(handled)))
    BY <1>3, DeclinesAre DEF Ok
  <2>2. handled.is \in {"Remote", "MissingData"} => StatusCode(handled) = handled.code
    BY DEF StatusCode
  <2>3. PassedOn <=> IsSuccess(StatusCode(handled))
    BY <2>1, <2>2 DEF PassedOn
  <2>4. CASE IsSuccess(StatusCode(handled))
    BY <1>1, <1>3, <2>1, <2>3, <2>4, PassedOnIsTold
  <2>5. CASE ~IsSuccess(StatusCode(handled))
    <3>1. StatusCode(told) = StatusCode(handled)
      BY <1>1, <1>3, <2>5, ErrorsAreRead
    <3>2. IsSuccess(StatusCode(Ok))
      BY SuccessSucceeds
    <3>3. told # Ok
      BY <2>5, <3>1, <3>2
    <3> QED
      BY <2>1, <2>3, <2>5, <3>1, <3>3
  <2> QED
    BY <2>4, <2>5
<1> QED
  BY <1>1, <1>2, <1>3 DEF Answered

(* What a typed client's call returns is what the handler returned, for     *)
(* every set of modules, whatever errors handlers decline with and whatever *)
(* version the peer is on: it succeeds when the handler did, and otherwise  *)
(* lays the fault where the handler laid it. Only a peer's success code     *)
(* that a handler passed on as an error is read as success, or as an answer *)
(* without its data.                                                        *)
THEOREM OutcomesAreTold == Spec => []OutcomeTold
<1>1. Init => CourseInv /\ AnswerInv
  BY CourseInit, AnswerInit
<1>2. CourseInv /\ AnswerInv /\ [Next]_vars => (CourseInv /\ AnswerInv)'
  BY CourseStep, AnswerStep
<1>3. CourseInv /\ AnswerInv => OutcomeTold
  BY AnswersAreTold DEF OutcomeTold, Sighted
<1> QED
  BY <1>1, <1>2, <1>3, PTL DEF Spec

-----------------------------------------------------------------------------
(* What a typed client asks for is found.                                  *)

(* An interface that is mounted has such a route.                           *)
Has(module, role, method, below) ==
    \E q \in R!Mountable(server.prefix) :
        /\ q.module = module /\ q.role = role /\ q.method = method
        /\ q.path = BaseOf(module, role) \o below

LEMMA RowHas ==
    ASSUME NEW module, NEW role, NEW addressed, NEW rows, NEW row \in rows,
           R!On(module, role, BaseOf(module, role), addressed, rows)
             \subseteq R!Mountable(server.prefix)
    PROVE  Has(module, role, row[1], row[2])
<1> DEFINE q == [module |-> module, role |-> role, addressed |-> addressed,
                 method |-> row[1], path |-> BaseOf(module, role) \o row[2], handler |-> row[3],
                 query |-> row[4], body |-> row[5], takes |-> row[6]]
<1>1. q \in R!On(module, role, BaseOf(module, role), addressed, rows)
  BY Zenon DEF R!On
<1>2. q.module = module /\ q.role = role /\ q.method = row[1]
      /\ q.path = BaseOf(module, role) \o row[2]
  BY Zenon
<1> HIDE DEF q
<1>3. q \in R!Mountable(server.prefix)
  BY <1>1
<1> QED
  BY <1>2, <1>3 DEF Has

LEMMA CredentialsHas ==
    /\ Has("credentials", "Sender", "GET", <<>>)
    /\ Has("credentials", "Sender", "POST", <<>>)
    /\ Has("credentials", "Sender", "PUT", <<>>)
    /\ Has("credentials", "Sender", "DELETE", <<>>)
<1> DEFINE b1 == <<>>
           rows == {<<"GET", b1, "get", None, None, None>>,
                    <<"POST", b1, "post", None, "json", "Credentials">>,
                    <<"PUT", b1, "put", None, "json", "Credentials">>,
                    <<"DELETE", b1, "delete", None, None, None>>}
<1>1. BaseOf("credentials", "Sender") = <<"credentials">>
  BY Zenon, BaseAlone DEF BaseOf, Words
<1>3. R!Credentials = R!On("credentials", "Sender", BaseOf("credentials", "Sender"), None, rows)
  BY <1>1 DEF R!Credentials, None, R!None
<1>4. R!On("credentials", "Sender", BaseOf("credentials", "Sender"), None, rows)
        \subseteq R!Mountable(server.prefix)
  BY <1>3 DEF R!Mountable
<1> HIDE DEF b1
<1>5. \A row \in rows : Has("credentials", "Sender", row[1], row[2])
  BY Zenon, <1>4, RowHas
<1>6. /\ Has("credentials", "Sender", "GET", b1)
      /\ Has("credentials", "Sender", "POST", b1)
      /\ Has("credentials", "Sender", "PUT", b1)
      /\ Has("credentials", "Sender", "DELETE", b1)
  BY <1>5
<1> QED
  BY Zenon, <1>6 DEF b1

LEMMA LocationsSenderHas ==
    /\ Has("locations", "Sender", "GET", <<>>)
    /\ Has("locations", "Sender", "GET", <<R!Id>>)
    /\ Has("locations", "Sender", "GET", <<R!Id, R!Id>>)
    /\ Has("locations", "Sender", "GET", <<R!Id, R!Id, R!Id>>)
<1> DEFINE b1 == <<>>
           b2 == <<R!Id>>
           b3 == <<R!Id, R!Id>>
           b4 == <<R!Id, R!Id, R!Id>>
           rows == {<<"GET", b1, "list", "page", None, None>>,
                    <<"GET", b2, "location", None, None, None>>,
                    <<"GET", b3, "evse", None, None, None>>,
                    <<"GET", b4, "connector", None, None, None>>}
<1>1. BaseOf("locations", "Sender") = <<"locations">>
  BY Zenon, BaseAlone DEF BaseOf, Words
<1>3. R!LocationsSender = R!On("locations", "Sender", BaseOf("locations", "Sender"), None, rows)
  BY <1>1 DEF R!LocationsSender, None, R!None
<1>4. R!On("locations", "Sender", BaseOf("locations", "Sender"), None, rows)
        \subseteq R!Mountable(server.prefix)
  BY <1>3 DEF R!Mountable
<1> HIDE DEF b1, b2, b3, b4
<1>5. \A row \in rows : Has("locations", "Sender", row[1], row[2])
  BY Zenon, <1>4, RowHas
<1>6. /\ Has("locations", "Sender", "GET", b1)
      /\ Has("locations", "Sender", "GET", b2)
      /\ Has("locations", "Sender", "GET", b3)
      /\ Has("locations", "Sender", "GET", b4)
  BY <1>5
<1> QED
  BY Zenon, <1>6 DEF b1, b2, b3, b4

LEMMA LocationsReceiverHas ==
    /\ Has("locations", "Receiver", "GET", <<R!Id, R!Id, R!Id>>)
    /\ Has("locations", "Receiver", "PUT", <<R!Id, R!Id, R!Id>>)
    /\ Has("locations", "Receiver", "PATCH", <<R!Id, R!Id, R!Id>>)
    /\ Has("locations", "Receiver", "PUT", <<R!Id, R!Id, R!Id, R!Id>>)
<1> DEFINE b1 == <<R!Id, R!Id, R!Id>>
           b2 == <<R!Id, R!Id, R!Id, R!Id>>
           rows == {<<"GET", b1, "location", None, None, None>>,
                    <<"PUT", b1, "put_location", None, "json", "Location">>,
                    <<"PATCH", b1, "patch", None, "patch", "Location">>,
                    <<"PUT", b2, "put_evse", None, "json", "Evse">>}
<1>1. BaseOf("locations", "Receiver") = R!ReceiverPath(server.prefix, <<"locations">>)
  BY Zenon, BaseAlone DEF BaseOf, Words
<1>2. b1 = R!Owner \o <<R!Id>> /\ b2 = R!Owner \o <<R!Id, R!Id>>
  <2>1. R!Id \in Words
    BY DEF Words
  <2> QED
    BY <2>1, Joins DEF R!Owner
<1>3. R!LocationsReceiver(server.prefix)
        = R!On("locations", "Receiver", BaseOf("locations", "Receiver"), "owned", rows)
  BY Zenon, <1>1, <1>2 DEF R!LocationsReceiver, None, R!None
<1>4. R!On("locations", "Receiver", BaseOf("locations", "Receiver"), "owned", rows)
        \subseteq R!Mountable(server.prefix)
  BY <1>3 DEF R!Mountable
<1> HIDE DEF b1, b2
<1>5. \A row \in rows : Has("locations", "Receiver", row[1], row[2])
  BY Zenon, <1>4, RowHas
<1>6. /\ Has("locations", "Receiver", "GET", b1)
      /\ Has("locations", "Receiver", "PUT", b1)
      /\ Has("locations", "Receiver", "PATCH", b1)
      /\ Has("locations", "Receiver", "PUT", b2)
  BY <1>5
<1> QED
  BY Zenon, <1>6 DEF b1, b2

LEMMA TokensSenderHas ==
    /\ Has("tokens", "Sender", "GET", <<>>)
    /\ Has("tokens", "Sender", "POST", <<R!Id, "authorize">>)
<1> DEFINE b1 == <<>>
           b2 == <<R!Id, "authorize">>
           rows == {<<"GET", b1, "list", "page", None, None>>,
                    <<"POST", b2, "authorize", "type", "optional", "LocationReferences">>}
<1>1. BaseOf("tokens", "Sender") = <<"tokens">>
  BY Zenon, BaseAlone DEF BaseOf, Words
<1>3. R!TokensSender = R!On("tokens", "Sender", BaseOf("tokens", "Sender"), None, rows)
  BY <1>1 DEF R!TokensSender, None, R!None
<1>4. R!On("tokens", "Sender", BaseOf("tokens", "Sender"), None, rows)
        \subseteq R!Mountable(server.prefix)
  BY <1>3 DEF R!Mountable
<1> HIDE DEF b1, b2
<1>5. \A row \in rows : Has("tokens", "Sender", row[1], row[2])
  BY Zenon, <1>4, RowHas
<1>6. /\ Has("tokens", "Sender", "GET", b1)
      /\ Has("tokens", "Sender", "POST", b2)
  BY <1>5
<1> QED
  BY Zenon, <1>6 DEF b1, b2

LEMMA TokensReceiverHas ==
    /\ Has("tokens", "Receiver", "GET", <<R!Id, R!Id, R!Id>>)
    /\ Has("tokens", "Receiver", "PUT", <<R!Id, R!Id, R!Id>>)
    /\ Has("tokens", "Receiver", "PATCH", <<R!Id, R!Id, R!Id>>)
<1> DEFINE b1 == <<R!Id, R!Id, R!Id>>
           rows == {<<"GET", b1, "token", "type", None, None>>,
                    <<"PUT", b1, "put_token", None, "json", "Token">>,
                    <<"PATCH", b1, "patch_token", "type", "patch", "Token">>}
<1>1. BaseOf("tokens", "Receiver") = R!ReceiverPath(server.prefix, <<"tokens">>)
  BY Zenon, BaseAlone DEF BaseOf, Words
<1>2. b1 = R!Owner \o <<R!Id>>
  <2>1. R!Id \in Words
    BY DEF Words
  <2> QED
    BY <2>1, Joins DEF R!Owner
<1>3. R!TokensReceiver(server.prefix)
        = R!On("tokens", "Receiver", BaseOf("tokens", "Receiver"), "owned", rows)
  BY Zenon, <1>1, <1>2 DEF R!TokensReceiver, None, R!None
<1>4. R!On("tokens", "Receiver", BaseOf("tokens", "Receiver"), "owned", rows)
        \subseteq R!Mountable(server.prefix)
  BY <1>3 DEF R!Mountable
<1> HIDE DEF b1
<1>5. \A row \in rows : Has("tokens", "Receiver", row[1], row[2])
  BY Zenon, <1>4, RowHas
<1>6. /\ Has("tokens", "Receiver", "GET", b1)
      /\ Has("tokens", "Receiver", "PUT", b1)
      /\ Has("tokens", "Receiver", "PATCH", b1)
  BY <1>5
<1> QED
  BY Zenon, <1>6 DEF b1

LEMMA CdrsSenderHas ==
    /\ Has("cdrs", "Sender", "GET", <<>>)
<1> DEFINE b1 == <<>>
           rows == {<<"GET", b1, "list", "page", None, None>>}
<1>1. BaseOf("cdrs", "Sender") = <<"cdrs">>
  BY Zenon, BaseAlone DEF BaseOf, Words
<1>3. R!CdrsSender = R!On("cdrs", "Sender", BaseOf("cdrs", "Sender"), None, rows)
  BY <1>1 DEF R!CdrsSender, None, R!None
<1>4. R!On("cdrs", "Sender", BaseOf("cdrs", "Sender"), None, rows)
        \subseteq R!Mountable(server.prefix)
  BY <1>3 DEF R!Mountable
<1> HIDE DEF b1
<1>5. \A row \in rows : Has("cdrs", "Sender", row[1], row[2])
  BY Zenon, <1>4, RowHas
<1>6. /\ Has("cdrs", "Sender", "GET", b1)
  BY <1>5
<1> QED
  BY Zenon, <1>6 DEF b1

LEMMA CdrsReceiverHas ==
    /\ Has("cdrs", "Receiver", "POST", <<>>)
    /\ Has("cdrs", "Receiver", "GET", <<R!Id>>)
<1> DEFINE b1 == <<>>
           b2 == <<R!Id>>
           rows == {<<"POST", b1, "post_cdr", None, "json", "Cdr">>,
                    <<"GET", b2, "cdr", None, None, None>>}
<1>1. BaseOf("cdrs", "Receiver") = R!ReceiverPath(server.prefix, <<"cdrs">>)
  BY Zenon, BaseAlone DEF BaseOf, Words
<1>3. R!CdrsReceiver(server.prefix)
        = R!On("cdrs", "Receiver", BaseOf("cdrs", "Receiver"), None, rows)
  BY <1>1 DEF R!CdrsReceiver, None, R!None
<1>4. R!On("cdrs", "Receiver", BaseOf("cdrs", "Receiver"), None, rows)
        \subseteq R!Mountable(server.prefix)
  BY <1>3 DEF R!Mountable
<1> HIDE DEF b1, b2
<1>5. \A row \in rows : Has("cdrs", "Receiver", row[1], row[2])
  BY Zenon, <1>4, RowHas
<1>6. /\ Has("cdrs", "Receiver", "POST", b1)
      /\ Has("cdrs", "Receiver", "GET", b2)
  BY <1>5
<1> QED
  BY Zenon, <1>6 DEF b1, b2

LEMMA SessionsSenderHas ==
    /\ Has("sessions", "Sender", "GET", <<>>)
    /\ Has("sessions", "Sender", "PUT", <<R!Id, "charging_preferences">>)
<1> DEFINE b1 == <<>>
           b2 == <<R!Id, "charging_preferences">>
           rows == {<<"GET", b1, "list", "page", None, None>>,
                    <<"PUT", b2, "set_charging_preferences", None, "json",
                       "ChargingPreferences">>}
<1>1. BaseOf("sessions", "Sender") = <<"sessions">>
  BY Zenon, BaseAlone DEF BaseOf, Words
<1>3. R!SessionsSender = R!On("sessions", "Sender", BaseOf("sessions", "Sender"), None, rows)
  BY <1>1 DEF R!SessionsSender, None, R!None
<1>4. R!On("sessions", "Sender", BaseOf("sessions", "Sender"), None, rows)
        \subseteq R!Mountable(server.prefix)
  BY <1>3 DEF R!Mountable
<1> HIDE DEF b1, b2
<1>5. \A row \in rows : Has("sessions", "Sender", row[1], row[2])
  BY Zenon, <1>4, RowHas
<1>6. /\ Has("sessions", "Sender", "GET", b1)
      /\ Has("sessions", "Sender", "PUT", b2)
  BY <1>5
<1> QED
  BY Zenon, <1>6 DEF b1, b2

LEMMA SessionsReceiverHas ==
    /\ Has("sessions", "Receiver", "GET", <<R!Id, R!Id, R!Id>>)
    /\ Has("sessions", "Receiver", "PUT", <<R!Id, R!Id, R!Id>>)
    /\ Has("sessions", "Receiver", "PATCH", <<R!Id, R!Id, R!Id>>)
<1> DEFINE b1 == <<R!Id, R!Id, R!Id>>
           rows == {<<"GET", b1, "session", None, None, None>>,
                    <<"PUT", b1, "put_session", None, "json", "Session">>,
                    <<"PATCH", b1, "patch_session", None, "patch", "Session">>}
<1>1. BaseOf("sessions", "Receiver") = R!ReceiverPath(server.prefix, <<"sessions">>)
  BY Zenon, BaseAlone DEF BaseOf, Words
<1>2. b1 = R!Owner \o <<R!Id>>
  <2>1. R!Id \in Words
    BY DEF Words
  <2> QED
    BY <2>1, Joins DEF R!Owner
<1>3. R!SessionsReceiver(server.prefix)
        = R!On("sessions", "Receiver", BaseOf("sessions", "Receiver"), "owned", rows)
  BY Zenon, <1>1, <1>2 DEF R!SessionsReceiver, None, R!None
<1>4. R!On("sessions", "Receiver", BaseOf("sessions", "Receiver"), "owned", rows)
        \subseteq R!Mountable(server.prefix)
  BY <1>3 DEF R!Mountable
<1> HIDE DEF b1
<1>5. \A row \in rows : Has("sessions", "Receiver", row[1], row[2])
  BY Zenon, <1>4, RowHas
<1>6. /\ Has("sessions", "Receiver", "GET", b1)
      /\ Has("sessions", "Receiver", "PUT", b1)
      /\ Has("sessions", "Receiver", "PATCH", b1)
  BY <1>5
<1> QED
  BY Zenon, <1>6 DEF b1

LEMMA TariffsSenderHas ==
    /\ Has("tariffs", "Sender", "GET", <<>>)
<1> DEFINE b1 == <<>>
           rows == {<<"GET", b1, "list", "page", None, None>>}
<1>1. BaseOf("tariffs", "Sender") = <<"tariffs">>
  BY Zenon, BaseAlone DEF BaseOf, Words
<1>3. R!TariffsSender = R!On("tariffs", "Sender", BaseOf("tariffs", "Sender"), None, rows)
  BY <1>1 DEF R!TariffsSender, None, R!None
<1>4. R!On("tariffs", "Sender", BaseOf("tariffs", "Sender"), None, rows)
        \subseteq R!Mountable(server.prefix)
  BY <1>3 DEF R!Mountable
<1> HIDE DEF b1
<1>5. \A row \in rows : Has("tariffs", "Sender", row[1], row[2])
  BY Zenon, <1>4, RowHas
<1>6. /\ Has("tariffs", "Sender", "GET", b1)
  BY <1>5
<1> QED
  BY Zenon, <1>6 DEF b1

LEMMA TariffsReceiverHas ==
    /\ Has("tariffs", "Receiver", "GET", <<R!Id, R!Id, R!Id>>)
    /\ Has("tariffs", "Receiver", "PUT", <<R!Id, R!Id, R!Id>>)
    /\ Has("tariffs", "Receiver", "DELETE", <<R!Id, R!Id, R!Id, "">>)
<1> DEFINE e == ""
<1> DEFINE b1 == <<R!Id, R!Id, R!Id>>
           b2 == <<R!Id, R!Id, R!Id, e>>
           rows == {<<"GET", b1, "tariff", None, None, None>>,
                    <<"PUT", b1, "put_tariff", None, "json", "Tariff">>,
                    <<"DELETE", b2, "delete_tariff", None, None, None>>}
<1>1. BaseOf("tariffs", "Receiver") = R!ReceiverPath(server.prefix, <<"tariffs">>)
  BY Zenon, BaseAlone DEF BaseOf, Words
<1>2. b1 = R!Owner \o <<R!Id>> /\ b2 = R!Owner \o <<R!Id, e>>
  <2>1. e \in Words /\ R!Id \in Words
    BY DEF Words
  <2> HIDE DEF e
  <2> QED
    BY <2>1, Joins DEF R!Owner
<1>3. R!TariffsReceiver(server.prefix)
        = R!On("tariffs", "Receiver", BaseOf("tariffs", "Receiver"), "owned", rows)
  BY Zenon, <1>1, <1>2 DEF R!TariffsReceiver, None, R!None
<1>4. R!On("tariffs", "Receiver", BaseOf("tariffs", "Receiver"), "owned", rows)
        \subseteq R!Mountable(server.prefix)
  BY Zenon, <1>3 DEF R!Mountable
<1> HIDE DEF b1, b2
<1>5. \A row \in rows : Has("tariffs", "Receiver", row[1], row[2])
  BY Zenon, <1>4, RowHas
<1>6. /\ Has("tariffs", "Receiver", "GET", b1)
      /\ Has("tariffs", "Receiver", "PUT", b1)
      /\ Has("tariffs", "Receiver", "DELETE", b2)
  BY <1>5
<1> QED
  BY Zenon, <1>6 DEF b1, b2, e

LEMMA CommandsReceiverHas ==
    /\ Has("commands", "Receiver", "POST", <<R!Id>>)
<1> DEFINE b1 == <<R!Id>>
           rows == {<<"POST", b1, "command", None, "command", "Command">>}
<1>1. BaseOf("commands", "Receiver") = <<"commands">>
  BY Zenon, BaseAlone DEF BaseOf, Words
<1>3. R!CommandsReceiver
        = R!On("commands", "Receiver", BaseOf("commands", "Receiver"), None, rows)
  BY <1>1 DEF R!CommandsReceiver, None, R!None
<1>4. R!On("commands", "Receiver", BaseOf("commands", "Receiver"), None, rows)
        \subseteq R!Mountable(server.prefix)
  BY <1>3 DEF R!Mountable
<1> HIDE DEF b1
<1>5. \A row \in rows : Has("commands", "Receiver", row[1], row[2])
  BY Zenon, <1>4, RowHas
<1>6. /\ Has("commands", "Receiver", "POST", b1)
  BY <1>5
<1> QED
  BY Zenon, <1>6 DEF b1

LEMMA CommandsSenderHas ==
    /\ Has("commands", "Sender", "POST", <<R!Id, R!Id>>)
<1> DEFINE b1 == <<R!Id, R!Id>>
           rows == {<<"POST", b1, "command_result", None, "json", "CommandResult">>}
<1>1. BaseOf("commands", "Sender") = <<"commands">>
  BY Zenon, BaseAlone DEF BaseOf, Words
<1>3. R!CommandsSender = R!On("commands", "Sender", BaseOf("commands", "Sender"), None, rows)
  BY <1>1 DEF R!CommandsSender, None, R!None
<1>4. R!On("commands", "Sender", BaseOf("commands", "Sender"), None, rows)
        \subseteq R!Mountable(server.prefix)
  BY <1>3 DEF R!Mountable
<1> HIDE DEF b1
<1>5. \A row \in rows : Has("commands", "Sender", row[1], row[2])
  BY Zenon, <1>4, RowHas
<1>6. /\ Has("commands", "Sender", "POST", b1)
  BY <1>5
<1> QED
  BY Zenon, <1>6 DEF b1

LEMMA HubClientInfoSenderHas ==
    /\ Has("hubclientinfo", "Sender", "GET", <<>>)
<1> DEFINE b1 == <<>>
           rows == {<<"GET", b1, "list", "page", None, None>>}
<1>1. BaseOf("hubclientinfo", "Sender") = <<"hubclientinfo">>
  BY Zenon, BaseAlone DEF BaseOf, Words
<1>3. R!HubClientInfoSender
        = R!On("hubclientinfo", "Sender", BaseOf("hubclientinfo", "Sender"), None, rows)
  BY <1>1 DEF R!HubClientInfoSender, None, R!None
<1>4. R!On("hubclientinfo", "Sender", BaseOf("hubclientinfo", "Sender"), None,
         rows) \subseteq R!Mountable(server.prefix)
  BY <1>3 DEF R!Mountable
<1> HIDE DEF b1
<1>5. \A row \in rows : Has("hubclientinfo", "Sender", row[1], row[2])
  BY Zenon, <1>4, RowHas
<1>6. /\ Has("hubclientinfo", "Sender", "GET", b1)
  BY <1>5
<1> QED
  BY Zenon, <1>6 DEF b1

LEMMA HubClientInfoReceiverHas ==
    /\ Has("hubclientinfo", "Receiver", "GET", <<R!Id, R!Id>>)
    /\ Has("hubclientinfo", "Receiver", "PUT", <<R!Id, R!Id>>)
<1> DEFINE b1 == <<R!Id, R!Id>>
           rows == {<<"GET", b1, "client_info", None, None, None>>,
                    <<"PUT", b1, "put_client_info", None, "json", "ClientInfo">>}
<1>1. BaseOf("hubclientinfo", "Receiver") = R!ReceiverPath(server.prefix, <<"hubclientinfo">>)
  BY Zenon, BaseAlone DEF BaseOf, Words
<1>2. b1 = R!Owner
  <2>1. R!Id \in Words
    BY DEF Words
  <2> QED
    BY <2>1, Joins DEF R!Owner
<1>3. R!HubClientInfoReceiver(server.prefix)
        = R!On("hubclientinfo", "Receiver", BaseOf("hubclientinfo", "Receiver"), "named", rows)
  BY <1>1, <1>2 DEF R!HubClientInfoReceiver, None, R!None
<1>4. R!On("hubclientinfo", "Receiver", BaseOf("hubclientinfo", "Receiver"), "named",
         rows) \subseteq R!Mountable(server.prefix)
  BY <1>3 DEF R!Mountable
<1> HIDE DEF b1
<1>5. \A row \in rows : Has("hubclientinfo", "Receiver", row[1], row[2])
  BY Zenon, <1>4, RowHas
<1>6. /\ Has("hubclientinfo", "Receiver", "GET", b1)
      /\ Has("hubclientinfo", "Receiver", "PUT", b1)
  BY <1>5
<1> QED
  BY Zenon, <1>6 DEF b1

LEMMA ChargingProfilesReceiverHas ==
    /\ Has("chargingprofiles", "Receiver", "GET", <<R!Id>>)
    /\ Has("chargingprofiles", "Receiver", "PUT", <<R!Id>>)
    /\ Has("chargingprofiles", "Receiver", "DELETE", <<R!Id>>)
<1> DEFINE b1 == <<R!Id>>
           rows == {<<"GET", b1, "active_charging_profile", "profile", None, None>>,
                    <<"PUT", b1, "set_charging_profile", None, "json", "SetChargingProfile">>,
                    <<"DELETE", b1, "clear_charging_profile", "profile", None, None>>}
<1>1. BaseOf("chargingprofiles", "Receiver") = R!ReceiverPath(server.prefix,
         <<"chargingprofiles">>)
  BY Zenon, BaseAlone DEF BaseOf, Words
<1>3. R!ChargingProfilesReceiver(server.prefix)
        = R!On("chargingprofiles", "Receiver", BaseOf("chargingprofiles", "Receiver"), None,
           rows)
  BY <1>1 DEF R!ChargingProfilesReceiver, None, R!None
<1>4. R!On("chargingprofiles", "Receiver", BaseOf("chargingprofiles", "Receiver"), None,
         rows) \subseteq R!Mountable(server.prefix)
  BY <1>3 DEF R!Mountable
<1> HIDE DEF b1
<1>5. \A row \in rows : Has("chargingprofiles", "Receiver", row[1], row[2])
  BY Zenon, <1>4, RowHas
<1>6. /\ Has("chargingprofiles", "Receiver", "GET", b1)
      /\ Has("chargingprofiles", "Receiver", "PUT", b1)
      /\ Has("chargingprofiles", "Receiver", "DELETE", b1)
  BY <1>5
<1> QED
  BY Zenon, <1>6 DEF b1

LEMMA ChargingProfilesSenderHas ==
    /\ Has("chargingprofiles", "Sender", "POST", <<"result", "active", R!Id>>)
    /\ Has("chargingprofiles", "Sender", "POST", <<"result", "set", R!Id>>)
    /\ Has("chargingprofiles", "Sender", "POST", <<"result", "clear", R!Id>>)
    /\ Has("chargingprofiles", "Sender", "PUT", <<R!Id>>)
<1> DEFINE b1 == <<"result", "active", R!Id>>
           b2 == <<"result", "set", R!Id>>
           b3 == <<"result", "clear", R!Id>>
           b4 == <<R!Id>>
           rows == {<<"POST", b1, "active_charging_profile_result", None, "json",
              "ActiveChargingProfileResult">>,
                    <<"POST", b2, "charging_profile_result", None, "json",
                       "ChargingProfileResult">>,
                    <<"POST", b3, "clear_profile_result", None, "json", "ClearProfileResult">>,
                    <<"PUT", b4, "put_active_charging_profile", None, "json",
                       "ActiveChargingProfile">>}
<1>1. BaseOf("chargingprofiles", "Sender") = <<"chargingprofiles">>
  BY Zenon, BaseAlone DEF BaseOf, Words
<1>3. R!ChargingProfilesSender
        = R!On("chargingprofiles", "Sender", BaseOf("chargingprofiles", "Sender"), None, rows)
  BY <1>1 DEF R!ChargingProfilesSender, None, R!None
<1>4. R!On("chargingprofiles", "Sender", BaseOf("chargingprofiles", "Sender"), None,
         rows) \subseteq R!Mountable(server.prefix)
  BY <1>3 DEF R!Mountable
<1> HIDE DEF b1, b2, b3, b4
<1>5. \A row \in rows : Has("chargingprofiles", "Sender", row[1], row[2])
  BY Zenon, <1>4, RowHas
<1>6. /\ Has("chargingprofiles", "Sender", "POST", b1)
      /\ Has("chargingprofiles", "Sender", "POST", b2)
      /\ Has("chargingprofiles", "Sender", "POST", b3)
      /\ Has("chargingprofiles", "Sender", "PUT", b4)
  BY <1>5
<1> QED
  BY Zenon, <1>6 DEF b1, b2, b3, b4

LEMMA PaymentsSenderHas ==
    /\ Has("payments", "Sender", "GET", <<"terminals">>)
    /\ Has("payments", "Sender", "POST", <<"terminals", "activate">>)
    /\ Has("payments", "Sender", "GET", <<"terminals", R!Id>>)
    /\ Has("payments", "Sender", "PUT", <<"terminals", R!Id>>)
    /\ Has("payments", "Sender", "PATCH", <<"terminals", R!Id>>)
    /\ Has("payments", "Sender", "POST", <<"terminals", R!Id, "deactivate">>)
    /\ Has("payments", "Sender", "GET", <<"financial-advice-confirmations">>)
    /\ Has("payments", "Sender", "GET", <<"financial-advice-confirmations", R!Id>>)
<1> DEFINE b1 == <<"terminals">>
           b2 == <<"terminals", "activate">>
           b3 == <<"terminals", R!Id>>
           b4 == <<"terminals", R!Id, "deactivate">>
           b5 == <<"financial-advice-confirmations">>
           b6 == <<"financial-advice-confirmations", R!Id>>
           rows == {<<"GET", b1, "terminals", "page", None, None>>,
                    <<"POST", b2, "activate_terminal", None, "partial", "Terminal">>,
                    <<"GET", b3, "terminal", None, None, None>>,
                    <<"PUT", b3, "put_terminal", None, "json", "Terminal">>,
                    <<"PATCH", b3, "patch_terminal", None, "patch", "Terminal">>,
                    <<"POST", b4, "deactivate_terminal", None, None, None>>,
                    <<"GET", b5, "financial_advice_confirmations", "page", None, None>>,
                    <<"GET", b6, "financial_advice_confirmation", None, None, None>>}
<1>1. BaseOf("payments", "Sender") = <<"payments">>
  BY Zenon, BaseAlone DEF BaseOf, Words
<1>2. b2 = R!Terminals \o <<"activate">> /\ b3 = R!Terminals \o <<R!Id>>
          /\ b4 = R!Terminals \o <<R!Id, "deactivate">> /\ b6 = R!Confirmations \o <<R!Id>>
  <2>1. "activate" \in Words /\ "deactivate" \in Words
            /\ "financial-advice-confirmations" \in Words /\ "terminals" \in Words
              /\ R!Id \in Words
    BY DEF Words
  <2> QED
    BY <2>1, Joins DEF R!Terminals, R!Confirmations
<1>3. R!PaymentsSender = R!On("payments", "Sender", BaseOf("payments", "Sender"), None, rows)
  BY Zenon, <1>1, <1>2 DEF R!PaymentsSender, None, R!None, R!Terminals, R!Confirmations
<1>4. R!On("payments", "Sender", BaseOf("payments", "Sender"), None, rows)
        \subseteq R!Mountable(server.prefix)
  BY <1>3 DEF R!Mountable
<1> HIDE DEF b1, b2, b3, b4, b5, b6
<1>5. \A row \in rows : Has("payments", "Sender", row[1], row[2])
  BY Zenon, <1>4, RowHas
<1>6. /\ Has("payments", "Sender", "GET", b1)
      /\ Has("payments", "Sender", "POST", b2)
      /\ Has("payments", "Sender", "GET", b3)
      /\ Has("payments", "Sender", "PUT", b3)
      /\ Has("payments", "Sender", "PATCH", b3)
      /\ Has("payments", "Sender", "POST", b4)
      /\ Has("payments", "Sender", "GET", b5)
      /\ Has("payments", "Sender", "GET", b6)
  BY <1>5
<1> QED
  BY Zenon, <1>6 DEF b1, b2, b3, b4, b5, b6

LEMMA PaymentsReceiverHas ==
    /\ Has("payments", "Receiver", "POST", <<"terminals">>)
    /\ Has("payments", "Receiver", "GET", <<"terminals", R!Id>>)
    /\ Has("payments", "Receiver", "POST", <<"financial-advice-confirmations">>)
    /\ Has("payments", "Receiver", "GET", <<"financial-advice-confirmations", R!Id>>)
<1> DEFINE b1 == <<"terminals">>
           b2 == <<"terminals", R!Id>>
           b3 == <<"financial-advice-confirmations">>
           b4 == <<"financial-advice-confirmations", R!Id>>
           rows == {<<"POST", b1, "post_terminal", None, "json", "Terminal">>,
                    <<"GET", b2, "terminal", None, None, None>>,
                    <<"POST", b3, "post_financial_advice_confirmation", None, "json",
                       "FinancialAdviceConfirmation">>,
                    <<"GET", b4, "financial_advice_confirmation", None, None, None>>}
<1>1. BaseOf("payments", "Receiver") = R!ReceiverPath(server.prefix, <<"payments">>)
  BY Zenon, BaseAlone DEF BaseOf, Words
<1>2. b2 = R!Terminals \o <<R!Id>> /\ b4 = R!Confirmations \o <<R!Id>>
  <2>1. "financial-advice-confirmations" \in Words /\ "terminals" \in Words /\ R!Id \in Words
    BY DEF Words
  <2> QED
    BY <2>1, Joins DEF R!Terminals, R!Confirmations
<1>3. R!PaymentsReceiver(server.prefix)
        = R!On("payments", "Receiver", BaseOf("payments", "Receiver"), None, rows)
  BY Zenon, <1>1, <1>2 DEF R!PaymentsReceiver, None, R!None, R!Terminals, R!Confirmations
<1>4. R!On("payments", "Receiver", BaseOf("payments", "Receiver"), None, rows)
        \subseteq R!Mountable(server.prefix)
  BY <1>3 DEF R!Mountable
<1> HIDE DEF b1, b2, b3, b4
<1>5. \A row \in rows : Has("payments", "Receiver", row[1], row[2])
  BY Zenon, <1>4, RowHas
<1>6. /\ Has("payments", "Receiver", "POST", b1)
      /\ Has("payments", "Receiver", "GET", b2)
      /\ Has("payments", "Receiver", "POST", b3)
      /\ Has("payments", "Receiver", "GET", b4)
  BY <1>5
<1> QED
  BY Zenon, <1>6 DEF b1, b2, b3, b4
(* What the routes of a module are below their base.                         *)
Patterns ==
    [credentials |-> {<<>>},
     locations |-> {<<>>, <<R!Id>>, <<R!Id, R!Id>>, <<R!Id, R!Id, R!Id>>,
                    <<R!Id, R!Id, R!Id, R!Id>>},
     tokens |-> {<<>>, <<R!Id, "authorize">>, <<R!Id, R!Id, R!Id>>},
     cdrs |-> {<<>>, <<R!Id>>},
     sessions |-> {<<>>, <<R!Id, "charging_preferences">>, <<R!Id, R!Id, R!Id>>},
     tariffs |-> {<<>>, <<R!Id, R!Id, R!Id>>, <<R!Id, R!Id, R!Id, "">>},
     commands |-> {<<R!Id>>, <<R!Id, R!Id>>},
     hubclientinfo |-> {<<>>, <<R!Id, R!Id>>},
     chargingprofiles |-> {<<R!Id>>, <<"result", "active", R!Id>>, <<"result", "set", R!Id>>,
                           <<"result", "clear", R!Id>>},
     payments |-> {<<"terminals">>, <<"terminals", "activate">>, <<"terminals", R!Id>>,
                   <<"terminals", R!Id, "deactivate">>, <<"financial-advice-confirmations">>,
                   <<"financial-advice-confirmations", R!Id>>}]

LEMMA PatternsAre ==
    /\ Patterns["credentials"] = {<<>>}
    /\ Patterns["locations"] = {<<>>, <<R!Id>>, <<R!Id, R!Id>>, <<R!Id, R!Id, R!Id>>,
                                <<R!Id, R!Id, R!Id, R!Id>>}
    /\ Patterns["tokens"] = {<<>>, <<R!Id, "authorize">>, <<R!Id, R!Id, R!Id>>}
    /\ Patterns["cdrs"] = {<<>>, <<R!Id>>}
    /\ Patterns["sessions"] = {<<>>, <<R!Id, "charging_preferences">>, <<R!Id, R!Id, R!Id>>}
    /\ Patterns["tariffs"] = {<<>>, <<R!Id, R!Id, R!Id>>, <<R!Id, R!Id, R!Id, "">>}
    /\ Patterns["commands"] = {<<R!Id>>, <<R!Id, R!Id>>}
    /\ Patterns["hubclientinfo"] = {<<>>, <<R!Id, R!Id>>}
    /\ Patterns["chargingprofiles"] = {<<R!Id>>, <<"result", "active", R!Id>>,
                                       <<"result", "set", R!Id>>, <<"result", "clear", R!Id>>}
    /\ Patterns["payments"] = {<<"terminals">>, <<"terminals", "activate">>,
                               <<"terminals", R!Id>>, <<"terminals", R!Id, "deactivate">>,
                               <<"financial-advice-confirmations">>,
                               <<"financial-advice-confirmations", R!Id>>}
BY DEF Patterns

(* Each is a sequence of segments.                                          *)
LEMMA PatternsAreWords ==
    ASSUME NEW m \in ModuleNames
    PROVE  Patterns[m] \subseteq Seq(Words)
<1>1. /\ R!Id \in Words /\ "" \in Words /\ "authorize" \in Words
        /\ "charging_preferences" \in Words
      /\ "result" \in Words /\ "active" \in Words /\ "set" \in Words /\ "clear" \in Words
      /\ "terminals" \in Words /\ "activate" \in Words /\ "deactivate" \in Words
      /\ "financial-advice-confirmations" \in Words
  BY DEF Words
<1>2. Patterns["credentials"] \subseteq Seq(Words)
  <2>1. /\ <<>> \in Seq(Words)
    BY ONLY Zenon, <1>1, LengthsOfRows
  <2> QED
    BY Zenon, <2>1, PatternsAre
<1>3. Patterns["locations"] \subseteq Seq(Words)
  <2>1. /\ <<>> \in Seq(Words)
        /\ <<R!Id>> \in Seq(Words)
        /\ <<R!Id, R!Id>> \in Seq(Words)
        /\ <<R!Id, R!Id, R!Id>> \in Seq(Words)
        /\ <<R!Id, R!Id, R!Id, R!Id>> \in Seq(Words)
    BY ONLY Zenon, <1>1, LengthsOfRows
  <2> QED
    BY Zenon, <2>1, PatternsAre
<1>4. Patterns["tokens"] \subseteq Seq(Words)
  <2>1. /\ <<>> \in Seq(Words)
        /\ <<R!Id, "authorize">> \in Seq(Words)
        /\ <<R!Id, R!Id, R!Id>> \in Seq(Words)
    BY ONLY Zenon, <1>1, LengthsOfRows
  <2> QED
    BY Zenon, <2>1, PatternsAre
<1>5. Patterns["cdrs"] \subseteq Seq(Words)
  <2>1. /\ <<>> \in Seq(Words)
        /\ <<R!Id>> \in Seq(Words)
    BY ONLY Zenon, <1>1, LengthsOfRows
  <2> QED
    BY Zenon, <2>1, PatternsAre
<1>6. Patterns["sessions"] \subseteq Seq(Words)
  <2>1. /\ <<>> \in Seq(Words)
        /\ <<R!Id, "charging_preferences">> \in Seq(Words)
        /\ <<R!Id, R!Id, R!Id>> \in Seq(Words)
    BY ONLY Zenon, <1>1, LengthsOfRows
  <2> QED
    BY Zenon, <2>1, PatternsAre
<1>7. Patterns["tariffs"] \subseteq Seq(Words)
  <2>1. /\ <<>> \in Seq(Words)
        /\ <<R!Id, R!Id, R!Id>> \in Seq(Words)
        /\ <<R!Id, R!Id, R!Id, "">> \in Seq(Words)
    BY ONLY Zenon, <1>1, LengthsOfRows
  <2> QED
    BY Zenon, <2>1, PatternsAre
<1>8. Patterns["commands"] \subseteq Seq(Words)
  <2>1. /\ <<R!Id>> \in Seq(Words)
        /\ <<R!Id, R!Id>> \in Seq(Words)
    BY ONLY Zenon, <1>1, LengthsOfRows
  <2> QED
    BY Zenon, <2>1, PatternsAre
<1>9. Patterns["hubclientinfo"] \subseteq Seq(Words)
  <2>1. /\ <<>> \in Seq(Words)
        /\ <<R!Id, R!Id>> \in Seq(Words)
    BY ONLY Zenon, <1>1, LengthsOfRows
  <2> QED
    BY Zenon, <2>1, PatternsAre
<1>10. Patterns["chargingprofiles"] \subseteq Seq(Words)
  <2>1. /\ <<R!Id>> \in Seq(Words)
        /\ <<"result", "active", R!Id>> \in Seq(Words)
        /\ <<"result", "set", R!Id>> \in Seq(Words)
        /\ <<"result", "clear", R!Id>> \in Seq(Words)
    BY ONLY Zenon, <1>1, LengthsOfRows
  <2> QED
    BY Zenon, <2>1, PatternsAre
<1>11. Patterns["payments"] \subseteq Seq(Words)
  <2>1. /\ <<"terminals">> \in Seq(Words)
        /\ <<"terminals", "activate">> \in Seq(Words)
        /\ <<"terminals", R!Id>> \in Seq(Words)
        /\ <<"terminals", R!Id, "deactivate">> \in Seq(Words)
        /\ <<"financial-advice-confirmations">> \in Seq(Words)
        /\ <<"financial-advice-confirmations", R!Id>> \in Seq(Words)
    BY ONLY Zenon, <1>1, LengthsOfRows
  <2> QED
    BY Zenon, <2>1, PatternsAre
<1> QED
  BY <1>2, <1>3, <1>4, <1>5, <1>6, <1>7, <1>8, <1>9, <1>10, <1>11 DEF ModuleNames

(* Every route but the version endpoints is its base and one of them.        *)
Formed(q) ==
    /\ q.module \in ModuleNames /\ q.role \in Interfaces
    /\ \E below \in Patterns[q.module] : q.path = BaseOf(q.module, q.role) \o below

LEMMA RoutesAreFormed ==
    ASSUME NEW q \in R!Mountable(server.prefix)
    PROVE  Formed(q)
<1>0. /\ {"credentials", "locations", "tokens", "cdrs", "sessions", "tariffs", "commands",
          "hubclientinfo", "chargingprofiles", "payments"} \subseteq ModuleNames
      /\ "Sender" \in Interfaces /\ "Receiver" \in Interfaces
  BY DEF ModuleNames, Interfaces
<1>1. \/ q \in R!Credentials
      \/ q \in R!LocationsSender
      \/ q \in R!LocationsReceiver(server.prefix)
      \/ q \in R!TokensSender
      \/ q \in R!TokensReceiver(server.prefix)
      \/ q \in R!CdrsSender
      \/ q \in R!CdrsReceiver(server.prefix)
      \/ q \in R!SessionsSender
      \/ q \in R!SessionsReceiver(server.prefix)
      \/ q \in R!TariffsSender
      \/ q \in R!TariffsReceiver(server.prefix)
      \/ q \in R!CommandsReceiver
      \/ q \in R!CommandsSender
      \/ q \in R!HubClientInfoSender
      \/ q \in R!HubClientInfoReceiver(server.prefix)
      \/ q \in R!ChargingProfilesReceiver(server.prefix)
      \/ q \in R!ChargingProfilesSender
      \/ q \in R!PaymentsSender
      \/ q \in R!PaymentsReceiver(server.prefix)
  BY DEF R!Mountable
<1>2. CASE q \in R!Credentials
  BY Zenon, <1>0, <1>2, CredentialsRows, PatternsAre DEF Row, Formed
<1>3. CASE q \in R!LocationsSender
  BY Zenon, <1>0, <1>3, LocationsSenderRows, PatternsAre DEF Row, Formed
<1>4. CASE q \in R!LocationsReceiver(server.prefix)
  BY Zenon, <1>0, <1>4, LocationsReceiverRows, PatternsAre DEF Row, Formed
<1>5. CASE q \in R!TokensSender
  BY Zenon, <1>0, <1>5, TokensSenderRows, PatternsAre DEF Row, Formed
<1>6. CASE q \in R!TokensReceiver(server.prefix)
  BY Zenon, <1>0, <1>6, TokensReceiverRows, PatternsAre DEF Row, Formed
<1>7. CASE q \in R!CdrsSender
  BY Zenon, <1>0, <1>7, CdrsSenderRows, PatternsAre DEF Row, Formed
<1>8. CASE q \in R!CdrsReceiver(server.prefix)
  BY Zenon, <1>0, <1>8, CdrsReceiverRows, PatternsAre DEF Row, Formed
<1>9. CASE q \in R!SessionsSender
  BY Zenon, <1>0, <1>9, SessionsSenderRows, PatternsAre DEF Row, Formed
<1>10. CASE q \in R!SessionsReceiver(server.prefix)
  BY Zenon, <1>0, <1>10, SessionsReceiverRows, PatternsAre DEF Row, Formed
<1>11. CASE q \in R!TariffsSender
  BY Zenon, <1>0, <1>11, TariffsSenderRows, PatternsAre DEF Row, Formed
<1>12. CASE q \in R!TariffsReceiver(server.prefix)
  BY Zenon, <1>0, <1>12, TariffsReceiverRows, PatternsAre DEF Row, Formed
<1>13. CASE q \in R!CommandsReceiver
  BY Zenon, <1>0, <1>13, CommandsReceiverRows, PatternsAre DEF Row, Formed
<1>14. CASE q \in R!CommandsSender
  BY Zenon, <1>0, <1>14, CommandsSenderRows, PatternsAre DEF Row, Formed
<1>15. CASE q \in R!HubClientInfoSender
  BY Zenon, <1>0, <1>15, HubClientInfoSenderRows, PatternsAre DEF Row, Formed
<1>16. CASE q \in R!HubClientInfoReceiver(server.prefix)
  BY Zenon, <1>0, <1>16, HubClientInfoReceiverRows, PatternsAre DEF Row, Formed
<1>17. CASE q \in R!ChargingProfilesReceiver(server.prefix)
  BY Zenon, <1>0, <1>17, ChargingProfilesReceiverRows, PatternsAre DEF Row, Formed
<1>18. CASE q \in R!ChargingProfilesSender
  BY Zenon, <1>0, <1>18, ChargingProfilesSenderRows, PatternsAre DEF Row, Formed
<1>19. CASE q \in R!PaymentsSender
  BY Zenon, <1>0, <1>19, PaymentsSenderRows, PatternsAre DEF Row, Formed
<1>20. CASE q \in R!PaymentsReceiver(server.prefix)
  BY Zenon, <1>0, <1>20, PaymentsReceiverRows, PatternsAre DEF Row, Formed
<1> QED
  BY Zenon, <1>1, <1>2, <1>3, <1>4, <1>5, <1>6, <1>7, <1>8, <1>9, <1>10, <1>11, <1>12, <1>13,
     <1>14, <1>15, <1>16, <1>17, <1>18, <1>19, <1>20

(* A route a request fits starts where the request does.                    *)
Reached(r, q) ==
    /\ q.module = r.call.module
    /\ \E below \in Patterns[r.call.module] :
          q.path = From(r) \o below /\ R!Fits(below, Below(r))

LEMMA FittingIsReached ==
    ASSUME server \in Servers, NEW r \in Requests, NEW q \in Routes, R!Fits(q.path, Path(r))
    PROVE  Reached(r, q)
<1> DEFINE m == q.module
           role == q.role
<1>1. q \notin R!Versions
  BY NoVersions
<1>2. q \in R!Mountable(server.prefix) /\ <<m, role>> \in server.mounted
  BY <1>1, MountedIs
<1>3. PICK below \in Patterns[m] : q.path = BaseOf(m, role) \o below
  BY <1>2, RoutesAreFormed DEF Formed
<1>4. m \in ModuleNames /\ role \in Interfaces /\ below \in Seq(Words)
  BY <1>2, <1>3, RoutesAreFormed, PatternsAreWords DEF Formed
<1>5. R!Fits(BaseOf(m, role) \o below, Path(r))
  BY <1>3
<1> HIDE DEF m, role
<1>6. m = r.call.module /\ R!Fits(below, Below(r)) /\ BaseOf(m, role) = From(r)
  BY <1>2, <1>4, <1>5, Found
<1> QED
  BY <1>3, <1>6 DEF m, role, Reached

(* A pattern a request is aimed at: it fits, there is a route of it with the *)
(* request's method, and any other that fits loses to it.                   *)
Aimed(r, below) ==
    LET m == r.call.module
    IN  /\ below \in Patterns[m] /\ R!Fits(below, Below(r))
        /\ Has(m, r.call.role, r.call.method, below)
        /\ \A b \in Patterns[m] :
              R!Fits(b, Below(r)) => b = below \/ R!Beats(From(r) \o below, From(r) \o b)

(* A request that is matched to a route of its method.                      *)
Lands(r) == \E q \in R!AtPath(Routes, Path(r)) : q.method = r.call.method

(* What fits below a base fits under it.                                    *)
LEMMA FitsUnder ==
    ASSUME NEW S, NEW base \in Seq(S), NEW pattern \in Seq(S), NEW path \in Seq(S),
           R!Fits(pattern, path)
    PROVE  R!Fits(base \o pattern, base \o path)
<1> DEFINE n == Len(base)
           p == base \o pattern
           q == base \o path
           k == Len(path)
<1>0. Len(pattern) = k /\ \A i \in DOMAIN path : pattern[i] = path[i] \/ (pattern[i] = R!Id
          /\ path[i] # "")
  BY Zenon DEF R!Fits
<1>1. n \in Nat /\ k \in Nat /\ Len(p) = n + Len(pattern) /\ Len(q) = n + k
      /\ DOMAIN q = 1..(n + k) /\ DOMAIN path = 1..k
  OBVIOUS
<1>2. (\A i \in 1..n : p[i] = base[i] /\ q[i] = base[i])
      /\ (\A i \in 1..k : q[n + i] = path[i])
  OBVIOUS
<1>3. \A i \in 1..Len(pattern) : p[n + i] = pattern[i]
  OBVIOUS
<1> HIDE DEF n, p, q, k
<1>4. ASSUME NEW i \in 1..(n + k) PROVE p[i] = q[i] \/ (p[i] = R!Id /\ q[i] # "")
  <2>1. CASE i \in 1..n
    BY Zenon, <1>2, <2>1
  <2>2. CASE i \notin 1..n
    <3>1. i - n \in 1..k /\ n + (i - n) = i
      BY ONLY <1>1, <2>2, i \in 1..(n + k)
    <3>2. p[n + (i - n)] = pattern[i - n] /\ q[n + (i - n)] = path[i - n]
      BY Zenon, <1>0, <1>2, <1>3, <3>1
    <3> QED
      BY Zenon, <1>0, <1>1, <3>1, <3>2
  <2> QED
    BY Zenon, <2>1, <2>2
<1>5. Len(p) = Len(q)
  BY Zenon, <1>0, <1>1
<1> QED
  BY Zenon, <1>1, <1>4, <1>5 DEF R!Fits, p, q

LEMMA AimedLands ==
    ASSUME server \in Servers, NEW r \in Requests, NEW below, Aimed(r, below),
           From(r) = BaseOf(r.call.module, r.call.role)
    PROVE  Lands(r)
<1> DEFINE m == r.call.module
           from == From(r)
<1>1. Proper(r.call) /\ r.party \in {"own", "other", "bad"}
        /\ <<m, r.call.role>> \in server.mounted
  BY Zenon, RequestIs, CallsAreProper
<1>2. Path(r) = from \o Below(r) /\ Below(r) \in Seq(Words) /\ from \in Seq(Words)
  BY <1>1, PathIs
<1>3. below \in Seq(Words)
  BY <1>1, PatternsAreWords DEF Aimed, Proper
<1>4. PICK q \in R!Mountable(server.prefix) :
         q.module = m /\ q.role = r.call.role /\ q.method = r.call.method
           /\ q.path = from \o below
  BY DEF Aimed, Has
<1>5. q \in Routes
  BY <1>1, <1>4 DEF Routes, R!RoutesServed
<1>6. R!Fits(q.path, Path(r))
  BY <1>2, <1>3, <1>4, FitsUnder DEF Aimed
<1>7. ASSUME NEW p \in Routes, R!Fits(p.path, Path(r))
      PROVE  p.path = q.path \/ R!Beats(q.path, p.path)
  <2>1. PICK b \in Patterns[m] : p.path = from \o b /\ R!Fits(b, Below(r))
    BY <1>7, FittingIsReached DEF Reached
  <2>2. b = below \/ R!Beats(from \o below, from \o b)
    BY <2>1 DEF Aimed
  <2> QED
    BY Zenon, <1>4, <2>1, <2>2
<1>8. q \in R!AtPath(Routes, Path(r))
  BY Zenon, <1>5, <1>6, <1>7 DEF R!AtPath
<1> QED
  BY <1>4, <1>8 DEF Lands

LEMMA KitIsWhole ==
    ASSUME NEW r \in Requests, r.kit
    PROVE  /\ Below(r) \in Seq(Words)
           /\ \A i \in DOMAIN Below(r) : Below(r)[i] # ""
<1>1. Proper(r.call) /\ r.party \in {"own", "other", "bad"} /\ r.call \in C!AllCalls
  BY Zenon, RequestIs, CallsAreProper
<1>2. r.call.under # "" /\ Whole(r.call)
  BY Zenon, <1>1, CallsAreWhole, KitCallsAreWhole
<1>3. \A i \in DOMAIN r.call.sub : r.call.sub[i] # ""
  BY Zenon, <1>2 DEF Whole
<1> QED
  BY Zenon, <1>1, <1>2, <1>3, BelowWhole, BelowIs

LEMMA PlacesAre ==
    ASSUME NEW S, NEW x \in Seq(S), NEW n, Len(x) = n
    PROVE  DOMAIN x = 1..n
  OBVIOUS

(* Captures fit any segments that are not empty.                            *)
LEMMA CapturesFit ==
    ASSUME NEW n \in 0..4, NEW pattern \in Seq(Words), Len(pattern) = n,
           \A i \in 1..n : pattern[i] = R!Id,
           NEW x \in Seq(Words), Len(x) = n, \A i \in DOMAIN x : x[i] # ""
    PROVE  R!Fits(pattern, x)
<1>1. DOMAIN x = 1..n
  BY Zenon, PlacesAre
<1> QED
  BY Zenon, <1>1 DEF R!Fits

(* Where no two patterns have as many segments.                             *)
Spaced ==
    {"credentials", "locations", "tokens", "cdrs", "sessions", "tariffs", "commands",
     "hubclientinfo"}

LEMMA SpacedApart ==
    ASSUME NEW m \in Spaced, NEW b \in Patterns[m], NEW d \in Patterns[m], Len(b) = Len(d)
    PROVE  b = d
<1> DEFINE e == ""
           size(s) == Len(s)
<1>1. e \in Words /\ R!Id \in Words /\ "authorize" \in Words /\ "charging_preferences" \in Words
  BY Zenon DEF Words
<1>2. CASE m = "credentials"
  <2> DEFINE p1 == <<>>
  <2>1. Patterns[m] = {p1}
    BY Zenon, <1>2, PatternsAre
  <2> HIDE DEF e
  <2>2. size(p1) = 0
    BY ONLY <1>1, LengthsOfRows
  <2> HIDE DEF p1
  <2>3. size(b) = size(d)
    OBVIOUS
  <2> HIDE DEF size
  <2> QED
    BY ONLY <2>1, <2>2, <2>3, b \in Patterns[m], d \in Patterns[m]
<1>3. CASE m = "locations"
  <2> DEFINE p1 == <<>>
             p2 == <<R!Id>>
             p3 == <<R!Id, R!Id>>
             p4 == <<R!Id, R!Id, R!Id>>
             p5 == <<R!Id, R!Id, R!Id, R!Id>>
  <2>1. Patterns[m] = {p1, p2, p3, p4, p5}
    BY Zenon, <1>3, PatternsAre
  <2> HIDE DEF e
  <2>2. size(p1) = 0 /\ size(p2) = 1 /\ size(p3) = 2 /\ size(p4) = 3 /\ size(p5) = 4
    BY ONLY <1>1, LengthsOfRows
  <2> HIDE DEF p1, p2, p3, p4, p5
  <2>3. size(b) = size(d)
    OBVIOUS
  <2> HIDE DEF size
  <2> QED
    BY ONLY <2>1, <2>2, <2>3, b \in Patterns[m], d \in Patterns[m]
<1>4. CASE m = "tokens"
  <2> DEFINE p1 == <<>>
             p2 == <<R!Id, "authorize">>
             p3 == <<R!Id, R!Id, R!Id>>
  <2>1. Patterns[m] = {p1, p2, p3}
    BY Zenon, <1>4, PatternsAre
  <2> HIDE DEF e
  <2>2. size(p1) = 0 /\ size(p2) = 2 /\ size(p3) = 3
    BY ONLY <1>1, LengthsOfRows
  <2> HIDE DEF p1, p2, p3
  <2>3. size(b) = size(d)
    OBVIOUS
  <2> HIDE DEF size
  <2> QED
    BY ONLY <2>1, <2>2, <2>3, b \in Patterns[m], d \in Patterns[m]
<1>5. CASE m = "cdrs"
  <2> DEFINE p1 == <<>>
             p2 == <<R!Id>>
  <2>1. Patterns[m] = {p1, p2}
    BY Zenon, <1>5, PatternsAre
  <2> HIDE DEF e
  <2>2. size(p1) = 0 /\ size(p2) = 1
    BY ONLY <1>1, LengthsOfRows
  <2> HIDE DEF p1, p2
  <2>3. size(b) = size(d)
    OBVIOUS
  <2> HIDE DEF size
  <2> QED
    BY ONLY <2>1, <2>2, <2>3, b \in Patterns[m], d \in Patterns[m]
<1>6. CASE m = "sessions"
  <2> DEFINE p1 == <<>>
             p2 == <<R!Id, "charging_preferences">>
             p3 == <<R!Id, R!Id, R!Id>>
  <2>1. Patterns[m] = {p1, p2, p3}
    BY Zenon, <1>6, PatternsAre
  <2> HIDE DEF e
  <2>2. size(p1) = 0 /\ size(p2) = 2 /\ size(p3) = 3
    BY ONLY <1>1, LengthsOfRows
  <2> HIDE DEF p1, p2, p3
  <2>3. size(b) = size(d)
    OBVIOUS
  <2> HIDE DEF size
  <2> QED
    BY ONLY <2>1, <2>2, <2>3, b \in Patterns[m], d \in Patterns[m]
<1>7. CASE m = "tariffs"
  <2> DEFINE p1 == <<>>
             p2 == <<R!Id, R!Id, R!Id>>
             p3 == <<R!Id, R!Id, R!Id, e>>
  <2>1. Patterns[m] = {p1, p2, p3}
    BY Zenon, <1>7, PatternsAre
  <2> HIDE DEF e
  <2>2. size(p1) = 0 /\ size(p2) = 3 /\ size(p3) = 4
    BY ONLY <1>1, LengthsOfRows
  <2> HIDE DEF p1, p2, p3
  <2>3. size(b) = size(d)
    OBVIOUS
  <2> HIDE DEF size
  <2> QED
    BY ONLY <2>1, <2>2, <2>3, b \in Patterns[m], d \in Patterns[m]
<1>8. CASE m = "commands"
  <2> DEFINE p1 == <<R!Id>>
             p2 == <<R!Id, R!Id>>
  <2>1. Patterns[m] = {p1, p2}
    BY Zenon, <1>8, PatternsAre
  <2> HIDE DEF e
  <2>2. size(p1) = 1 /\ size(p2) = 2
    BY ONLY <1>1, LengthsOfRows
  <2> HIDE DEF p1, p2
  <2>3. size(b) = size(d)
    OBVIOUS
  <2> HIDE DEF size
  <2> QED
    BY ONLY <2>1, <2>2, <2>3, b \in Patterns[m], d \in Patterns[m]
<1>9. CASE m = "hubclientinfo"
  <2> DEFINE p1 == <<>>
             p2 == <<R!Id, R!Id>>
  <2>1. Patterns[m] = {p1, p2}
    BY Zenon, <1>9, PatternsAre
  <2> HIDE DEF e
  <2>2. size(p1) = 0 /\ size(p2) = 2
    BY ONLY <1>1, LengthsOfRows
  <2> HIDE DEF p1, p2
  <2>3. size(b) = size(d)
    OBVIOUS
  <2> HIDE DEF size
  <2> QED
    BY ONLY <2>1, <2>2, <2>3, b \in Patterns[m], d \in Patterns[m]
<1> QED
  BY Zenon, <1>2, <1>3, <1>4, <1>5, <1>6, <1>7, <1>8, <1>9 DEF Spaced

LEMMA SpacedAimed ==
    ASSUME NEW r \in Requests, r.kit, r.call.module \in Spaced,
           NEW below \in Patterns[r.call.module], R!Fits(below, Below(r)),
           Has(r.call.module, r.call.role, r.call.method, below)
    PROVE  \E b : Aimed(r, b)
<1> DEFINE m == r.call.module
<1>1. ASSUME NEW b \in Patterns[m], R!Fits(b, Below(r)) PROVE b = below
  <2>1. Len(b) = Len(below)
    BY Zenon, <1>1 DEF R!Fits
  <2> QED
    BY Zenon, <2>1, SpacedApart
<1> QED
  BY Zenon, <1>1 DEF Aimed

(* So many captures, and nothing else.                                      *)
Captures(n) == [i \in 1..n |-> R!Id]

LEMMA CapturesAre ==
    /\ Captures(0) = <<>> /\ Captures(1) = <<R!Id>> /\ Captures(2) = <<R!Id, R!Id>>
    /\ Captures(3) = <<R!Id, R!Id, R!Id>> /\ Captures(4) = <<R!Id, R!Id, R!Id, R!Id>>
<1> DEFINE id == R!Id
<1> HIDE DEF id
<1>1. \A n \in 0..4 : Captures(n) = [i \in 1..n |-> id]
  BY DEF Captures, id
<1>2. [i \in 1..0 |-> id] = <<>>
  OBVIOUS
<1>3. [i \in 1..1 |-> id] = <<id>>
  OBVIOUS
<1>4. [i \in 1..2 |-> id] = <<id, id>>
  OBVIOUS
<1>5. [i \in 1..3 |-> id] = <<id, id, id>>
  OBVIOUS
<1>6. [i \in 1..4 |-> id] = <<id, id, id, id>>
  OBVIOUS
<1> QED
  BY <1>1, <1>2, <1>3, <1>4, <1>5, <1>6 DEF id

LEMMA CapturesAimed ==
    ASSUME NEW r \in Requests, r.kit, r.call.module \in Spaced, NEW n \in {0, 1, 2, 3, 4},
           Len(Below(r)) = n, Captures(n) \in Patterns[r.call.module],
           Has(r.call.module, r.call.role, r.call.method, Captures(n))
    PROVE  \E b : Aimed(r, b)
<1>0. n \in 0..4
  OBVIOUS
<1>1. R!Id \in Words
  BY Zenon DEF Words
<1>2. Captures(n) \in Seq(Words) /\ Len(Captures(n)) = n
  BY <1>0, <1>1 DEF Captures
<1>3. \A i \in 1..n : Captures(n)[i] = R!Id
  BY <1>0 DEF Captures
<1>4. R!Fits(Captures(n), Below(r))
  BY Zenon, <1>0, <1>2, <1>3, KitIsWhole, CapturesFit
<1> QED
  BY Zenon, <1>4, SpacedAimed

(* A static segment fits itself, a capture what is not empty.               *)
LEMMA PairsFit ==
    ASSUME NEW S, NEW a \in S, NEW b \in S, R!Id \in S
    PROVE  /\ R!Fits(<<a>>, <<a>>)
           /\ R!Fits(<<a, b>>, <<a, b>>)
           /\ b # "" => R!Fits(<<a, R!Id>>, <<a, b>>)
           /\ a # "" => R!Fits(<<R!Id, b>>, <<a, b>>)
<1> DEFINE e == ""
           id == R!Id
<1>1. ASSUME NEW x \in S, NEW y \in S
      PROVE  Len(<<x, y>>) = 2 /\ DOMAIN <<x, y>> = 1..2 /\ <<x, y>>[1] = x /\ <<x, y>>[2] = y
             /\ Len(<<x>>) = 1 /\ DOMAIN <<x>> = 1..1 /\ <<x>>[1] = x
  OBVIOUS
<1>2. \A i : (i \in 1..2 <=> i = 1 \/ i = 2) /\ (i \in 1..1 <=> i = 1)
  OBVIOUS
<1> HIDE DEF e, id
<1>3. ASSUME NEW x \in S, NEW y \in S, x = a \/ (x = id /\ a # e), y = b \/ (y = id /\ b # e)
      PROVE  R!Fits(<<x, y>>, <<a, b>>)
  <2> DEFINE p == <<x, y>>
             q == <<a, b>>
  <2>1. Len(p) = 2 /\ p[1] = x /\ p[2] = y /\ Len(q) = 2 /\ DOMAIN q = 1..2 /\ q[1] = a
          /\ q[2] = b
    BY <1>1
  <2> HIDE DEF p, q
  <2>2. ASSUME NEW i \in 1..2 PROVE p[i] = q[i] \/ (p[i] = id /\ q[i] # e)
    BY Zenon, <1>2, <1>3, <2>1
  <2>3. R!Fits(p, q)
    BY Zenon, <2>1, <2>2 DEF R!Fits, id, e
  <2> QED
    BY <2>3 DEF p, q
<1>4. R!Fits(<<a>>, <<a>>)
  <2> DEFINE q == <<a>>
  <2>1. Len(q) = 1 /\ DOMAIN q = 1..1
    BY <1>1
  <2> HIDE DEF q
  <2>2. R!Fits(q, q)
    BY Zenon DEF R!Fits
  <2> QED
    BY <2>2 DEF q
<1> QED
  BY Zenon, <1>3, <1>4 DEF e, id

(* Where the segments matter, they are these.                               *)
LEMMA PreferencesAre ==
    ASSUME NEW r \in Requests, r.call.module = "sessions",
       r.call.means = "set_charging_preferences"
    PROVE  Below(r) = <<"S1", "charging_preferences">>
<1> DEFINE c == r.call
<1>1. c \in C!AllCalls \cup OtherCalls /\ c.module = "sessions"
        /\ c.means = "set_charging_preferences"
  BY Zenon, RequestIs
<1>2. Proper(c) /\ r.party \in {"own", "other", "bad"}
  BY Zenon, <1>1, RequestIs, CallsAreProper
<1>3. c.under = None /\ ~c.names => Below(r) = c.sub
  BY Zenon, <1>2, BelowIs
<1> HIDE DEF c
<1>4. c \in C!SessionsSenderCalls
  <2>1. c \in C!SessionsSenderCalls \/ c \in C!SessionsReceiverCalls
    BY <1>1, ModulesOfCalls, CallsOfModules
  <2>2. c \in C!SessionsReceiverCalls => c.means \in {"session", "put_session", "patch_session"}
    BY Zenon, SessionsReceiverLines DEF Line
  <2> QED
    BY <1>1, <2>1, <2>2
<1>5. Append(<<"S1">>, "charging_preferences") = <<"S1", "charging_preferences">>
  <2>1. "S1" \in Words /\ "charging_preferences" \in Words
    BY DEF Words
  <2> QED
    BY Zenon, <2>1, Joins
<1>6. c.under = None /\ ~c.names /\ c.sub = <<"S1", "charging_preferences">>
  BY <1>1, <1>4, <1>5 DEF C!SessionsSenderCalls, C!E!Base, C!E!ChargingPreferences, C!E!Object,
     C!Calls, C!Bridged, C!Nothing, C!Plain, C!None, None
<1> QED
  BY <1>3, <1>6 DEF c

LEMMA RegistrationAimed ==
    ASSUME NEW r \in Requests, r.kit, r.call.module = "credentials"
    PROVE  \E b : Aimed(r, b)
<1>1. \/ Sits(r, "Sender", "POST", 0, "post", "Credentials", "Credentials", "Credentials")
      \/ Sits(r, "Sender", "PUT", 0, "put", "Credentials", "Credentials", "Credentials")
      \/ Sits(r, "Sender", "DELETE", 0, "delete", None, None, None)
  BY RegistrationSits
<1>2. r.call.module \in Spaced
  BY DEF Spaced
<1>3. ASSUME r.call.role = "Sender", r.call.method = "POST", Len(Below(r)) = 0
      PROVE  \E b : Aimed(r, b)
  <2>1. Captures(0) \in Patterns["credentials"]
          /\ Has("credentials", "Sender", "POST", Captures(0))
    BY Zenon, CapturesAre, PatternsAre, CredentialsHas
  <2> QED
    BY Zenon, <1>2, <1>3, <2>1, CapturesAimed
<1>4. ASSUME r.call.role = "Sender", r.call.method = "PUT", Len(Below(r)) = 0
      PROVE  \E b : Aimed(r, b)
  <2>1. Captures(0) \in Patterns["credentials"]
          /\ Has("credentials", "Sender", "PUT", Captures(0))
    BY Zenon, CapturesAre, PatternsAre, CredentialsHas
  <2> QED
    BY Zenon, <1>2, <1>4, <2>1, CapturesAimed
<1>5. ASSUME r.call.role = "Sender", r.call.method = "DELETE", Len(Below(r)) = 0
      PROVE  \E b : Aimed(r, b)
  <2>1. Captures(0) \in Patterns["credentials"]
          /\ Has("credentials", "Sender", "DELETE", Captures(0))
    BY Zenon, CapturesAre, PatternsAre, CredentialsHas
  <2> QED
    BY Zenon, <1>2, <1>5, <2>1, CapturesAimed
<1> QED
  BY <1>1, <1>3, <1>4, <1>5 DEF Sits

LEMMA LocationsAimed ==
    ASSUME NEW r \in Requests, r.kit, r.call.module = "locations",
           ~(r.call.means = "patch" /\ Len(r.call.sub) > 1)
    PROVE  \E b : Aimed(r, b)
<1>1. \/ Sits(r, "Sender", "GET", 0, "list", None, "Location", "Location")
      \/ Sits(r, "Sender", "GET", 1, "location", None, "Location", "Location")
      \/ Sits(r, "Sender", "GET", 2, "evse", None, "Evse", "Evse")
      \/ Sits(r, "Sender", "GET", 3, "connector", None, "Connector", "Connector")
      \/ Sits(r, "Receiver", "PUT", 3, "put_location", "Location", None, None)
      \/ Sits(r, "Receiver", "PUT", 4, "put_evse", "Evse", None, None)
      \/ Sits(r, "Receiver", "PATCH", 3, "patch", "Location", None, None)
      \/ Sits(r, "Receiver", "PATCH", 4, "patch", "Evse", None, None)
      \/ Sits(r, "Receiver", "PATCH", 5, "patch", "Connector", None, None)
  BY LocationsSits
<1>2. r.call.module \in Spaced
  BY DEF Spaced
<1>3. ASSUME r.call.role = "Sender", r.call.method = "GET", Len(Below(r)) = 0
      PROVE  \E b : Aimed(r, b)
  <2>1. Captures(0) \in Patterns["locations"] /\ Has("locations", "Sender", "GET", Captures(0))
    BY Zenon, CapturesAre, PatternsAre, LocationsSenderHas
  <2> QED
    BY Zenon, <1>2, <1>3, <2>1, CapturesAimed
<1>4. ASSUME r.call.role = "Sender", r.call.method = "GET", Len(Below(r)) = 1
      PROVE  \E b : Aimed(r, b)
  <2>1. Captures(1) \in Patterns["locations"] /\ Has("locations", "Sender", "GET", Captures(1))
    BY Zenon, CapturesAre, PatternsAre, LocationsSenderHas
  <2> QED
    BY Zenon, <1>2, <1>4, <2>1, CapturesAimed
<1>5. ASSUME r.call.role = "Sender", r.call.method = "GET", Len(Below(r)) = 2
      PROVE  \E b : Aimed(r, b)
  <2>1. Captures(2) \in Patterns["locations"] /\ Has("locations", "Sender", "GET", Captures(2))
    BY Zenon, CapturesAre, PatternsAre, LocationsSenderHas
  <2> QED
    BY Zenon, <1>2, <1>5, <2>1, CapturesAimed
<1>6. ASSUME r.call.role = "Sender", r.call.method = "GET", Len(Below(r)) = 3
      PROVE  \E b : Aimed(r, b)
  <2>1. Captures(3) \in Patterns["locations"] /\ Has("locations", "Sender", "GET", Captures(3))
    BY Zenon, CapturesAre, PatternsAre, LocationsSenderHas
  <2> QED
    BY Zenon, <1>2, <1>6, <2>1, CapturesAimed
<1>7. ASSUME r.call.role = "Receiver", r.call.method = "PUT", Len(Below(r)) = 3
      PROVE  \E b : Aimed(r, b)
  <2>1. Captures(3) \in Patterns["locations"]
          /\ Has("locations", "Receiver", "PUT", Captures(3))
    BY Zenon, CapturesAre, PatternsAre, LocationsReceiverHas
  <2> QED
    BY Zenon, <1>2, <1>7, <2>1, CapturesAimed
<1>8. ASSUME r.call.role = "Receiver", r.call.method = "PUT", Len(Below(r)) = 4
      PROVE  \E b : Aimed(r, b)
  <2>1. Captures(4) \in Patterns["locations"]
          /\ Has("locations", "Receiver", "PUT", Captures(4))
    BY Zenon, CapturesAre, PatternsAre, LocationsReceiverHas
  <2> QED
    BY Zenon, <1>2, <1>8, <2>1, CapturesAimed
<1>9. ASSUME r.call.role = "Receiver", r.call.method = "PATCH", Len(Below(r)) = 3
      PROVE  \E b : Aimed(r, b)
  <2>1. Captures(3) \in Patterns["locations"]
          /\ Has("locations", "Receiver", "PATCH", Captures(3))
    BY Zenon, CapturesAre, PatternsAre, LocationsReceiverHas
  <2> QED
    BY Zenon, <1>2, <1>9, <2>1, CapturesAimed
<1>10. ~Sits(r, "Receiver", "PATCH", 4, "patch", "Evse", None, None)
      /\ ~Sits(r, "Receiver", "PATCH", 5, "patch", "Connector", None, None)
  <2>1. Proper(r.call) /\ r.party \in {"own", "other", "bad"}
    BY Zenon, RequestIs, CallsAreProper
  <2>2. r.call.under = None /\ r.call.sub \in Seq(Words)
    BY <2>1 DEF Proper
  <2> DEFINE below == Len(Below(r))
             sub == Len(r.call.sub)
  <2>3. below = (IF r.call.under = None THEN 0 ELSE 1) + (IF r.call.names THEN 2 ELSE 0) + sub
    BY Zenon, <2>1, BelowIs
  <2>4. sub \in Nat
    BY <2>2
  <2> HIDE DEF below, sub
  <2>5. below \in {4, 5} => sub > 1
    BY <2>2, <2>3, <2>4
  <2>6. r.call.means = "patch" => ~(sub > 1)
    BY Zenon DEF sub
  <2> QED
    BY <2>5, <2>6 DEF Sits, below
<1> QED
  BY <1>1, <1>3, <1>4, <1>5, <1>6, <1>7, <1>8, <1>9, <1>10 DEF Sits

LEMMA TokensAimed ==
    ASSUME NEW r \in Requests, r.kit, r.call.module = "tokens"
    PROVE  \E b : Aimed(r, b)
<1>1. \/ Sits(r, "Sender", "GET", 0, "list", None, "Token", "Token")
      \/ Sits(r, "Sender", "POST", 2, "authorize", "LocationReferences", "AuthorizationInfo",
         "AuthorizationInfo") /\ Below(r) = r.call.sub /\ r.call.sub = <<"UID1", "authorize">>
      \/ Sits(r, "Receiver", "GET", 3, "token", None, "Token", "Token")
      \/ Sits(r, "Receiver", "PUT", 3, "put_token", "Token", None, None)
      \/ Sits(r, "Receiver", "PATCH", 3, "patch_token", "Token", None, None)
  BY TokensSits
<1>2. r.call.module \in Spaced
  BY DEF Spaced
<1>3. ASSUME r.call.role = "Sender", r.call.method = "GET", Len(Below(r)) = 0
      PROVE  \E b : Aimed(r, b)
  <2>1. Captures(0) \in Patterns["tokens"] /\ Has("tokens", "Sender", "GET", Captures(0))
    BY Zenon, CapturesAre, PatternsAre, TokensSenderHas
  <2> QED
    BY Zenon, <1>2, <1>3, <2>1, CapturesAimed
<1>4. ASSUME r.call.role = "Sender", r.call.method = "POST", Below(r) = <<"UID1", "authorize">>
      PROVE  \E b : Aimed(r, b)
  <2>1. <<R!Id, "authorize">> \in Patterns["tokens"]
          /\ Has("tokens", "Sender", "POST", <<R!Id, "authorize">>)
    BY Zenon, PatternsAre, TokensSenderHas
  <2>2. "UID1" \in Words /\ "authorize" \in Words /\ R!Id \in Words /\ "UID1" # ""
    BY Zenon DEF Words
  <2>3. R!Fits(<<R!Id, "authorize">>, Below(r))
    BY Zenon, <1>4, <2>2, PairsFit
  <2> QED
    BY Zenon, <1>2, <1>4, <2>1, <2>3, SpacedAimed
<1>5. ASSUME r.call.role = "Receiver", r.call.method = "GET", Len(Below(r)) = 3
      PROVE  \E b : Aimed(r, b)
  <2>1. Captures(3) \in Patterns["tokens"] /\ Has("tokens", "Receiver", "GET", Captures(3))
    BY Zenon, CapturesAre, PatternsAre, TokensReceiverHas
  <2> QED
    BY Zenon, <1>2, <1>5, <2>1, CapturesAimed
<1>6. ASSUME r.call.role = "Receiver", r.call.method = "PUT", Len(Below(r)) = 3
      PROVE  \E b : Aimed(r, b)
  <2>1. Captures(3) \in Patterns["tokens"] /\ Has("tokens", "Receiver", "PUT", Captures(3))
    BY Zenon, CapturesAre, PatternsAre, TokensReceiverHas
  <2> QED
    BY Zenon, <1>2, <1>6, <2>1, CapturesAimed
<1>7. ASSUME r.call.role = "Receiver", r.call.method = "PATCH", Len(Below(r)) = 3
      PROVE  \E b : Aimed(r, b)
  <2>1. Captures(3) \in Patterns["tokens"] /\ Has("tokens", "Receiver", "PATCH", Captures(3))
    BY Zenon, CapturesAre, PatternsAre, TokensReceiverHas
  <2> QED
    BY Zenon, <1>2, <1>7, <2>1, CapturesAimed
<1> QED
  BY <1>1, <1>3, <1>4, <1>5, <1>6, <1>7 DEF Sits

LEMMA CdrsAimed ==
    ASSUME NEW r \in Requests, r.kit, r.call.module = "cdrs"
    PROVE  \E b : Aimed(r, b)
<1>1. \/ Sits(r, "Sender", "GET", 0, "list", None, "Cdr", "Cdr")
      \/ Sits(r, "Receiver", "POST", 0, "post_cdr", "Cdr", None, None)
  BY CdrsSits
<1>2. r.call.module \in Spaced
  BY DEF Spaced
<1>3. ASSUME r.call.role = "Sender", r.call.method = "GET", Len(Below(r)) = 0
      PROVE  \E b : Aimed(r, b)
  <2>1. Captures(0) \in Patterns["cdrs"] /\ Has("cdrs", "Sender", "GET", Captures(0))
    BY Zenon, CapturesAre, PatternsAre, CdrsSenderHas
  <2> QED
    BY Zenon, <1>2, <1>3, <2>1, CapturesAimed
<1>4. ASSUME r.call.role = "Receiver", r.call.method = "POST", Len(Below(r)) = 0
      PROVE  \E b : Aimed(r, b)
  <2>1. Captures(0) \in Patterns["cdrs"] /\ Has("cdrs", "Receiver", "POST", Captures(0))
    BY Zenon, CapturesAre, PatternsAre, CdrsReceiverHas
  <2> QED
    BY Zenon, <1>2, <1>4, <2>1, CapturesAimed
<1> QED
  BY <1>1, <1>3, <1>4 DEF Sits

LEMMA SessionsAimed ==
    ASSUME NEW r \in Requests, r.kit, r.call.module = "sessions"
    PROVE  \E b : Aimed(r, b)
<1>1. \/ Sits(r, "Sender", "GET", 0, "list", None, "Session", "Session")
      \/ Sits(r, "Sender", "PUT", 2, "set_charging_preferences", "ChargingPreferences",
         "ChargingPreferencesResponse", None)
      \/ Sits(r, "Receiver", "GET", 3, "session", None, "Session", "Session")
      \/ Sits(r, "Receiver", "PUT", 3, "put_session", "Session", None, None)
      \/ Sits(r, "Receiver", "PATCH", 3, "patch_session", "Session", None, None)
  BY SessionsSits
<1>2. r.call.module \in Spaced
  BY DEF Spaced
<1>3. ASSUME r.call.role = "Sender", r.call.method = "GET", Len(Below(r)) = 0
      PROVE  \E b : Aimed(r, b)
  <2>1. Captures(0) \in Patterns["sessions"] /\ Has("sessions", "Sender", "GET", Captures(0))
    BY Zenon, CapturesAre, PatternsAre, SessionsSenderHas
  <2> QED
    BY Zenon, <1>2, <1>3, <2>1, CapturesAimed
<1>4. ASSUME r.call.role = "Sender", r.call.method = "PUT", Below(r) = <<"S1",
         "charging_preferences">>
      PROVE  \E b : Aimed(r, b)
  <2>1. <<R!Id, "charging_preferences">> \in Patterns["sessions"]
          /\ Has("sessions", "Sender", "PUT", <<R!Id, "charging_preferences">>)
    BY Zenon, PatternsAre, SessionsSenderHas
  <2>2. "S1" \in Words /\ "charging_preferences" \in Words /\ R!Id \in Words /\ "S1" # ""
    BY Zenon DEF Words
  <2>3. R!Fits(<<R!Id, "charging_preferences">>, Below(r))
    BY Zenon, <1>4, <2>2, PairsFit
  <2> QED
    BY Zenon, <1>2, <1>4, <2>1, <2>3, SpacedAimed
<1>5. ASSUME r.call.role = "Receiver", r.call.method = "GET", Len(Below(r)) = 3
      PROVE  \E b : Aimed(r, b)
  <2>1. Captures(3) \in Patterns["sessions"] /\ Has("sessions", "Receiver", "GET", Captures(3))
    BY Zenon, CapturesAre, PatternsAre, SessionsReceiverHas
  <2> QED
    BY Zenon, <1>2, <1>5, <2>1, CapturesAimed
<1>6. ASSUME r.call.role = "Receiver", r.call.method = "PUT", Len(Below(r)) = 3
      PROVE  \E b : Aimed(r, b)
  <2>1. Captures(3) \in Patterns["sessions"] /\ Has("sessions", "Receiver", "PUT", Captures(3))
    BY Zenon, CapturesAre, PatternsAre, SessionsReceiverHas
  <2> QED
    BY Zenon, <1>2, <1>6, <2>1, CapturesAimed
<1>7. ASSUME r.call.role = "Receiver", r.call.method = "PATCH", Len(Below(r)) = 3
      PROVE  \E b : Aimed(r, b)
  <2>1. Captures(3) \in Patterns["sessions"]
          /\ Has("sessions", "Receiver", "PATCH", Captures(3))
    BY Zenon, CapturesAre, PatternsAre, SessionsReceiverHas
  <2> QED
    BY Zenon, <1>2, <1>7, <2>1, CapturesAimed
<1> QED
  BY <1>1, <1>3, <1>4, <1>5, <1>6, <1>7, PreferencesAre DEF Sits

LEMMA TariffsAimed ==
    ASSUME NEW r \in Requests, r.kit, r.call.module = "tariffs", r.call.means # "delete_tariff"
    PROVE  \E b : Aimed(r, b)
<1>1. \/ Sits(r, "Sender", "GET", 0, "list", None, "Tariff", "Tariff")
      \/ Sits(r, "Receiver", "GET", 3, "tariff", None, "Tariff", "Tariff")
      \/ Sits(r, "Receiver", "PUT", 3, "put_tariff", "Tariff", None, None)
      \/ Sits(r, "Receiver", "DELETE", 3, "delete_tariff", None, None, None)
      \/ Sits(r, "Receiver", "DELETE", 4, "delete_tariff", None, None, None)
  BY TariffsSits
<1>2. r.call.module \in Spaced
  BY DEF Spaced
<1>3. ASSUME r.call.role = "Sender", r.call.method = "GET", Len(Below(r)) = 0
      PROVE  \E b : Aimed(r, b)
  <2>1. Captures(0) \in Patterns["tariffs"] /\ Has("tariffs", "Sender", "GET", Captures(0))
    BY Zenon, CapturesAre, PatternsAre, TariffsSenderHas
  <2> QED
    BY Zenon, <1>2, <1>3, <2>1, CapturesAimed
<1>4. ASSUME r.call.role = "Receiver", r.call.method = "GET", Len(Below(r)) = 3
      PROVE  \E b : Aimed(r, b)
  <2>1. Captures(3) \in Patterns["tariffs"] /\ Has("tariffs", "Receiver", "GET", Captures(3))
    BY Zenon, CapturesAre, PatternsAre, TariffsReceiverHas
  <2> QED
    BY Zenon, <1>2, <1>4, <2>1, CapturesAimed
<1>5. ASSUME r.call.role = "Receiver", r.call.method = "PUT", Len(Below(r)) = 3
      PROVE  \E b : Aimed(r, b)
  <2>1. Captures(3) \in Patterns["tariffs"] /\ Has("tariffs", "Receiver", "PUT", Captures(3))
    BY Zenon, CapturesAre, PatternsAre, TariffsReceiverHas
  <2> QED
    BY Zenon, <1>2, <1>5, <2>1, CapturesAimed
<1> QED
  BY <1>1, <1>3, <1>4, <1>5 DEF Sits

LEMMA CommandsAimed ==
    ASSUME NEW r \in Requests, r.kit, r.call.module = "commands"
    PROVE  \E b : Aimed(r, b)
<1>1. \/ Sits(r, "Receiver", "POST", 1, "command", "StartSession", "CommandResponse", None)
         /\ Below(r) = r.call.sub /\ r.call.sub = <<"START_SESSION">>
      \/ Sits(r, "Receiver", "POST", 1, "command", "ReserveNow", "CommandResponse", None)
         /\ Below(r) = r.call.sub /\ r.call.sub = <<"RESERVE_NOW">>
      \/ Sits(r, "Receiver", "POST", 1, "command", "StopSession", "CommandResponse", None)
         /\ Below(r) = r.call.sub /\ r.call.sub = <<"STOP_SESSION">>
      \/ Sits(r, "Receiver", "POST", 1, "command", "CancelReservation", "CommandResponse",
         None) /\ Below(r) = r.call.sub /\ r.call.sub = <<"CANCEL_RESERVATION">>
      \/ Sits(r, "Receiver", "POST", 1, "command", "UnlockConnector", "CommandResponse",
         None) /\ Below(r) = r.call.sub /\ r.call.sub = <<"UNLOCK_CONNECTOR">>
      \/ Sits(r, "Sender", "POST", 2, "command_result", "CommandResult", None, None)
         /\ Below(r) = r.call.sub /\ r.call.sub = <<"START_SESSION", "1234">>
      \/ Sits(r, "Sender", "POST", 2, "command_result", "CommandResult", None, None)
         /\ Below(r) = r.call.sub /\ r.call.sub = <<"RESERVE_NOW", "1234">>
      \/ Sits(r, "Sender", "POST", 2, "command_result", "CommandResult", None, None)
         /\ Below(r) = r.call.sub /\ r.call.sub = <<"STOP_SESSION", "1234">>
      \/ Sits(r, "Receiver", "POST", 1, "command", "StopSession", "CommandResponse", None)
         /\ Below(r) = r.call.sub /\ r.call.sub = <<"DANCE">>
  BY CommandsSits
<1>2. r.call.module \in Spaced
  BY DEF Spaced
<1>3. ASSUME r.call.role = "Receiver", r.call.method = "POST", Len(Below(r)) = 1
      PROVE  \E b : Aimed(r, b)
  <2>1. Captures(1) \in Patterns["commands"] /\ Has("commands", "Receiver", "POST", Captures(1))
    BY Zenon, CapturesAre, PatternsAre, CommandsReceiverHas
  <2> QED
    BY Zenon, <1>2, <1>3, <2>1, CapturesAimed
<1>4. ASSUME r.call.role = "Sender", r.call.method = "POST", Len(Below(r)) = 2
      PROVE  \E b : Aimed(r, b)
  <2>1. Captures(2) \in Patterns["commands"] /\ Has("commands", "Sender", "POST", Captures(2))
    BY Zenon, CapturesAre, PatternsAre, CommandsSenderHas
  <2> QED
    BY Zenon, <1>2, <1>4, <2>1, CapturesAimed
<1> QED
  BY <1>1, <1>3, <1>4 DEF Sits

LEMMA HubClientInfoAimed ==
    ASSUME NEW r \in Requests, r.kit, r.call.module = "hubclientinfo"
    PROVE  \E b : Aimed(r, b)
<1>1. \/ Sits(r, "Sender", "GET", 0, "list", None, "ClientInfo", "ClientInfo")
      \/ Sits(r, "Receiver", "GET", 2, "client_info", None, "ClientInfo", "ClientInfo")
      \/ Sits(r, "Receiver", "PUT", 2, "put_client_info", "ClientInfo", None, None)
  BY HubClientInfoSits
<1>2. r.call.module \in Spaced
  BY DEF Spaced
<1>3. ASSUME r.call.role = "Sender", r.call.method = "GET", Len(Below(r)) = 0
      PROVE  \E b : Aimed(r, b)
  <2>1. Captures(0) \in Patterns["hubclientinfo"]
          /\ Has("hubclientinfo", "Sender", "GET", Captures(0))
    BY Zenon, CapturesAre, PatternsAre, HubClientInfoSenderHas
  <2> QED
    BY Zenon, <1>2, <1>3, <2>1, CapturesAimed
<1>4. ASSUME r.call.role = "Receiver", r.call.method = "GET", Len(Below(r)) = 2
      PROVE  \E b : Aimed(r, b)
  <2>1. Captures(2) \in Patterns["hubclientinfo"]
          /\ Has("hubclientinfo", "Receiver", "GET", Captures(2))
    BY Zenon, CapturesAre, PatternsAre, HubClientInfoReceiverHas
  <2> QED
    BY Zenon, <1>2, <1>4, <2>1, CapturesAimed
<1>5. ASSUME r.call.role = "Receiver", r.call.method = "PUT", Len(Below(r)) = 2
      PROVE  \E b : Aimed(r, b)
  <2>1. Captures(2) \in Patterns["hubclientinfo"]
          /\ Has("hubclientinfo", "Receiver", "PUT", Captures(2))
    BY Zenon, CapturesAre, PatternsAre, HubClientInfoReceiverHas
  <2> QED
    BY Zenon, <1>2, <1>5, <2>1, CapturesAimed
<1> QED
  BY <1>1, <1>3, <1>4, <1>5 DEF Sits
(* Three segments, of which one may be captured.                            *)
LEMMA TriplesFit ==
    ASSUME NEW S, NEW a \in S, NEW b \in S, NEW c \in S, R!Id \in S
    PROVE  /\ c # "" => R!Fits(<<a, b, R!Id>>, <<a, b, c>>)
           /\ b # "" => R!Fits(<<a, R!Id, c>>, <<a, b, c>>)
<1> DEFINE e == ""
           id == R!Id
<1>1. ASSUME NEW x \in S, NEW y \in S, NEW z \in S
      PROVE  Len(<<x, y, z>>) = 3 /\ DOMAIN <<x, y, z>> = 1..3 /\ <<x, y, z>>[1] = x
             /\ <<x, y, z>>[2] = y /\ <<x, y, z>>[3] = z
  OBVIOUS
<1>2. \A i : i \in 1..3 <=> i = 1 \/ i = 2 \/ i = 3
  OBVIOUS
<1> HIDE DEF e, id
<1>3. ASSUME NEW y \in S, NEW z \in S, y = b \/ (y = id /\ b # e), z = c \/ (z = id /\ c # e)
      PROVE  R!Fits(<<a, y, z>>, <<a, b, c>>)
  <2> DEFINE p == <<a, y, z>>
             q == <<a, b, c>>
  <2>1. Len(p) = 3 /\ p[1] = a /\ p[2] = y /\ p[3] = z
        /\ Len(q) = 3 /\ DOMAIN q = 1..3 /\ q[1] = a /\ q[2] = b /\ q[3] = c
    BY <1>1
  <2> HIDE DEF p, q
  <2>2. ASSUME NEW i \in 1..3 PROVE p[i] = q[i] \/ (p[i] = id /\ q[i] # e)
    BY Zenon, <1>2, <1>3, <2>1, <2>2
  <2>3. R!Fits(p, q)
    BY Zenon, <2>1, <2>2 DEF R!Fits, id, e
  <2> QED
    BY <2>3 DEF p, q
<1> QED
  BY Zenon, <1>3 DEF e, id

LEMMA SecondSegment ==
    ASSUME NEW S, NEW x \in Seq(S), NEW a \in S, NEW b \in S, b # R!Id, R!Fits(<<a, b>>, x)
    PROVE  x[2] = b
<1> DEFINE p == <<a, b>>
<1>1. Len(p) = 2 /\ p[2] = b /\ DOMAIN x = 1..Len(x)
  OBVIOUS
<1>2. Len(x) = 2
  BY Zenon, <1>1 DEF R!Fits
<1>3. 2 \in DOMAIN x
  BY <1>1, <1>2
<1> HIDE DEF p
<1>4. p[2] = x[2] \/ p[2] = R!Id
  BY Zenon, <1>3 DEF R!Fits, p
<1> QED
  BY <1>1, <1>4

LEMMA ProfilePatternsApart ==
    ASSUME NEW x \in Seq(Words), NEW b \in Patterns["chargingprofiles"],
           NEW d \in Patterns["chargingprofiles"], R!Fits(b, x), R!Fits(d, x)
    PROVE  b = d
<1> DEFINE p1 == <<R!Id>>
           p2 == <<"result", "active", R!Id>>
           p3 == <<"result", "set", R!Id>>
           p4 == <<"result", "clear", R!Id>>
<1>1. b \in {p1, p2, p3, p4} /\ d \in {p1, p2, p3, p4}
  BY Zenon, PatternsAre
<1>2. /\ R!Fits(p2, x) => x[2] = "active"
      /\ R!Fits(p3, x) => x[2] = "set"
      /\ R!Fits(p4, x) => x[2] = "clear"
  <2>1. "active" \in Words /\ "clear" \in Words /\ "result" \in Words /\ "set" \in Words
        /\ "active" # R!Id /\ "clear" # R!Id /\ "set" # R!Id /\ R!Id \in Words
    BY Zenon DEF Words, R!Id
  <2> QED
    BY Zenon, <2>1, StaticSegments
<1>3. Len(p1) = 1 /\ Len(p2) = 3 /\ Len(p3) = 3 /\ Len(p4) = 3
  OBVIOUS
<1> HIDE DEF p1, p2, p3, p4
<1>4. Len(b) = Len(d)
  BY Zenon DEF R!Fits
<1> QED
  BY <1>1, <1>2, <1>3, <1>4

LEMMA ChargingProfilesAimed ==
    ASSUME NEW r \in Requests, r.kit, r.call.module = "chargingprofiles"
    PROVE  \E b : Aimed(r, b)
<1> DEFINE x == Below(r)
<1>1. x \in Seq(Words) /\ \A i \in DOMAIN x : x[i] # ""
  BY Zenon, KitIsWhole
<1>2. \/ /\ r.call.role = "Receiver" /\ r.call.method \in {"GET", "PUT", "DELETE"} /\ Len(x) = 1
      \/ /\ r.call.role = "Sender" /\ r.call.method = "PUT" /\ Len(x) = 1
      \/ /\ r.call.role = "Sender" /\ r.call.method = "POST"
         /\ \/ x = <<"result", "active", "1234">> \/ x = <<"result", "set", "1234">>
            \/ x = <<"result", "clear", "1234">>
  BY ChargingProfilesSits DEF Sits
<1> HIDE DEF x
<1>3. ASSUME NEW b \in Patterns["chargingprofiles"], R!Fits(b, x),
             Has("chargingprofiles", r.call.role, r.call.method, b)
      PROVE  Aimed(r, b)
  BY Zenon, <1>1, <1>3, ProfilePatternsApart DEF Aimed, x
<1>4. CASE /\ Len(x) = 1
           /\ \/ r.call.role = "Receiver" /\ r.call.method \in {"GET", "PUT", "DELETE"}
              \/ r.call.role = "Sender" /\ r.call.method = "PUT"
  <2>1. 1 \in 0..4 /\ R!Id \in Words
    <3>1. R!Id \in Words
      BY Zenon DEF Words
    <3> QED
      BY <3>1
  <2>2. Captures(1) \in Seq(Words) /\ Len(Captures(1)) = 1
        /\ \A i \in 1..1 : Captures(1)[i] = R!Id
    BY <2>1 DEF Captures
  <2>3. R!Fits(Captures(1), x)
    BY Zenon, <1>1, <1>4, <2>1, <2>2, CapturesFit
  <2>4. <<R!Id>> \in Patterns["chargingprofiles"]
        /\ Has("chargingprofiles", r.call.role, r.call.method, <<R!Id>>)
    BY Zenon, <1>4, PatternsAre, ChargingProfilesReceiverHas, ChargingProfilesSenderHas
  <2> QED
    BY Zenon, <1>3, <2>3, <2>4, CapturesAre
<1>5. ASSUME NEW a \in {"active", "set", "clear"}, x = <<"result", a, "1234">>,
             r.call.role = "Sender", r.call.method = "POST"
      PROVE  \E b : Aimed(r, b)
  <2>1. "result" \in Words /\ a \in Words /\ "1234" \in Words /\ R!Id \in Words /\ "1234" # ""
    BY Zenon DEF Words
  <2>2. R!Fits(<<"result", a, R!Id>>, x)
    BY Zenon, <1>5, <2>1, TriplesFit
  <2>3. <<"result", a, R!Id>> \in Patterns["chargingprofiles"]
        /\ Has("chargingprofiles", "Sender", "POST", <<"result", a, R!Id>>)
    BY Zenon, PatternsAre, ChargingProfilesSenderHas
  <2> QED
    BY Zenon, <1>3, <1>5, <2>2, <2>3
<1> QED
  BY <1>2, <1>4, <1>5

(* Where a call of the payments clients goes.                               *)
LEMMA PaymentsGo ==
    ASSUME NEW r \in Requests, r.call.module = "payments"
    PROVE  LET c == r.call
               x == Below(r)
           IN  \/ c.role = "Sender" /\ c.method = "GET" /\ x = <<"terminals">>
               \/ c.role = "Sender" /\ c.method \in {"GET", "PUT", "PATCH"}
                 /\ x = <<"terminals", "P1">>
               \/ c.role = "Sender" /\ c.method = "POST" /\ x = <<"terminals", "activate">>
               \/ c.role = "Sender" /\ c.method = "POST"
                 /\ x = <<"terminals", "P1", "deactivate">>
               \/ c.role = "Receiver" /\ c.method = "POST" /\ x = <<"terminals">>
               \/ c.role = "Sender" /\ c.method = "GET"
                 /\ x = <<"financial-advice-confirmations">>
               \/ c.role = "Sender" /\ c.method = "GET"
                 /\ x = <<"financial-advice-confirmations", "F1">>
               \/ c.role = "Receiver" /\ c.method = "POST"
                 /\ x = <<"financial-advice-confirmations">>
<1> DEFINE c == r.call
<1>1. c \in C!AllCalls \cup OtherCalls /\ c.module = "payments"
  BY Zenon, RequestIs
<1>2. c \in C!PaymentsCalls
  <2> HIDE DEF c
  <2> QED
    BY <1>1, ModulesOfCalls, CallsOfModules
<1>3. "terminals" \in Words /\ "financial-advice-confirmations" \in Words /\ "P1" \in Words
      /\ "F1" \in Words /\ "activate" \in Words /\ "deactivate" \in Words
      /\ "terminals" # None /\ "financial-advice-confirmations" # None
  BY DEF Words, None
<1>4. ASSUME NEW u, u # None, c.under = u, ~c.names
      PROVE  Below(r) = <<u>> \o <<>> \o c.sub
  BY <1>4 DEF Below
<1>5. ASSUME NEW S, NEW a \in S, NEW b \in S, NEW d \in S
      PROVE  /\ <<a>> \o <<>> \o <<>> = <<a>>
             /\ <<a>> \o <<>> \o <<b>> = <<a, b>>
             /\ <<a>> \o <<>> \o <<b, d>> = <<a, b, d>>
  <2>1. <<a>> \o <<>> = <<a>> /\ <<a>> \o <<b>> = <<a, b>> /\ <<a>> \o <<b, d>> = <<a, b, d>>
    BY Zenon, Joins
  <2> QED
    BY Zenon, <2>1
<1> HIDE DEF c
<1>6. CASE c \in C!Under("terminals", C!TerminalCalls)
  <2>1. \A d \in C!TerminalCalls : \E role, names, rows : d \in C!Calls("payments", role, names,
            rows)
    BY Zenon DEF C!TerminalCalls
  <2>2. PICK d \in C!TerminalCalls : c.under = "terminals" /\ c.role = d.role
          /\ c.names = d.names
             /\ c.sub = d.sub /\ c.method = d.method
    BY <1>6, <2>1, MovedUnder
  <2>3. Append(<<"P1">>, "deactivate") = <<"P1", "deactivate">>
    BY Zenon, <1>3, Joins
  <2>4. /\ ~d.names
        /\ \/ d.role = "Sender" /\ d.method = "GET" /\ d.sub = <<>>
           \/ d.role = "Sender" /\ d.method \in {"GET", "PUT", "PATCH"} /\ d.sub = <<"P1">>
           \/ d.role = "Sender" /\ d.method = "POST" /\ d.sub = <<"activate">>
           \/ d.role = "Sender" /\ d.method = "POST" /\ d.sub = <<"P1", "deactivate">>
           \/ d.role = "Receiver" /\ d.method = "POST" /\ d.sub = <<>>
    BY SMTT(30), <2>3 DEF C!TerminalCalls, C!E!Base, C!E!Object, C!E!TerminalActivate,
       C!E!TerminalDeactivate, C!Calls, C!Nothing, C!Plain, C!None
  <2>5. Below(r) = <<"terminals">> \o <<>> \o d.sub
    BY <1>3, <1>4, <2>2, <2>4
  <2>6. /\ d.sub = <<>> => Below(r) = <<"terminals">>
        /\ d.sub = <<"P1">> => Below(r) = <<"terminals", "P1">>
        /\ d.sub = <<"activate">> => Below(r) = <<"terminals", "activate">>
        /\ d.sub = <<"P1", "deactivate">> => Below(r) = <<"terminals", "P1", "deactivate">>
    BY Zenon, <1>3, <1>5, <2>5
  <2> QED
    BY <2>2, <2>4, <2>6 DEF c
<1>7. CASE c \in C!Under("financial-advice-confirmations", C!ConfirmationCalls)
  <2>1. \A d \in C!ConfirmationCalls : \E role, names, rows : d \in C!Calls("payments", role,
           names,
            rows)
    BY Zenon DEF C!ConfirmationCalls
  <2>2. PICK d \in C!ConfirmationCalls : c.under = "financial-advice-confirmations"
             /\ c.role = d.role /\ c.names = d.names /\ c.sub = d.sub /\ c.method = d.method
    BY <1>7, <2>1, MovedUnder
  <2>4. /\ ~d.names
        /\ \/ d.role = "Sender" /\ d.method = "GET" /\ d.sub = <<>>
           \/ d.role = "Sender" /\ d.method = "GET" /\ d.sub = <<"F1">>
           \/ d.role = "Receiver" /\ d.method = "POST" /\ d.sub = <<>>
    BY SMTT(30) DEF C!ConfirmationCalls, C!E!Base, C!E!Object, C!Calls, C!Nothing, C!Plain,
       C!None
  <2>5. Below(r) = <<"financial-advice-confirmations">> \o <<>> \o d.sub
    BY <1>3, <1>4, <2>2, <2>4
  <2>6. /\ d.sub = <<>> => Below(r) = <<"financial-advice-confirmations">>
        /\ d.sub = <<"F1">> => Below(r) = <<"financial-advice-confirmations", "F1">>
    BY Zenon, <1>3, <1>5, <2>5
  <2> QED
    BY <2>2, <2>4, <2>6 DEF c
<1> QED
  BY <1>2, <1>6, <1>7 DEF C!PaymentsCalls

(* Two patterns a path fits are the same, but under terminals/activate.      *)
LEMMA PaymentPatternsApart ==
    ASSUME NEW x \in Seq(Words), NEW b \in Patterns["payments"], NEW d \in Patterns["payments"],
           R!Fits(b, x), R!Fits(d, x)
    PROVE  \/ b = d
           \/ /\ Len(x) = 2 /\ x[1] = "terminals" /\ x[2] = "activate"
              /\ {b, d} = {<<"terminals", "activate">>, <<"terminals", R!Id>>}
<1> DEFINE p1 == <<"terminals">>
           p2 == <<"terminals", "activate">>
           p3 == <<"terminals", R!Id>>
           p4 == <<"terminals", R!Id, "deactivate">>
           p5 == <<"financial-advice-confirmations">>
           p6 == <<"financial-advice-confirmations", R!Id>>
<1>1. b \in {p1, p2, p3, p4, p5, p6} /\ d \in {p1, p2, p3, p4, p5, p6}
  BY Zenon, PatternsAre
<1>2. /\ R!Fits(p1, x) => x[1] = "terminals"
      /\ R!Fits(p2, x) => x[1] = "terminals" /\ x[2] = "activate"
      /\ R!Fits(p3, x) => x[1] = "terminals"
      /\ R!Fits(p4, x) => x[1] = "terminals"
      /\ R!Fits(p5, x) => x[1] = "financial-advice-confirmations"
      /\ R!Fits(p6, x) => x[1] = "financial-advice-confirmations"
  <2>1. "terminals" \in Words /\ "financial-advice-confirmations" \in Words
          /\ "activate" \in Words
        /\ "deactivate" \in Words /\ R!Id \in Words /\ "terminals" # R!Id /\ "activate" # R!Id
        /\ "financial-advice-confirmations" # R!Id
    BY Zenon DEF Words, R!Id
  <2> QED
    BY Zenon, <2>1, StaticSegments, SecondSegment
<1>3. Len(p1) = 1 /\ Len(p2) = 2 /\ Len(p3) = 2 /\ Len(p4) = 3 /\ Len(p5) = 1 /\ Len(p6) = 2
  OBVIOUS
<1> HIDE DEF p1, p2, p3, p4, p5, p6
<1>4. Len(b) = Len(x) /\ Len(d) = Len(x)
  BY Zenon DEF R!Fits
<1> DEFINE size(s) == Len(s)
<1>5. /\ size(p1) = 1 /\ size(p2) = 2 /\ size(p3) = 2
      /\ size(p4) = 3 /\ size(p5) = 1 /\ size(p6) = 2
  BY Zenon, <1>3
<1>6. size(b) = size(d)
  BY Zenon, <1>4
<1> HIDE DEF size
<1>7. b = d \/ (Len(x) = 2 /\ x[1] = "terminals" /\ x[2] = "activate" /\ {b, d} = {p2, p3})
  <2>1. "terminals" # "financial-advice-confirmations"
    BY Zenon
  <2>2. CASE x[1] = "terminals"
    <3>1. b \in {p1, p2, p3, p4} /\ d \in {p1, p2, p3, p4}
      BY Zenon, <1>1, <1>2, <2>1, <2>2
    <3>2. CASE b \in {p1, p4} \/ d \in {p1, p4}
      <4>1. b = d
        BY ONLY <1>5, <1>6, <3>1, <3>2
      <4> QED
        BY Zenon, <4>1
    <3>3. CASE b \in {p2, p3} /\ d \in {p2, p3}
      <4>1. b = d \/ (b = p2 /\ d = p3) \/ (b = p3 /\ d = p2)
        BY Zenon, <3>3
      <4>2. b # d => {b, d} = {p2, p3} /\ x[2] = "activate" /\ Len(x) = 2
        BY Zenon, <1>2, <1>3, <1>4, <4>1
      <4> QED
        BY Zenon, <2>2, <4>2
    <3> QED
      BY Zenon, <3>1, <3>2, <3>3
  <2>3. CASE x[1] # "terminals"
    <3>1. b \in {p5, p6} /\ d \in {p5, p6}
      BY Zenon, <1>1, <1>2, <2>3
    <3>2. b = d
      BY ONLY <1>5, <1>6, <3>1
    <3> QED
      BY Zenon, <3>2
  <2> QED
    BY Zenon, <2>2, <2>3
<1> QED
  BY Zenon, <1>7 DEF p2, p3

LEMMA StaticBeats ==
    ASSUME NEW S, NEW base \in Seq(S), NEW a \in S, NEW b \in S, b # R!Id, R!Id \in S
    PROVE  R!Beats(base \o <<a, b>>, base \o <<a, R!Id>>)
<1> DEFINE id == R!Id
           n == Len(base)
           p == base \o <<a, b>>
           q == base \o <<a, id>>
<1> HIDE DEF id
<1>0. id \in S /\ b # id
  BY DEF id
<1>1. /\ n \in Nat /\ p \in Seq(S) /\ q \in Seq(S) /\ Len(p) = n + 2 /\ Len(q) = n + 2
      /\ DOMAIN p = 1..(n + 2) /\ p[n + 2] = b /\ q[n + 2] = id /\ p[n + 1] = a /\ q[n + 1] = a
      /\ \A i \in 1..n : p[i] = base[i] /\ q[i] = base[i]
  BY <1>0
<1> HIDE DEF n, p, q
<1>2. \A i \in 1..(n + 1) : p[i] = q[i]
  BY <1>1
<1>3. SubSeq(p, 1, n + 1) = SubSeq(q, 1, n + 1)
  BY <1>1, <1>2
<1>4. n + 2 \in DOMAIN p /\ (n + 2) - 1 = n + 1
  BY <1>1
<1> QED
  BY <1>0, <1>1, <1>3, <1>4 DEF R!Beats, p, q, id

LEMMA PaymentsAimed ==
    ASSUME NEW r \in Requests, r.kit, r.call.module = "payments"
    PROVE  \E b : Aimed(r, b)
<1> DEFINE x == Below(r)
           t == "terminals"
           f == "financial-advice-confirmations"
           role == r.call.role
           method == r.call.method
<1>1. x \in Seq(Words) /\ From(r) \in Seq(Words)
  <2>1. Proper(r.call) /\ r.party \in {"own", "other", "bad"}
    BY Zenon, RequestIs, CallsAreProper
  <2> QED
    BY Zenon, <2>1, KitIsWhole, PathIs
<1>2. \/ role = "Sender" /\ method = "GET" /\ x = <<t>>
      \/ role = "Sender" /\ method \in {"GET", "PUT", "PATCH"} /\ x = <<t, "P1">>
      \/ role = "Sender" /\ method = "POST" /\ x = <<t, "activate">>
      \/ role = "Sender" /\ method = "POST" /\ x = <<t, "P1", "deactivate">>
      \/ role = "Receiver" /\ method = "POST" /\ x = <<t>>
      \/ role = "Sender" /\ method = "GET" /\ x = <<f>>
      \/ role = "Sender" /\ method = "GET" /\ x = <<f, "F1">>
      \/ role = "Receiver" /\ method = "POST" /\ x = <<f>>
  BY Zenon, PaymentsGo
<1>3. t \in Words /\ f \in Words /\ "P1" \in Words /\ "F1" \in Words /\ "activate" \in Words
      /\ "deactivate" \in Words /\ R!Id \in Words /\ "activate" # R!Id
  BY Zenon DEF Words, R!Id
<1>4. "P1" # "" /\ "F1" # "" /\ "P1" # "activate" /\ t # f
  BY Zenon
<1>5. ASSUME NEW S, NEW a \in S, NEW b \in S, NEW c \in S
      PROVE  Len(<<a>>) = 1 /\ Len(<<a, b>>) = 2 /\ <<a, b>>[1] = a /\ <<a, b>>[2] = b
             /\ Len(<<a, b, c>>) = 3
  OBVIOUS
<1> HIDE DEF x
<1>6. ASSUME NEW below \in Patterns["payments"], R!Fits(below, x),
             Has("payments", role, method, below),
             Len(x) # 2 \/ x[1] # "terminals" \/ x[2] # "activate"
      PROVE  Aimed(r, below)
  BY Zenon, <1>1, <1>6, PaymentPatternsApart DEF Aimed, x
<1>7. CASE x = <<t>> /\ ((role = "Sender" /\ method = "GET") \/ (role = "Receiver"
        /\ method = "POST"))
  <2>1. R!Fits(<<t>>, x) /\ Len(x) = 1
    BY Zenon, <1>3, <1>5, <1>7, PairsFit
  <2>2. <<t>> \in Patterns["payments"] /\ Has("payments", role, method, <<t>>)
    BY Zenon, <1>7, PatternsAre, PaymentsSenderHas, PaymentsReceiverHas
  <2> QED
    BY <1>6, <2>1, <2>2
<1>8. CASE x = <<f>> /\ ((role = "Sender" /\ method = "GET") \/ (role = "Receiver"
        /\ method = "POST"))
  <2>1. R!Fits(<<f>>, x) /\ Len(x) = 1
    BY Zenon, <1>3, <1>5, <1>8, PairsFit
  <2>2. <<f>> \in Patterns["payments"] /\ Has("payments", role, method, <<f>>)
    BY Zenon, <1>8, PatternsAre, PaymentsSenderHas, PaymentsReceiverHas
  <2> QED
    BY <1>6, <2>1, <2>2
<1>9. CASE x = <<t, "P1">> /\ role = "Sender" /\ method \in {"GET", "PUT", "PATCH"}
  <2>1. R!Fits(<<t, R!Id>>, x) /\ x[2] = "P1"
    BY Zenon, <1>3, <1>4, <1>5, <1>9, PairsFit
  <2>2. <<t, R!Id>> \in Patterns["payments"] /\ Has("payments", role, method, <<t, R!Id>>)
    BY Zenon, <1>9, PatternsAre, PaymentsSenderHas
  <2> QED
    BY Zenon, <1>4, <1>6, <2>1, <2>2
<1>10. CASE x = <<f, "F1">> /\ role = "Sender" /\ method = "GET"
  <2>1. R!Fits(<<f, R!Id>>, x) /\ x[1] = f
    BY Zenon, <1>3, <1>4, <1>5, <1>10, PairsFit
  <2>2. <<f, R!Id>> \in Patterns["payments"] /\ Has("payments", role, method, <<f, R!Id>>)
    BY Zenon, <1>10, PatternsAre, PaymentsSenderHas
  <2> QED
    BY Zenon, <1>4, <1>6, <2>1, <2>2
<1>11. CASE x = <<t, "P1", "deactivate">> /\ role = "Sender" /\ method = "POST"
  <2>1. R!Fits(<<t, R!Id, "deactivate">>, x) /\ Len(x) = 3
    BY Zenon, <1>3, <1>4, <1>5, <1>11, TriplesFit
  <2>2. <<t, R!Id, "deactivate">> \in Patterns["payments"]
        /\ Has("payments", role, method, <<t, R!Id, "deactivate">>)
    BY Zenon, <1>11, PatternsAre, PaymentsSenderHas
  <2> QED
    BY <1>6, <2>1, <2>2
<1>12. CASE x = <<t, "activate">> /\ role = "Sender" /\ method = "POST"
  <2> DEFINE p == <<t, "activate">>
             q == <<t, R!Id>>
  <2>1. R!Fits(p, x)
    BY Zenon, <1>3, <1>12, PairsFit
  <2>2. p \in Patterns["payments"] /\ Has("payments", role, method, p)
    BY Zenon, <1>12, PatternsAre, PaymentsSenderHas
  <2>3. R!Beats(From(r) \o p, From(r) \o q)
    BY Zenon, <1>1, <1>3, StaticBeats
  <2>4. \A b \in Patterns["payments"] : R!Fits(b, x) => b = p \/ {b, p} = {p, q}
    BY Zenon, <1>1, <2>1, <2>2, PaymentPatternsApart
  <2> HIDE DEF p, q
  <2>5. \A b : {b, p} = {p, q} => b = p \/ b = q
    OBVIOUS
  <2>6. Aimed(r, p)
    BY Zenon, <2>1, <2>2, <2>3, <2>4, <2>5 DEF Aimed, x
  <2> QED
    BY <2>6
<1> QED
  BY Zenon, <1>2, <1>7, <1>8, <1>9, <1>10, <1>11, <1>12

(* The part of Gap the request alone settles.                               *)
Open(r) ==
    /\ r.kit /\ r.call.means # "delete_tariff"
    /\ r.call.means = "command" => server.prefix = None
    /\ ~(r.call.means = "patch" /\ Len(r.call.sub) > 1)

LEMMA FromIs ==
    ASSUME NEW r \in Requests, Open(r)
    PROVE  From(r) = BaseOf(r.call.module, r.call.role)
<1>1. r.call.module = "commands" /\ r.call.role = "Receiver" => r.call.means = "command"
  BY CommandsSits DEF Sits
<1> QED
  BY <1>1 DEF From, BaseOf, Advertised, Open

(* Everything a typed client asks for is there, but for the gaps.           *)
LEMMA OpenLands ==
    ASSUME server \in Servers, NEW r \in Requests, Open(r)
    PROVE  Lands(r)
<1>1. Proper(r.call)
  BY Zenon, RequestIs, CallsAreProper
<1>2. \E b : Aimed(r, b)
  BY <1>1, RegistrationAimed, LocationsAimed, TokensAimed, CdrsAimed, SessionsAimed,
     TariffsAimed,
     CommandsAimed, HubClientInfoAimed, ChargingProfilesAimed, PaymentsAimed
     DEF Proper, ModuleNames, Open
<1> QED
  BY Zenon, <1>2, FromIs, AimedLands

-----------------------------------------------------------------------------
(* A request that is in order gets to its handler.                         *)

(* Whom the store starts with, and who of them a request in order is from.  *)
Caller == Entry("token_c", "peer", "C")
Callers == {Caller, Entry("token_a", "newcomer", "A")}

(* A typed client's request, by a caller who may, with nothing wrong in it,  *)
(* for what the paths agree about.                                          *)
Sound == Blameless /\ ~Gap

(* While its caller is known nothing refuses it: it is answered by its      *)
(* handler only, and until then it is the caller's.                         *)
LandInv ==
    /\ store \subseteq Callers
    /\ at # "idle" /\ Sound =>
          /\ at \in {"reply", "client", "done"} => handled # Pending
          /\ at \in {"query", "body", "scope", "late", "handler"} => peer = Caller

LEMMA LandInit == Init => LandInv
  BY DEF Init, LandInv, Callers, Caller

(* The store knows the caller or nobody by that token.                      *)
LEMMA CallerIsFound ==
    ASSUME store \subseteq Callers, Lookup("token_c") # Unknown
    PROVE  Lookup("token_c") = Caller
<1>1. \E e \in store : e.token = "token_c"
  BY DEF Lookup
<1>2. Lookup("token_c") \in store /\ Lookup("token_c").token = "token_c"
  BY <1>1 DEF Lookup
<1> QED
  BY <1>2 DEF Callers, Caller, Entry

(* Whom a store knows, it knew before anyone was taken out of it.           *)
LEMMA StillSound ==
    ASSUME UNCHANGED <<server, request>>, store' \subseteq store, Sound'
    PROVE  Sound
<1>1. Gap' = Gap
  BY DEF Gap, EdgeBlind, Bridging
<1>2. \E e \in store' : e.token = "token_c"
  BY DEF Sound, Blameless, Lookup
<1>3. Lookup("token_c").token = "token_c"
  BY <1>2 DEF Lookup
<1>4. Lookup("token_c") # Unknown
  BY <1>3 DEF Unknown
<1> QED
  BY <1>1, <1>4 DEF Sound, Blameless

(* What a request in order is.                                              *)
LEMMA SoundIs ==
    ASSUME CourseInv, at # "idle", Sound
    PROVE  /\ request.kit /\ Open(request) /\ Sighted(request)
           /\ \A f : ~Flawed(f)
           /\ \A kind : PatchCrossesUnchanged(kind, FieldsOf(request, kind))
<1>1. request.kit /\ request.flaws = {} /\ ~Gap /\ request \in Requests /\ server \in Servers
  BY DEF Sound, Blameless, CourseInv
<1>2. Open(request)
  BY <1>1 DEF Open, Gap
<1>3. Proper(request.call)
  BY Zenon, <1>1, RequestIs, CallsAreProper
<1>4. Sighted(request)
  BY <1>1, <1>3 DEF Sighted, Gap, Proper, Interfaces
<1>5. \A f : ~Flawed(f)
  BY <1>1 DEF Flawed
<1>6. \A kind : FieldsOf(request, kind) = {"last_updated"}
  BY <1>1 DEF FieldsOf
<1>7. \A kind : "last_updated" \notin DivergentFields(kind)
  BY DEF DivergentFields
<1>8. \A kind : PatchCrossesUnchanged(kind, FieldsOf(request, kind))
  BY <1>6, <1>7 DEF PatchCrossesUnchanged
<1> QED
  BY <1>1, <1>2, <1>4, <1>5, <1>8

(* The typed clients translate whatever has a kind, and only the result of a  *)
(* command is one.                                                          *)
LEMMA KitTranslates ==
    ASSUME NEW c \in C!AllCalls
    PROVE  /\ c.sends \in Kinds => c.out \in Kinds
           /\ c.sends = "CommandResult" => c.module = "commands"
<1>1. CASE c \in C!RegistrationCalls
  BY <1>1, RegistrationLines DEF Line, Kinds, None
<1>2. CASE c \in C!LocationsSenderCalls
  BY <1>2, LocationsSenderLines DEF Line, Kinds, None
<1>3. CASE c \in C!LocationsReceiverCalls
  BY <1>3, LocationsReceiverLines DEF Line, Kinds, None
<1>4. CASE c \in C!TokensSenderCalls
  BY <1>4, TokensSenderLines DEF Line, Kinds, None
<1>5. CASE c \in C!TokensReceiverCalls
  BY <1>5, TokensReceiverLines DEF Line, Kinds, None
<1>6. CASE c \in C!CdrsCalls
  BY <1>6, CdrsLines DEF Line, Kinds, None
<1>7. CASE c \in C!CommandsCalls
  BY <1>7, CommandsLines DEF Line, Kinds, None
<1>8. CASE c \in C!SessionsSenderCalls
  BY <1>8, SessionsSenderLines DEF Line, Kinds, None
<1>9. CASE c \in C!SessionsReceiverCalls
  BY <1>9, SessionsReceiverLines DEF Line, Kinds, None
<1>10. CASE c \in C!TariffsCalls
  BY <1>10, TariffsLines DEF Line, Kinds, None
<1>11. CASE c \in C!ChargingProfilesCalls
  BY <1>11, ChargingProfilesLines DEF Line, Kinds, None
<1>12. CASE c \in C!HubClientInfoCalls
  BY <1>12, HubClientInfoLines DEF Line, Kinds, None
<1>13. CASE c \in C!PaymentsCalls
  BY <1>13, PaymentsLines DEF Line, Kinds, None
<1>14. CASE c \in C!CallbackCalls
  BY <1>14, CallbackLines DEF Line, Kinds, None
<1> QED
  BY <1>1, <1>2, <1>3, <1>4, <1>5, <1>6, <1>7, <1>8, <1>9, <1>10, <1>11, <1>12, <1>13, <1>14
     DEF C!AllCalls

(* A typed client's command is the object its name stands for.              *)
LEMMA KitCommands ==
    ASSUME NEW r \in Requests, r.kit, r.call.module = "commands", r.call.means = "command"
    PROVE  /\ CommandObject(Seqs!Last(r.call.sub)) = r.call.sends
           /\ CommandObject(Seqs!Last(r.call.sub)) # None
<1> DEFINE c == r.call
<1>1. c \in C!AllCalls
  BY Zenon, RequestIs
<1>2. c \in C!CommandsCalls \/ c \in C!CallbackCalls
  <2> HIDE DEF c
  <2>1. c.module = "commands"
    BY DEF c
  <2> QED
    BY <1>1, <2>1, ModulesOfCalls DEF C!AllCalls
<1>3. c \notin C!CallbackCalls
  BY CallbackLines DEF Line
<1>4. ASSUME NEW a PROVE Seqs!Last(<<a>>) = a
  BY DEF Seqs!Last
<1>5. \/ c.sends = "StartSession" /\ c.sub = <<"START_SESSION">>
      \/ c.sends = "ReserveNow" /\ c.sub = <<"RESERVE_NOW">>
      \/ c.sends = "StopSession" /\ c.sub = <<"STOP_SESSION">>
      \/ c.sends = "CancelReservation" /\ c.sub = <<"CANCEL_RESERVATION">>
      \/ c.sends = "UnlockConnector" /\ c.sub = <<"UNLOCK_CONNECTOR">>
  BY <1>2, <1>3, CommandsLines DEF Line
<1> QED
  BY <1>4, <1>5 DEF CommandObject, None

(* And the edge leaves the result of one alone that it does not take for     *)
(* the command.                                                             *)
LEMMA ResultsPass ==
    ASSUME CourseInv, at # "idle", Sound, Bridging(server.version),
           request.call.sends = "CommandResult"
    PROVE  KindAt(Path(request), "Request") = NoKind
<1> DEFINE e == EndpointOf(Path(request))
           y == Below(request)
<1>1. request \in Requests /\ server \in Servers /\ ~Gap
  BY DEF CourseInv, Sound
<1>2. request.kit /\ Sighted(request)
  BY SoundIs
<1>3. request.call \in C!AllCalls
  BY Zenon, <1>1, <1>2, RequestIs
<1>4. Whole(request.call)
  BY Zenon, <1>3, KitCallsAreWhole
<1>5. request.call.module = "commands"
  BY <1>3, KitTranslates
<1>6. e.module = "commands" /\ e.below = y
  BY <1>1, <1>2, <1>4, <1>5, EdgeReads
<1>7. KindAt(Path(request), "Request") = ForEndpoint(e.module, e.interface, e.below, "Request")
  BY DEF KindAt
<1>8. Segments(y) = y
  BY Zenon, <1>1, <1>2, KitIsWhole, SegmentsStay
<1> HIDE DEF e
<1>9. KindAt(Path(request), "Request") = CommandKind(y, "Request")
  BY <1>6, <1>7, <1>8 DEF ForEndpoint
<1>10. ASSUME NEW a, NEW b PROVE <<a, b>> # <<>> /\ Head(<<a, b>>) = a
  OBVIOUS
<1>11. y = <<"STOP_SESSION", "1234">>
  <2>1. /\ y = request.call.sub /\ request.call.means = "command_result"
        /\ \/ y = <<"START_SESSION", "1234">>
           \/ y = <<"RESERVE_NOW", "1234">>
           \/ y = <<"STOP_SESSION", "1234">>
    BY <1>1, <1>5, CommandsSits DEF Sits
  <2> QED
    BY <1>1, <1>10, <2>1 DEF Gap
<1> QED
  BY <1>9, <1>10, <1>11 DEF CommandKind

(* A typed client does not refuse to send a patch that is in order.         *)
LEMMA LandSend ==
    ASSUME CourseInv, LandInv, at = "idle", NEW r \in Requests, Send(r)
    PROVE  LandInv'
<1>1. UNCHANGED <<server, store>> /\ request' = r /\ at' \in {"done", "edge", "route"}
      /\ (at' = "done" => ClientRefuses(r))
  BY DEF Send, Proceed
<1>2. ASSUME r.flaws = {} PROVE ~ClientRefuses(r)
  <2>1. \A kind : FieldsOf(r, kind) = {"last_updated"}
    BY <1>2 DEF FieldsOf
  <2>2. \A kind : "last_updated" \notin DivergentFields(kind)
    BY DEF DivergentFields
  <2>3. \A kind : PatchCrossesUnchanged(kind, FieldsOf(r, kind))
    BY <2>1, <2>2 DEF PatchCrossesUnchanged
  <2> QED
    BY <1>2, <2>3 DEF ClientRefuses
<1>3. Sound' => r.flaws = {}
  BY <1>1 DEF Sound, Blameless
<1> QED
  BY <1>1, <1>2, <1>3 DEF LandInv

(* The edge has what it takes for the kind it reads off the path.           *)
LEMMA EdgePasses ==
    ASSUME CourseInv, BodyInv, EdgeIn, Sound
    PROVE  at' = "route"
<1> DEFINE kind == KindAt(Path(request), "Request")
           sends == request.call.sends
           patch == request.call.method = "PATCH"
<1>1. at = "edge" /\ Bridging(server.version) /\ body \in Written(request)
      /\ request \in Requests
  BY DEF EdgeIn, BodyInv, CourseInv
<1>2. request.kit /\ Sighted(request) /\ (\A f : ~Flawed(f))
      /\ PatchCrossesUnchanged(kind, FieldsOf(request, kind))
  BY <1>1, SoundIs
<1>3. /\ sends \in Kinds => kind = sends
      /\ sends \notin Kinds \cup {None, "CommandResult"} => kind = NoKind
      /\ sends = "CommandResult" => kind = NoKind
  BY <1>1, <1>2, EdgeKinds, ResultsPass
<1>4. body.is = sends /\ (sends \in Kinds => body.version = server.version)
  <2>1. body = Doc(sends, IF request.call.out \in Kinds THEN server.version ELSE Canonical)
    BY <1>1, <1>2 DEF Written, Flawed
  <2>2. sends \in Kinds => request.call.out \in Kinds
    BY <1>1, <1>2, RequestIs, KitTranslates
  <2> QED
    BY <2>1, <2>2 DEF Doc
<1>5. kind # NoKind /\ body.is # None => ~MayFail(body, server.version, kind)
  BY <1>3, <1>4 DEF MayFail
<1>6. \/ at' = "route"
      \/ Flawed("malformed")
      \/ ~PatchCrossesUnchanged(kind, FieldsOf(request, kind))
      \/ kind # NoKind /\ body.is # None /\ MayFail(body, server.version, kind)
  BY DEF EdgeIn, Proceed, Sends
<1> HIDE DEF kind
<1> QED
  BY <1>2, <1>5, <1>6

(* There is a route under the path, and one for the method.                 *)
LEMMA MatchPasses ==
    ASSUME CourseInv, Match, Sound
    PROVE  at' = "auth"
<1> DEFINE here == R!AtPath(Routes, Path(request))
           able == {r \in here : r.method = request.call.method}
<1>1. at = "route" /\ server \in Servers /\ request \in Requests
  BY DEF Match, MatchTo, CourseInv
<1>2. Lands(request)
  BY <1>1, SoundIs, OpenLands
<1>3. able # {} /\ here # {}
  BY <1>2 DEF Lands
<1>4. here = {} \/ able = {} \/ at' = "auth"
  BY DEF Match, MatchTo, Proceed
<1> HIDE DEF here, able
<1> QED
  BY <1>3, <1>4

LEMMA AuthenticatePasses ==
    ASSUME LandInv, Authenticate, Sound
    PROVE  at' = "query" /\ peer' = Caller
<1>1. Lookup("token_c") = Caller /\ request.token = "token_c"
  BY CallerIsFound DEF LandInv, Sound, Blameless
<1>2. peer' = Caller
  BY <1>1 DEF Authenticate
<1>3. Caller # Unknown
  BY DEF Caller, Entry, Unknown
<1> QED
  BY <1>2, <1>3 DEF Authenticate, Proceed

(* What is decoded is what was sent.                                        *)
LEMMA BodyPasses ==
    ASSUME CourseInv, BodyInv, ReadBody, Sound
    PROVE  at' = "scope"
<1>1. at = "body" /\ Matched(request, route) /\ Fitting
  BY DEF ReadBody, CourseInv, BodyInv, Serving
<1>2. Sighted(request) /\ \A f : ~Flawed(f)
  BY <1>1, SoundIs
<1>3. ASSUME route.body = "json" PROVE ~MayFail(body, Canonical, route.takes)
  <2>1. request.call.method # "PATCH"
    BY <1>1, <1>3, PatchesArePatches DEF Matched
  <2>2. route.takes = request.call.sends
    BY <1>1, <1>3, MatchedMeets DEF Meets
  <2> QED
    BY <1>1, <1>2, <2>1, <2>2 DEF Fitting, MayFail
<1>4. \/ at' = "scope"
      \/ Flawed("content_type") \/ Flawed("malformed") \/ Flawed("unstamped")
      \/ route.body = "json" /\ MayFail(body, Canonical, route.takes)
  BY DEF ReadBody, Proceed
<1> QED
  BY <1>2, <1>3, <1>4

LEMMA ContextPasses ==
    ASSUME LandInv, EnterContext, Sound
    PROVE  at' = "late"
<1>1. peer = Caller /\ request.party = "own"
  BY DEF EnterContext, LandInv, Sound, Blameless
<1>2. MayAccess(peer.role, route.module)
  BY <1>1 DEF MayAccess, Caller, Entry
<1>3. Guard = Ok
  BY <1>1, <1>2 DEF Guard, Owns
<1> QED
  BY <1>3 DEF EnterContext, Proceed

(* A command's handler knows the name and decodes what it stands for.       *)
LEMMA HandlerPasses ==
    ASSUME CourseInv, BodyInv, EnterHandler, Sound
    PROVE  at' = "handler"
<1> DEFINE command == CommandObject(Seqs!Last(request.call.sub))
<1>1. at = "late" /\ Matched(request, route) /\ Fitting /\ request \in Requests
  BY DEF EnterHandler, CourseInv, BodyInv, Serving
<1>2. Sighted(request) /\ request.kit /\ \A f : ~Flawed(f)
  BY <1>1, SoundIs
<1>3. ASSUME route.body = "command" PROVE command # None /\ ~MayFail(body, Canonical, command)
  <2>1. request.call.module = "commands" /\ request.call.means = "command"
    BY <1>1, <1>3, MatchedMeets DEF Meets
  <2>2. command = request.call.sends /\ command # None
    BY <1>1, <1>2, <2>1, KitCommands
  <2>3. request.call.method # "PATCH"
    BY <1>1, <1>3, PatchesArePatches DEF Matched
  <2> HIDE DEF command
  <2> QED
    BY <1>1, <1>2, <2>2, <2>3 DEF Fitting, MayFail
<1>4. Late = Ok
  BY <1>2, <1>3 DEF Late
<1> QED
  BY <1>4 DEF EnterHandler, Proceed

(* Declining is answering.                                                  *)
LEMMA HandleAnswers ==
    ASSUME Handle
    PROVE  handled' # Pending
<1>1. handled' = Ok \/ handled' \in Declines
  <2> DEFINE returned == T!Returned(route.module, route.role, route.handler)
  <2> HIDE DEF returned
  <2>1. \/ handled' = Ok
          /\ \E http \in returned.http : answer' = Reply(http, Doc(returned.object,
           Canonical))
        \/ \E error \in Declines : handled' = error /\ answer' = ErrorResponse(error)
    BY DEF Handle, returned
  <2> QED
    BY <2>1
<1>2. Ok.is # "pending"
  BY DEF Ok
<1>3. ASSUME NEW e \in Declines PROVE e.is # "pending"
  BY DeclinesAssumption DEF OcpiErrors, Err, Remote, MissingData
<1>4. Pending.is = "pending"
  BY DEF Pending
<1> QED
  BY <1>1, <1>2, <1>3, <1>4

LEMMA LandStep ==
    CourseInv /\ BodyInv /\ LandInv /\ [Next]_vars => LandInv'
<1> SUFFICES ASSUME CourseInv, BodyInv, LandInv, [Next]_vars PROVE LandInv'
  OBVIOUS
<1>1. CASE at = "idle" /\ \E r \in Requests : Send(r)
  BY <1>1, LandSend
<1>2. ASSUME UNCHANGED <<server, store, request>>, Sound' PROVE Sound
  BY <1>2, StillSound
<1>3. CASE EdgeIn
  <2>1. UNCHANGED <<server, store, request>> /\ at = "edge"
    BY <1>3 DEF EdgeIn
  <2>2. Sound' => at' = "route"
    BY <1>2, <1>3, <2>1, EdgePasses
  <2> QED
    BY <2>1, <2>2 DEF LandInv
<1>4. CASE Match
  <2>1. UNCHANGED <<server, store, request>> /\ at = "route"
    BY <1>4 DEF Match, MatchTo
  <2>2. Sound' => at' = "auth"
    BY <1>2, <1>4, <2>1, MatchPasses
  <2> QED
    BY <2>1, <2>2 DEF LandInv
<1>5. CASE Authenticate
  <2>1. UNCHANGED <<server, store, request>> /\ at = "auth"
    BY <1>5 DEF Authenticate
  <2>2. Sound' => at' = "query" /\ peer' = Caller
    BY <1>2, <1>5, <2>1, AuthenticatePasses
  <2> QED
    BY <2>1, <2>2 DEF LandInv
<1>6. CASE ReadQuery
  <2>1. UNCHANGED <<server, store, request, peer>> /\ at = "query"
    BY <1>6 DEF ReadQuery
  <2>2. Sound => at' = "body"
    BY <1>6, <2>1, SoundIs DEF ReadQuery, Proceed
  <2> QED
    BY <1>2, <2>1, <2>2 DEF LandInv
<1>7. CASE ReadBody
  <2>1. UNCHANGED <<server, store, request, peer>> /\ at = "body"
    BY <1>7 DEF ReadBody
  <2>2. Sound => at' = "scope"
    BY <1>7, BodyPasses
  <2> QED
    BY <1>2, <2>1, <2>2 DEF LandInv
<1>8. CASE EnterContext
  <2>1. UNCHANGED <<server, store, request, peer>> /\ at = "scope"
    BY <1>8 DEF EnterContext
  <2>2. Sound => at' = "late"
    BY <1>8, ContextPasses
  <2> QED
    BY <1>2, <2>1, <2>2 DEF LandInv
<1>9. CASE EnterHandler
  <2>1. UNCHANGED <<server, store, request, peer>> /\ at = "late"
    BY <1>9 DEF EnterHandler
  <2>2. Sound => at' = "handler"
    BY <1>9, HandlerPasses
  <2> QED
    BY <1>2, <2>1, <2>2 DEF LandInv
<1>10. CASE Handle
  <2>1. UNCHANGED store /\ at' = "reply"
    BY <1>10 DEF Handle
  <2> QED
    BY <1>10, <2>1, HandleAnswers DEF LandInv
<1>11. CASE EdgeOut \/ Receive
  <2>1. UNCHANGED <<server, store, request, handled>> /\ at \in {"reply", "client"}
        /\ at' \in {"client", "done"}
    BY <1>11 DEF EdgeOut, Receive, Sends, Proceed, outcome
  <2> QED
    BY <1>2, <2>1 DEF LandInv
<1>12. CASE Close
  BY <1>12 DEF Close, LandInv
<1>13. CASE \/ \E t \in Tokens : Revoke(t)
            \/ UNCHANGED vars
  <2>1. UNCHANGED <<server, at, request, peer, handled>> /\ store' \subseteq store
    BY <1>13 DEF Revoke, vars, outcome
  <2>2. Sound' => Sound
    BY <2>1, StillSound
  <2> QED
    BY <2>1, <2>2 DEF LandInv
<1> QED
  BY <1>1, <1>3, <1>4, <1>5, <1>6, <1>7, <1>8, <1>9, <1>10, <1>11, <1>12, <1>13 DEF Next

(* What a typed client sends an interface, by a caller who may and with     *)
(* nothing wrong in it, reaches the handler it is meant for, and what comes *)
(* back is what the client wants: for every set of modules, every prefix    *)
(* and version, whatever else may be sent and whenever tokens are revoked,  *)
(* but for the calls that Gap names.                                        *)
THEOREM CallsAreLanded == Spec => []CallsLand
<1> DEFINE All == CourseInv /\ BodyInv /\ AnswerInv /\ LandInv
<1>1. Init => All
  BY CourseInit, BodyInit, AnswerInit, LandInit
<1>2. All /\ [Next]_vars => All'
  BY CourseStep, BodyStep, AnswerStep, LandStep
<1>3. All => CallsLand
  <2> SUFFICES ASSUME All, at = "done", Sound PROVE Landed
    BY DEF CallsLand, Sound
  <2>1. handled # Pending
    BY DEF LandInv
  <2>2. Matched(request, route)
    BY <2>1 DEF CourseInv
  <2>3. request.kit /\ Sighted(request)
    BY SoundIs
  <2>4. handled = Ok => told = Ok
    BY <2>1, <2>3, AnswersAreTold
  <2>5. route.module = request.call.module /\ route.role = request.call.role
        /\ route.handler = request.call.means
    BY <2>2, MatchedMeets DEF Meets
  <2> QED
    BY <2>1, <2>4, <2>5 DEF Landed
<1> QED
  BY <1>1, <1>2, <1>3, PTL DEF Spec
=============================================================================
