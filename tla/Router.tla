------------------------------- MODULE Router -------------------------------
(***************************************************************************)
(* A typed client and a server built by OcpiRouter, one request at a time: *)
(* client/modules.rs sends, server/bridge.rs translates at the edge,       *)
(* axum matches the path, the extractors of server/extract.rs run in the   *)
(* order of a handler's parameters, context_of and owned_context guard it, *)
(* the handler answers, and the answer travels back.                       *)
(*                                                                         *)
(* A request is served in steps, because every await between them lets     *)
(* another request change the token store: the peer an Auth extractor      *)
(* resolved is the one the handler is given however long the body takes.   *)
(*                                                                         *)
(* A document is the object it is and the version it is written in. What   *)
(* may be wrong with a request is a set of flaws, at most MaxFlaws of them.*)
(***************************************************************************)
EXTENDS Replies, TokenStore, FiniteSets
O == INSTANCE Shapes
R == INSTANCE Routes
T == INSTANCE HandlerTraits
C == INSTANCE ModuleClients

CONSTANTS Served,     \* the modules to mount, one at a time beside credentials
          MaxFlaws,   \* how many things may be wrong with one request
          Mistaken,   \* the objects that are sent for another
          Declines,   \* the errors a handler may return
          Revocable   \* the tokens that may be taken out of the store

ASSUME DeclinesAssumption == Declines \subseteq OcpiErrors(Codes)

Interfaces == {"Sender", "Receiver"}

VARIABLES server,   \* what is mounted, the receiver prefix, the version published
          store,    \* what the token store knows
          at,       \* how far the request has come
          request,  \* the call, who makes it and what is wrong with it
          route,    \* the route it was matched to
          peer,     \* whom Auth resolved
          body,     \* the document as it stands
          handled,  \* what the handler returned
          answer,   \* what is sent back
          told      \* what a typed client's call returns

vars == <<server, store, at, request, route, peer, body, handled, answer, told>>
outcome == <<handled, answer, told>>

-----------------------------------------------------------------------------
(* The server.                                                             *)

Mounted(roles, module) == {<<module, r>> : r \in roles} \cup {<<"credentials", "Sender">>}

(* check_interface_conflict: the interfaces of these have the same shape.   *)
Ambiguous == {"locations", "chargingprofiles", "payments"}

Bridging(version) == version # Canonical

(* What the mounts and build() accept: a version that can be translated, and *)
(* a prefix for both interfaces of a module when their paths, or the edge,   *)
(* could not tell them apart without one.                                    *)
Builds(s, module) ==
    /\ Bridgeable(Canonical, s.version)
    /\ (s.prefix = None /\ \A r \in Interfaces : <<module, r>> \in s.mounted)
       => module \notin Ambiguous /\ ~Bridging(s.version)

Servers ==
    UNION {{s \in [mounted : {Mounted(roles, module) : roles \in (SUBSET Interfaces) \ {{}}},
                   prefix : {None, "bare", "slashed"}, version : {"2.1.1"} \cup Versions] :
               Builds(s, module)} :
             module \in Served}

Routes == R!RoutesServed(server.mounted, server.prefix)

(* Plausible slip: the prefix is left out of what is published.             *)
Advertised_Bare(module, role) == <<module>>

(* version_details: the URL published for an interface.                     *)
Advertised(module, role) ==
    R!ReceiverPath(IF role = "Receiver" THEN server.prefix ELSE None, <<module>>)

(* Plausible slip: what is mounted settles the interface, prefix or not.     *)
EndpointOf_ByMount(path) ==
    LET segments == Segments(path)
        prefixed == server.prefix = "bare" /\ segments # <<>> /\ Head(segments) = "receiver"
        rest == IF prefixed THEN Tail(segments) ELSE segments
        module == IF rest = <<>> THEN None ELSE Head(rest)
    IN  [module |-> module,
         interface |-> IF <<module, "Sender">> \in server.mounted THEN "Sender" ELSE "Receiver",
         below |-> IF rest = <<>> THEN <<>> ELSE Tail(rest)]

(* endpoint_of: a first segment equal to the prefix, as configured, makes a *)
(* Receiver request. A prefix with a slash in it equals no segment.         *)
EndpointOf(path) ==
    LET segments == Segments(path)
        prefixed == server.prefix = "bare" /\ segments # <<>> /\ Head(segments) = "receiver"
        rest == IF prefixed THEN Tail(segments) ELSE segments
        module == IF rest = <<>> THEN None ELSE Head(rest)
    IN  [module |-> module,
         interface |-> IF ~prefixed /\ <<module, "Sender">> \in server.mounted
                       THEN "Sender" ELSE "Receiver",
         below |-> IF rest = <<>> THEN <<>> ELSE Tail(rest)]

KindAt(path, payload) ==
    LET e == EndpointOf(path) IN ForEndpoint(e.module, e.interface, e.below, payload)

-----------------------------------------------------------------------------
(* Requests.                                                               *)

Tokens == {"token_c", "token_a", "stranger"}
Parties == [own |-> <<"NL", "TNM">>, other |-> <<"DE", "ABC">>, bad |-> <<"TOOLONG", "TNM">>]

(* What other software may send besides what the typed clients send: an     *)
(* unknown command, the DELETE of a tariff at the path it is mounted at.    *)
OtherCalls ==
    C!Calls("commands", "Receiver", FALSE,
            {<<"POST", <<"DANCE">>, "command", C!Plain("StopSession"), C!Plain("CommandResponse")>>})
    \cup C!Calls("tariffs", "Receiver", TRUE,
            {<<"DELETE", <<"T1", "">>, "delete_tariff", C!Nothing, C!Nothing>>})

(* What can be wrong with a call.                                           *)
FlawsOf(call) ==
    LET with_body == call.sends # None
    IN  {f \in {"content_type", "malformed"} : with_body}
        \cup {f \in {"wrong_object"} : with_body /\ call.method # "PATCH"}
        \cup {f \in {"unstamped", "diverges"} : call.method = "PATCH"}
        \cup {f \in {"bad_query"} : call.means \in {"list", "terminals", "authorize", "token",
                                                    "active_charging_profile"}}
        \cup {f \in {"no_callback"} : call.means \in {"active_charging_profile",
                                                      "clear_charging_profile"}}
        \cup {f \in {"wrong_id"} : call.means = "put_location"}

SmallSets(S) == {F \in SUBSET S : Cardinality(F) <= MaxFlaws}

(* A typed client always writes a sound body and query; only what it is     *)
(* given to patch may be wrong. Other software sends anything.              *)
RequestsOf(call, kit) ==
    [call : {call}, kit : {kit}, token : Tokens,
     party : IF ~call.names THEN {"own"} ELSE IF kit THEN {"own", "other"} ELSE DOMAIN Parties,
     flaws : SmallSets(IF kit THEN FlawsOf(call) \cap {"unstamped", "diverges"}
                       ELSE FlawsOf(call))]

Requests ==
    LET open(calls) == {c \in calls : <<c.module, c.role>> \in server.mounted}
    IN  (UNION {RequestsOf(call, TRUE) : call \in open(C!AllCalls)})
        \cup (UNION {RequestsOf(call, FALSE) : call \in open(C!AllCalls \cup OtherCalls)})

(* Where the request goes: a typed client builds on the URL it discovered,  *)
(* other software has been told where the interface is.                     *)
Path(r) ==
    LET base == IF r.call.module = "commands" /\ ~r.kit THEN <<"commands">>
                ELSE Advertised(r.call.module, r.call.role)
    IN  (IF r.call.under = None THEN base ELSE C!E!SubPath(base, r.call.under))
        \o (IF r.call.names THEN Parties[r.party] ELSE <<>>) \o r.call.sub

Flawed(f) == f \in request.flaws

NoRequest == [call |-> None]
NoRoute == [handler |-> None]

-----------------------------------------------------------------------------
(* Answers.                                                                *)

Pending == [is |-> "pending", code |-> NoCode]
NoAnswer == Bounced(0)

(* A refusal from inside the router passes the edge on its way out, like    *)
(* any answer.                                                              *)
Sends(stage, reply) ==
    /\ at' = stage
    /\ answer' = reply
    /\ UNCHANGED <<handled, told>>

Refuse(error) == Sends("reply", ErrorResponse(error))

Proceed(stage) ==
    /\ at' = stage
    /\ UNCHANGED outcome

-----------------------------------------------------------------------------
Init ==
    /\ server \in Servers
    /\ store = {Entry("token_c", "peer", "C"), Entry("token_a", "newcomer", "A")}
    /\ at = "idle"
    /\ request = NoRequest /\ route = NoRoute
    /\ peer = Unknown
    /\ body = NoDoc
    /\ handled = Pending /\ answer = NoAnswer /\ told = Pending

(* The fields a patch writes.                                               *)
FieldsOf(r, kind) ==
    (IF "unstamped" \in r.flaws THEN {} ELSE {"last_updated"})
    \cup (IF "diverges" \in r.flaws THEN DivergentFields(kind) ELSE {})

(* patch and patch_bridged: what a typed client refuses to send. Payments    *)
(* has a patch of its own, which checks nothing.                             *)
ClientRefuses(r) ==
    /\ r.kit /\ r.call.method = "PATCH" /\ r.call.module # "payments"
    /\ \/ "unstamped" \in r.flaws
       \/ Bridging(server.version) /\ ~PatchCrossesUnchanged(r.call.out, FieldsOf(r, r.call.out))

(* The document as it leaves: a typed client writes the canonical model and  *)
(* translates it when the peer's version is another, other software writes   *)
(* the version it read the URL of, and perhaps another object.               *)
Written(r) ==
    IF "wrong_object" \in r.flaws
    THEN {Doc(object, server.version) : object \in Mistaken \ {r.call.sends}}
    ELSE {Doc(r.call.sends,
              IF ~r.kit \/ r.call.out \in Kinds THEN server.version ELSE Canonical)}

(* Decoding one object as another: what it requires has to be there, and     *)
(* what is there may have another type. Members nobody knows are kept.       *)
MayDecode(document, version, object) ==
    \/ document.is = object /\ document.version = version
    \/ /\ {document.is, object} \subseteq O!Types
       /\ O!ShapeOf(version, object).required
             \subseteq O!Known(document.version, document.is)

MayFail(document, version, object) ==
    document.is # object \/ (object \in Kinds /\ document.version # version)

Send(r) ==
    /\ request' = r
    /\ IF ClientRefuses(r)
       THEN /\ at' = "done" /\ told' = Err("Decode")
            /\ UNCHANGED <<body, handled, answer>>
       ELSE /\ body' \in Written(r)
            /\ Proceed(IF Bridging(server.version) THEN "edge" ELSE "route")
    /\ UNCHANGED <<server, store, route, peer>>

(* translate, on the way in. It reads the body of whoever sent it: nobody    *)
(* has asked for a token yet. Its refusals do not pass the edge again.       *)
EdgeIn ==
    /\ at = "edge"
    /\ LET kind == KindAt(Path(request), "Request")
           patch == request.call.method = "PATCH"
           refuse(error) == Sends("client", ErrorResponse(Err(error))) /\ UNCHANGED body
       IN  \/ /\ kind = NoKind \/ (body.is = None /\ ~patch)
              /\ Proceed("route") /\ UNCHANGED body
           \/ kind # NoKind /\ body.is # None /\ Flawed("malformed") /\ refuse("MalformedJson")
           \/ /\ kind # NoKind /\ patch /\ ~Flawed("malformed")
              /\ IF PatchCrossesUnchanged(kind, FieldsOf(request, kind))
                 THEN Proceed("route") /\ UNCHANGED body
                 ELSE refuse("Unsupported")
           \/ /\ kind # NoKind /\ body.is # None /\ ~patch /\ ~Flawed("malformed")
              /\ \/ /\ MayDecode(body, server.version, kind)
                    /\ Proceed("route") /\ body' = Doc(kind, Canonical)
                 \/ MayFail(body, server.version, kind) /\ refuse("Decode")
    /\ UNCHANGED <<server, store, request, route, peer>>

(* axum: no path, 404; a path without the method, 405. Nobody has been      *)
(* authenticated yet.                                                       *)
MatchTo(stage) ==
    /\ at = "route"
    /\ LET here == R!AtPath(Routes, Path(request))
           able == {r \in here : r.method = request.call.method}
       IN  \/ here = {} /\ Sends("reply", Bounced(404)) /\ UNCHANGED route
           \/ here # {} /\ able = {} /\ Sends("reply", Bounced(405)) /\ UNCHANGED route
           \/ able # {} /\ route' = (CHOOSE r \in able : TRUE) /\ Proceed(stage)
    /\ UNCHANGED <<server, store, request, peer, body>>

(* Plausible slip: a handler without the Auth extractor.                    *)
Match_NoAuth == MatchTo("query")

Match == MatchTo("auth")

(* TokenStore::resolve, of whichever implementation the application brings. *)
Lookup(token) ==
    IF \E e \in store : e.token = token THEN CHOOSE e \in store : e.token = token ELSE Unknown

(* Auth, the first extractor of every handler.                              *)
Authenticate ==
    /\ at = "auth"
    /\ peer' = Lookup(request.token)
    /\ IF peer' = Unknown THEN Refuse(Err("Unauthorized")) ELSE Proceed("query")
    /\ UNCHANGED <<server, store, request, route, body>>

(* Ids, Routing and Path never refuse. Page turns a query it cannot read    *)
(* into a 2001, a bare Query is refused by axum itself.                     *)
ReadQuery ==
    /\ at = "query"
    /\ IF route.query # None /\ Flawed("bad_query")
       THEN IF route.query = "page" THEN Refuse(Err("Decode"))
            ELSE Sends("reply", Bounced(400))
       ELSE Proceed("body")
    /\ UNCHANGED <<server, store, request, route, peer, body>>

(* OcpiJson and OcpiPatch, the last extractors. A patch is any JSON object.  *)
ReadBody ==
    /\ at = "body"
    /\ IF route.body \notin {"json", "patch"} THEN Proceed("scope")
       ELSE \/ Flawed("content_type") /\ Refuse(Err("Decode"))
            \/ ~Flawed("content_type") /\ Flawed("malformed") /\ Refuse(Err("MalformedJson"))
            \/ /\ ~Flawed("content_type") /\ ~Flawed("malformed")
               /\ \/ /\ route.body = "json" /\ MayDecode(body, Canonical, route.takes)
                     /\ Proceed("scope")
                  \/ /\ route.body = "json" /\ MayFail(body, Canonical, route.takes)
                     /\ Refuse(Err("Decode"))
                  \/ /\ route.body = "patch"
                     /\ IF Flawed("unstamped") THEN Refuse(Err("Decode")) ELSE Proceed("scope")
    /\ UNCHANGED <<server, store, request, route, peer, body>>

(* check_ownership: the party in the path against the parties of the peer.  *)
Owns(r) == r.party = "own"

(* Plausible slip: the party is read, and not compared with the caller.     *)
Guard_NoOwnership ==
    IF ~MayAccess(peer.role, route.module) THEN Err("TokenAOutOfScope")
    ELSE IF route.addressed # None /\ request.party = "bad" THEN Err("NotFound")
    ELSE Ok

(* context_of and owned_context: scope first, then the party in the path,   *)
(* then whether it is the caller's own.                                     *)
Guard ==
    IF ~MayAccess(peer.role, route.module) THEN Err("TokenAOutOfScope")
    ELSE IF route.addressed # None /\ request.party = "bad" THEN Err("NotFound")
    ELSE IF route.addressed = "owned" /\ ~Owns(request) THEN Err("NotFound")
    ELSE Ok

EnterContext ==
    /\ at = "scope"
    /\ IF Guard # Ok THEN Refuse(Guard) ELSE Proceed("late")
    /\ UNCHANGED <<server, store, request, route, peer, body>>

(* parse_command: the object the name in the path stands for.               *)
CommandObject(name) ==
    CASE name = "START_SESSION" -> "StartSession"
      [] name = "RESERVE_NOW" -> "ReserveNow"
      [] name = "STOP_SESSION" -> "StopSession"
      [] name = "CANCEL_RESERVATION" -> "CancelReservation"
      [] name = "UNLOCK_CONNECTOR" -> "UnlockConnector"
      [] OTHER -> None

(* What a handler's own code still refuses: an unknown command, bytes it    *)
(* decodes itself, an id that is not the URL's, a callback left out.        *)
Late ==
    LET command == CommandObject(Seqs!Last(request.call.sub))
        wrong(object) == Flawed("wrong_object") \/ MayFail(body, Canonical, object)
    IN  IF route.body = "command" /\ command = None THEN Err("NotFound")
        ELSE IF route.body = "command" /\ (Flawed("malformed") \/ wrong(command))
        THEN Err("Decode")
        ELSE IF route.body = "optional" /\ (Flawed("malformed") \/ Flawed("wrong_object"))
        THEN Err("Decode")
        ELSE IF route.body = "partial" /\ Flawed("malformed") THEN Err("MalformedJson")
        ELSE IF \/ route.body = "partial" /\ Flawed("wrong_object")
                \/ route.handler = "put_location" /\ Flawed("wrong_id")
                \/ route.query = "profile" /\ Flawed("no_callback")
        THEN Err("Decode")
        ELSE Ok

EnterHandler ==
    /\ at = "late"
    /\ IF Late # Ok THEN Refuse(Late) ELSE Proceed("handler")
    /\ UNCHANGED <<server, store, request, route, peer, body>>

(* The handler is the application's: it returns what its trait says, or     *)
(* declines with any OcpiError, one that another peer told it included.     *)
Handle ==
    /\ at = "handler"
    /\ at' = "reply"
    /\ LET returned == T!Returned(route.module, route.role, route.handler)
       IN  \/ /\ handled' = Ok
              /\ \E http \in returned.http : answer' = Reply(http, Doc(returned.object, Canonical))
           \/ \E error \in Declines : handled' = error /\ answer' = ErrorResponse(error)
    /\ UNCHANGED <<server, store, request, route, peer, body, told>>

(* translate, on the way out. An answer without data is left alone.         *)
EdgeOut ==
    /\ at = "reply"
    /\ LET kind == KindAt(Path(request), "Response")
       IN  IF ~Bridging(server.version) \/ kind = NoKind \/ answer.data.is = None
           THEN Proceed("client")
           ELSE IF answer.data.is = kind
           THEN Sends("client", [answer EXCEPT !.data = Doc(kind, server.version)])
           ELSE Sends("client", ErrorResponse(Err("Transport")))
    /\ UNCHANGED <<server, store, request, route, peer, body>>

(* What a call wants of an answer's data.                                   *)
Lists == {"list", "terminals", "financial_advice_confirmations"}
Wants(call) == IF call.wants # None /\ call.means \in Lists THEN "list" ELSE call.wants

(* A typed client decodes an answer as the object it wants, translating it  *)
(* first when the peer's version is another. Other software reads on its own. *)
Receive ==
    /\ at = "client"
    /\ at' = "done"
    /\ LET call == request.call
           fits == answer.data.is = call.wants
                   /\ (call.back \in Kinds => answer.data.version = server.version)
       IN  told' = IF request.kit THEN Outcome(answer, Wants(call), fits) ELSE told
    /\ UNCHANGED <<server, store, request, route, peer, body, handled, answer>>

(* The connection is ready for the next request.                            *)
Close ==
    /\ at = "done"
    /\ at' = "idle"
    /\ request' = NoRequest /\ route' = NoRoute
    /\ peer' = Unknown
    /\ body' = NoDoc
    /\ handled' = Pending /\ answer' = NoAnswer /\ told' = Pending
    /\ UNCHANGED <<server, store>>

(* The store, changed by other requests or by the operator.                 *)
Revoke(t) ==
    /\ t \in Revocable \cap {e.token : e \in store}
    /\ store' = {e \in store : e.token # t}
    /\ UNCHANGED <<server, at, request, route, peer, body>>
    /\ UNCHANGED outcome

Next ==
    \/ at = "idle" /\ \E r \in Requests : Send(r)
    \/ EdgeIn \/ Match \/ Authenticate \/ ReadQuery \/ ReadBody \/ EnterContext
    \/ EnterHandler \/ Handle \/ EdgeOut \/ Receive \/ Close
    \/ \E t \in Tokens : Revoke(t)

Spec == Init /\ [][Next]_vars

-----------------------------------------------------------------------------
(* Properties.                                                             *)

(* The receiver prefix is configured with a slash in it, on a router that   *)
(* translates: the paths are served trimmed, the edge looks for the prefix  *)
(* as it is written and finds no Receiver request.                          *)
EdgeBlind == Bridging(server.version) /\ server.prefix = "slashed"

(* A handler is entered only for a peer the store knew when it was asked,   *)
(* within the scope of its token, and in a path that names an owner only by *)
(* the owner (context_of and owned_context), whatever happened before.      *)
Guarded ==
    at \in {"late", "handler"} \/ handled # Pending =>
        /\ peer # Unknown
        /\ peer.token = request.token
        /\ MayAccess(peer.role, route.module)
        /\ route.addressed = "owned" => Owns(request)

(* What a typed client sends an interface, by a caller who may and with     *)
(* nothing wrong in it, reaches the handler it is meant for, and what comes *)
(* back is what the client wants: the paths of the clients, of the router   *)
(* and of version_details agree, and the clients' kinds with the edge's.    *)
(* Gap names where they do not.                                             *)
Blameless ==
    /\ request.kit /\ request.flaws = {}
    /\ request.token = "token_c" /\ Lookup("token_c") # Unknown
    /\ request.party = "own"

Gap ==
    LET call == request.call
    IN  \/ call.means = "delete_tariff"                            \* mounted with a slash at the end
        \/ call.means = "command" /\ server.prefix # None          \* mounted without the prefix
        \/ call.means = "patch" /\ Len(call.sub) > 1               \* no route for an EVSE, a Connector
        \/ /\ Bridging(server.version) /\ call.means = "command_result"
           /\ Head(call.sub) \in {"START_SESSION", "RESERVE_NOW"}  \* taken for the command
        \/ EdgeBlind /\ call.role = "Receiver"

Landed ==
    /\ handled # Pending
    /\ handled = Ok => told = Ok
    /\ <<route.module, route.role, route.handler>> =
          <<request.call.module, request.call.role, request.call.means>>

CallsLand == at = "done" /\ Blameless /\ ~Gap => Landed

(* "a peer's discovery can never disagree with what this server actually    *)
(* serves" (OcpiRouter): the URL a typed client took from the version       *)
(* details is one the interface has a route under.                          *)
DiscoveryIsServed ==
    at = "done" /\ Blameless =>
        LET url == Advertised(request.call.module, request.call.role)
        IN  \E r \in Routes :
               /\ <<r.module, r.role>> = <<request.call.module, request.call.role>>
               /\ SubSeq(r.path, 1, Len(url)) = url

(* A handler is given the object it is written for, in the canonical model, *)
(* whichever version the router publishes and whoever sends it: the table   *)
(* the edge reads off a path agrees with what the routes decode.            *)
NoMisread ==
    at = "handler" /\ route.body \in {"json", "command"}
    /\ ~EdgeBlind /\ ~Flawed("wrong_object") =>
        /\ body.is = (IF route.body = "json" THEN route.takes
                      ELSE CommandObject(Seqs!Last(request.call.sub)))
        /\ body.is \in Kinds => body.version = Canonical

(* A merge patch is not translated, so one that reaches a handler across    *)
(* versions writes only fields both have.                                   *)
PatchAgrees ==
    at = "handler" /\ route.body = "patch" /\ Bridging(server.version) /\ ~EdgeBlind =>
        FieldsOf(request, route.takes) \cap DivergentFields(route.takes) = {}

(* What a typed client's call returns is what the handler returned: it      *)
(* succeeds when the handler did, and otherwise lays the fault where the    *)
(* handler laid it, though most errors share a status and the peer's        *)
(* version may be another. A peer's success code that a handler passed on   *)
(* as an error is read as success, or as an answer without its data.        *)
PassedOn == handled.is \in {"Remote", "MissingData"} /\ IsSuccess(handled.code)

OutcomeTold ==
    at = "done" /\ request.kit /\ handled # Pending /\ ~EdgeBlind =>
        /\ told = Ok <=> handled = Ok \/ (PassedOn /\ Wants(request.call) \in {None, "list"})
        /\ Class(StatusCode(told)) = Class(StatusCode(handled))

(* A caller nobody knows is told that, or that nothing is there to know; at *)
(* the edge of a translating router its body may be refused before anybody  *)
(* asks who it is.                                                          *)
StrangersTold ==
    at = "done" /\ request.token = "stranger" =>
        \/ answer = NoAnswer \/ answer.http \in {401, 404, 405}
        \/ Bridging(server.version) /\ route = NoRoute /\ answer.code # NoCode
=============================================================================
