---------------------------- MODULE Registration ----------------------------
(***************************************************************************)
(* client/registration.rs against server/auth.rs: platforms register with  *)
(* a server, renew their credentials and leave, over a network that loses   *)
(* requests and answers. Only GETs are tried again; a POST, PUT or DELETE   *)
(* that times out may still be carried out, at any later moment.           *)
(*                                                                         *)
(* The server's Auth extractor resolves the token before the body is read  *)
(* and the handler run: those are two steps. The CredentialsHandler is the  *)
(* integrator's; here it is the one the trait's comment asks for, with     *)
(* PeerState for the 405 rules and the TokenStore operation that is        *)
(* documented for its method.                                              *)
(***************************************************************************)
EXTENDS TokenStore

CONSTANTS
    Platforms,
    Tokens,      \* tokens are unguessable; a forgotten one may be drawn again
    Slots,       \* bound: POST, PUT and DELETE requests that may be under way
    Reinvites    \* does the operator invite a platform that is registered?

NoToken == "no token"
NoSlot == "no slot"

(* What stands for no token, no slot or another outcome is none.           *)
ASSUME RegistrationAssumption ==
    /\ Reinvites \in BOOLEAN
    /\ Tokens \cap {NoToken, "error", "done"} = {}
    /\ NoToken \notin Platforms
    /\ NoSlot \notin Slots

VARIABLES
    entries,     \* the server's token store
    server,      \* its PeerState of each platform, with the tokens it gave it
    client,      \* each platform's Peer, invitation and handshake
    requests,    \* what is under way, by slot
    spent,       \* history: tokens replaced or taken back
    mishap       \* history: a call given up or a registration reset by hand

rvars == <<entries, server, client, requests, spent, mishap>>

Free == [stage |-> "free"]
NoFlow == [at |-> "none", token |-> NoToken]
States == {"bootstrapped", "registered", "unregistered"}

(* A token nobody holds and no message carries.                            *)
Unused(t) ==
    /\ \A e \in Known(entries) : e.token # t
    /\ \A p \in Platforms :
          /\ t \notin {server[p].invitation, server[p].token}
          /\ t \notin {client[p].invitation, client[p].peer, client[p].flow.token}
    /\ \A s \in Slots : requests[s] # Free => t \notin {requests[s].token, requests[s].reply}

Init ==
    /\ entries = <<>>
    /\ server = [p \in Platforms |->
                    [state |-> "unregistered", invitation |-> NoToken, token |-> NoToken]]
    /\ client = [p \in Platforms |->
                    [peer |-> NoToken, invitation |-> NoToken, flow |-> NoFlow, call |-> NoSlot]]
    /\ requests = [s \in Slots |-> Free]
    /\ spent = {}
    /\ mishap = [p \in Platforms |-> FALSE]

-----------------------------------------------------------------------------
(* PeerState: which credentials methods are right in a state.              *)

(* Plausible slip: the 405 for a platform that is registered is left out.   *)
AcceptsPost_Always(state) == state \in States

AcceptsPost(state) == state \in {"bootstrapped", "unregistered"}
AcceptsPutOrDelete(state) == state = "registered"

(* The operator hands out CREDENTIALS_TOKEN_A, in place of an earlier one. *)
Invite(p, t) ==
    /\ Unused(t)
    /\ Reinvites \/ server[p].state # "registered"
    /\ entries' = Insert(Remove(entries, server[p].invitation), t, p, "A")
    /\ server' = [server EXCEPT ![p].invitation = t,
                                ![p].state = IF @ = "registered" THEN @ ELSE "bootstrapped"]
    /\ client' = [client EXCEPT ![p].invitation = t]
    /\ spent' = (spent \cup {server[p].invitation}) \ {t, NoToken}
    /\ UNCHANGED <<requests, mishap>>

(* The operator ends a registration that its platform cannot use any more. *)
Reset(p) ==
    /\ server[p].state = "registered"
    /\ ~Admits(entries, client[p].peer, "locations")
    /\ entries' = Remove(entries, server[p].token)
    /\ spent' = spent \cup {server[p].token}
    /\ server' = [server EXCEPT ![p].state = "unregistered", ![p].token = NoToken]
    /\ mishap' = [mishap EXCEPT ![p] = TRUE]
    /\ UNCHANGED <<client, requests>>

-----------------------------------------------------------------------------
(* The client: Registration, Discovered, Selected, Peer.                   *)

(* Registration::new, with an invitation or with the token in use.         *)
Begin(p) ==
    /\ client[p].flow = NoFlow
    /\ client[p].call = NoSlot
    /\ \E t \in {client[p].invitation, client[p].peer} \ {NoToken} :
          client' = [client EXCEPT ![p].flow = [at |-> "new", token |-> t]]
    /\ UNCHANGED <<entries, server, requests, spent, mishap>>

(* discover() and select() are GETs that consume the value they are called  *)
(* on: an error, or a peer that never answers, leaves nothing.              *)
FollowsOn == [new |-> "discovered", discovered |-> "selected"]
Discover(p) ==
    /\ client[p].flow.at \in DOMAIN FollowsOn
    /\ \/ /\ Admits(entries, client[p].flow.token, "versions")
          /\ client' = [client EXCEPT ![p].flow.at = FollowsOn[@]]
       \/ client' = [client EXCEPT ![p].flow = NoFlow]
    /\ UNCHANGED <<entries, server, requests, spent, mishap>>

Sends(p, method, t) ==
    /\ client[p].call = NoSlot
    /\ t # NoToken
    /\ \E s \in Slots :
          /\ requests[s] = Free
          /\ requests' = [requests EXCEPT ![s] =
                 [stage |-> "sent", from |-> p, method |-> method, token |-> t,
                  as |-> NoToken, reply |-> NoToken]]
          /\ client' = [client EXCEPT ![p].call = s, ![p].flow = NoFlow]
    /\ UNCHANGED <<entries, server, spent, mishap>>

Register(p) == client[p].flow.at = "selected" /\ Sends(p, "POST", client[p].flow.token)

(* The current token is an argument of update(): what is in use, or, for    *)
(* want of that, what the handshake was begun with.                        *)
UpdateWith(p, t) ==
    /\ client[p].flow.at = "selected"
    /\ t \in {client[p].peer, client[p].flow.token}
    /\ Sends(p, "PUT", t)

Unregister(p) == client[p].flow = NoFlow /\ Sends(p, "DELETE", client[p].peer)

(* Plausible slip: the token of the answer to a PUT is not taken over.      *)
Receive_KeepsToken(p) ==
    LET s == client[p].call
        r == requests[s]
    IN  /\ s # NoSlot
        /\ r.stage = "answered" /\ r.from = p
        /\ client' = [client EXCEPT
               ![p].call = NoSlot,
               ![p].peer = IF r.reply = "error" \/ r.method = "PUT" THEN @
                           ELSE IF r.method = "DELETE" THEN NoToken ELSE r.reply,
               ![p].invitation = IF r.reply # "error" /\ r.method = "POST" /\ @ = r.token
                                 THEN NoToken ELSE @]
        /\ requests' = [requests EXCEPT ![s] = Free]
        /\ UNCHANGED <<entries, server, spent, mishap>>

(* The answer to the call p waits for. The new Peer has the token in it; an *)
(* error leaves what there was.                                             *)
Receive(p) ==
    LET s == client[p].call
        r == requests[s]
    IN  /\ s # NoSlot
        /\ r.stage = "answered" /\ r.from = p
        /\ client' = [client EXCEPT
               ![p].call = NoSlot,
               ![p].peer = IF r.reply = "error" THEN @
                           ELSE IF r.method = "DELETE" THEN NoToken ELSE r.reply,
               ![p].invitation = IF r.reply # "error" /\ r.method = "POST" /\ @ = r.token
                                 THEN NoToken ELSE @]
        /\ requests' = [requests EXCEPT ![s] = Free]
        /\ UNCHANGED <<entries, server, spent, mishap>>

(* ClientConfig.timeout, an answer that cannot be decoded or converted, or  *)
(* the process restarts and reads back its Peer.                           *)
GiveUp(p) ==
    /\ client[p].call # NoSlot
    /\ client' = [client EXCEPT ![p].call = NoSlot]
    /\ mishap' = [mishap EXCEPT ![p] = TRUE]
    /\ UNCHANGED <<entries, server, requests, spent>>

-----------------------------------------------------------------------------
(* The server.                                                             *)

(* An answer nobody waits for any more goes nowhere.                       *)
Answer(s, reply) ==
    requests' = [requests EXCEPT ![s] =
        IF client[@.from].call = s THEN [@ EXCEPT !.stage = "answered", !.reply = reply] ELSE Free]

(* The network drops a request or an answer.                               *)
Lose(s) ==
    /\ requests[s].stage \in {"sent", "answered"}
    /\ requests' = [requests EXCEPT ![s] = Free]
    /\ UNCHANGED <<entries, server, client, spent, mishap>>

(* The extractor Auth, then context_of(): who calls, and may they?         *)
Authenticate(s) ==
    /\ requests[s].stage = "sent"
    /\ IF Admits(entries, requests[s].token, "credentials")
       THEN requests' = [requests EXCEPT ![s].stage = "handled",
                                         ![s].as = Resolve(entries, requests[s].token).platform]
       ELSE Answer(s, "error")
    /\ UNCHANGED <<entries, server, client, spent, mishap>>

Handles(s, method) == requests[s].stage = "handled" /\ requests[s].method = method

(* The body cannot be read or the caller not be called back (3001), or the  *)
(* method is wrong in the state the registration is in (405).              *)
HandleRefuses(s) ==
    /\ requests[s].stage = "handled"
    /\ \/ requests[s].method \in {"POST", "PUT"}
       \/ ~AcceptsPutOrDelete(server[requests[s].as].state)
    /\ Answer(s, "error")
    /\ UNCHANGED <<entries, server, client, spent, mishap>>

(* POST: CREDENTIALS_TOKEN_C is made, CREDENTIALS_TOKEN_A thrown away.      *)
HandlePost(s, t) ==
    LET p == requests[s].as IN
    /\ Handles(s, "POST")
    /\ AcceptsPost(server[p].state)
    /\ Unused(t)
    /\ entries' = Insert(Remove(entries, server[p].invitation), t, p, "C")
    /\ server' = [server EXCEPT ![p] =
                     [state |-> "registered", invitation |-> NoToken, token |-> t]]
    /\ spent' = (spent \cup {server[p].invitation}) \ {t, NoToken}
    /\ Answer(s, t)
    /\ UNCHANGED <<client, mishap>>

(* PUT: the token is replaced.                                             *)
HandlePut(s, t) ==
    LET p == requests[s].as IN
    /\ Handles(s, "PUT")
    /\ AcceptsPutOrDelete(server[p].state)
    /\ Unused(t)
    /\ entries' = Rotate(entries, p, t)
    /\ server' = [server EXCEPT ![p].token = t]
    /\ spent' = (spent \cup {server[p].token}) \ {t}
    /\ Answer(s, t)
    /\ UNCHANGED <<client, mishap>>

HandleDelete(s) ==
    LET p == requests[s].as IN
    /\ Handles(s, "DELETE")
    /\ AcceptsPutOrDelete(server[p].state)
    /\ entries' = Remove(entries, server[p].token)
    /\ server' = [server EXCEPT ![p].state = "unregistered", ![p].token = NoToken]
    /\ spent' = spent \cup {server[p].token}
    /\ Answer(s, "done")
    /\ UNCHANGED <<client, mishap>>

Next ==
    \/ \E p \in Platforms :
          \/ \E t \in Tokens : Invite(p, t) \/ UpdateWith(p, t)
          \/ Reset(p)
          \/ Begin(p) \/ Discover(p) \/ Register(p) \/ Unregister(p)
          \/ Receive(p) \/ GiveUp(p)
    \/ \E s \in Slots :
          \/ Lose(s) \/ Authenticate(s) \/ HandleRefuses(s) \/ HandleDelete(s)
          \/ \E t \in Tokens : HandlePost(s, t) \/ HandlePut(s, t)

Spec == Init /\ [][Next]_rvars

-----------------------------------------------------------------------------
(* Properties.                                                             *)

Drawn == Tokens \cup {NoToken}

(* Every variable has its type.                                            *)
TypeOK ==
    /\ entries \in Seq([token : Tokens, platform : Platforms, role : Roles])
    /\ server \in [Platforms -> [state : States, invitation : Drawn, token : Drawn]]
    /\ client \in [Platforms ->
           [peer : Drawn, invitation : Drawn, call : Slots \cup {NoSlot},
            flow : [at : {"none", "new", "discovered", "selected"}, token : Drawn]]]
    /\ requests \in [Slots -> {Free} \cup
           [stage : {"sent", "handled", "answered"}, from : Platforms,
            method : {"POST", "PUT", "DELETE"}, token : Tokens, as : Platforms \cup {NoToken},
            reply : Drawn \cup {"error", "done"}]]
    /\ spent \subseteq Tokens
    /\ mishap \in [Platforms -> BOOLEAN]

(* What the integrator's PeerState says and what the token store would do   *)
(* never part: a platform reaches the functional modules with the one token *)
(* it was given for that, and with it as long as it is registered.          *)
StoreAgrees ==
    \A p \in Platforms :
        /\ server[p].state = "registered" => Admits(entries, server[p].token, "locations")
        /\ \A t \in Tokens :
              Admits(entries, t, "locations") /\ Resolve(entries, t).platform = p
                  => t = server[p].token

(* A token that was replaced, used up or taken back lets nobody in again,   *)
(* whatever requests were under way when it was.                            *)
SpentStaysDead == \A t \in spent : ~Admits(entries, t, "versions")

(* Whose calls were all answered and whose registration nobody reset holds  *)
(* a token that works: no order of its own calls locks a platform out.      *)
NoSilentLockout ==
    \A p \in Platforms :
        client[p].peer # NoToken /\ client[p].call = NoSlot /\ ~mishap[p]
            => Admits(entries, client[p].peer, "locations")

(* server/auth.rs, of rotate(): "the old token stops working".             *)
OldTokenStopsWorking ==
    [][\A s \in Slots, t \in Tokens :
           HandlePut(s, t) => Resolve(entries', server[requests[s].as].token) = Unknown]_rvars
=============================================================================
