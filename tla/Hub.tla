--------------------------------- MODULE Hub ---------------------------------
(***************************************************************************)
(* hub/forwarder.rs: one message handed to the hub, from the scenario its  *)
(* headers ask for to the status code the sender is told, while platforms  *)
(* register, leave and change status under it.                             *)
(*                                                                         *)
(* Two messages only meet in the routing table, which changes freely here, *)
(* so one message at a time shows every interleaving that matters; the     *)
(* hub takes the next when it has answered.                                *)
(***************************************************************************)
EXTENDS RoutingTable

CONSTANTS
    HubParty,       \* Forwarder.hub
    NoParty,        \* the OCPI-to-* headers are absent, or no owner in a body
    Requests,       \* the Forwardable values a sender may hand over
    InitialTable,   \* the platforms that have registered before
    Concurrency,    \* with_concurrency's argument
    Verbatim,       \* Unbridgeable::RelayVerbatim rather than ::Refuse
    MaxAttempts,    \* RetryPolicy::max_attempts of the hub's transport
    MaxChanges      \* bound: how often the table changes

Policies == {"FirstErrorWins", "AnySuccess", "AlwaysSucceed"}
Versions == {"2.1.1", "2.2.1", "2.3.0"}

(* What a body or an answer may be, by what ObjectKind::for_endpoint() makes *)
(* of its endpoint: `named' is an object it has a kind for, and `agreed' a   *)
(* merge patch of one, of fields 2.2.1 and 2.3.0 agree about. It names no   *)
(* kind for `same', an object no version changed (StopSession), nor for     *)
(* `foreign', one that 2.1.1 wrote otherwise (CommandResponse, which there  *)
(* has no timeout).                                                         *)
Unnamed == {"same", "foreign"}
Payloads == {"none", "named", "agreed"} \cup Unnamed

ASSUME HubAssumption ==
    /\ Concurrency \in Nat
    /\ Verbatim \in BOOLEAN
    /\ MaxAttempts \in Nat
    /\ MaxChanges \in Nat
    /\ DOMAIN InitialTable \subseteq Platforms
    /\ \A p \in DOMAIN InitialTable : InitialTable[p] \in Registrations
    /\ \A r \in Registrations : r.version \in Versions
    /\ \A r \in Requests :
        /\ r.method \in {"GET", "PUT", "PATCH", "POST"}
        /\ r.interface \in Interfaces
        /\ r.role \in Roles
        /\ r.version \in Versions
        /\ r.body \in Payloads
        /\ r.answer \in Payloads

VARIABLES
    changes,    \* how often the table changed
    request,    \* the Forwardable in hand
    phase,      \* "idle", "relaying" or "told"
    scenario,   \* what scenario() made of it
    legs,       \* the fan-out's calls, by target
    told,       \* the status code the sender gets, by the hub's policy
    held        \* history: the tables there were since the message came

hvars == <<table, changes, request, phase, scenario, legs, told, held>>

-----------------------------------------------------------------------------

(* forwarder.rs scenario() *)
ScenarioOf(r) ==
    IF r.to = NoParty THEN "open"
    ELSE IF r.to # HubParty THEN "direct"
    ELSE IF r.method = "GET"
         THEN IF r.interface = "SENDER" THEN "getall" ELSE "refused"
         ELSE IF r.interface = "RECEIVER" THEN "broadcast" ELSE "refused"

FanOut == scenario \in {"broadcast", "getall"}

(* with_concurrency(0) is read as 1 *)
Window == IF Concurrency = 0 THEN 1 ELSE Concurrency

(* convert/wire.rs bridgeable() *)
Bridgeable(from, to) ==
    from = to \/ {from, to} = {"2.2.1", "2.3.0"}

(* mutant: what cannot be bridged is passed on as it is *)
Carry_PassesOn(payload, whole, from, to, undecoded) ==
    CASE from = to \/ payload \in Unnamed \/ ~Bridgeable(from, to) -> [code |-> 1000, doc |-> from]
      [] OTHER -> IF whole THEN [code |-> 1000, doc |-> to]
                  ELSE [code |-> undecoded, doc |-> "none"]

(* What carrying a document across does: the version it arrives in, or the  *)
(* code it is refused with. What no kind is named for crosses as it is,     *)
(* before anyone asks whether the pair can be bridged. A patch or a garbled *)
(* answer is not a whole object, so the bridge cannot decode it.            *)
Carry(payload, whole, from, to, undecoded) ==
    CASE from = to \/ payload \in Unnamed -> [code |-> 1000, doc |-> from]
      [] from # to /\ payload \notin Unnamed /\ ~Bridgeable(from, to) ->
            IF Verbatim THEN [code |-> 1000, doc |-> from]
            ELSE [code |-> 2001, doc |-> "none"]
      [] OTHER ->
            IF whole THEN [code |-> 1000, doc |-> to]
            ELSE [code |-> undecoded, doc |-> "none"]

(* carry_request(): a message without a body costs nothing *)
CarryRequest(r, theirs) ==
    IF r.body = "none" THEN [code |-> 1000, doc |-> "none"]
    ELSE Carry(r.body, r.method # "PATCH", r.version, theirs, 2001)

(* carry_response(): `data' is absent, an object or undecodable *)
CarryResponse(r, theirs, data) ==
    IF data = "none" THEN [code |-> 1000, doc |-> "none"]
    ELSE Carry(r.answer, data = "object", theirs, r.version, 4000)

(* OcpiRequest::is_retryable(): only a GET is sent again. *)
Retries(r) == IF r.method = "GET" THEN MaxAttempts ELSE 1

(* mutant: the failure reported is the last one *)
FirstFailure_Last ==
    CHOOSE t \in DOMAIN legs :
        /\ legs[t].code # 1000
        /\ \A s \in DOMAIN legs : legs[s].code # 1000 => s = t \/ Before(s, t)

(* aggregate(), over legs that are all done: the policy is its argument, so *)
(* `told' has the answer under each. find() over the results, in order:    *)
FirstFailure ==
    CHOOSE t \in DOMAIN legs :
        /\ legs[t].code # 1000
        /\ \A s \in DOMAIN legs : legs[s].code # 1000 => s = t \/ Before(t, s)

Aggregate(policy) ==
    LET succeeded == {t \in DOMAIN legs : legs[t].code = 1000}
    IN  IF DOMAIN legs = {} THEN 4003
        ELSE IF \/ policy = "AlwaysSucceed"
                \/ policy = "AnySuccess" /\ succeeded # {}
                \/ succeeded = DOMAIN legs
             THEN 1000
             ELSE legs[FirstFailure].code

Waiting == [state |-> "waiting", platform |-> 0, theirs |-> "none",
            code |-> 0, attempt |-> 0, sent |-> "none", back |-> "none"]

Nowhere == [x \in {} |-> Waiting]
Codes == {1000, 2000, 2001, 3000, 4000, 4001, 4002, 4003}
Untold == [policy \in Policies |-> 0]

-----------------------------------------------------------------------------

Init ==
    /\ table = InitialTable
    /\ changes = 0
    /\ request \in Requests
    /\ phase = "idle"
    /\ scenario = "none"
    /\ legs = Nowhere
    /\ told = Untold
    /\ held = {InitialTable}

(* A platform registers again, unregisters, or changes status. *)
TableChanges ==
    /\ changes < MaxChanges
    /\ changes' = changes + 1
    /\ \E p \in Platforms :
        \/ \E r \in Registrations : Upsert(p, r)
        \/ Remove(p)
        \/ \E s \in {"CONNECTED", "OFFLINE"} : SetStatus(p, s)
    /\ held' = held \cup {table'}
    /\ UNCHANGED <<request, phase, scenario, legs, told>>

(* The sender's message arrives; its targets are computed under one lock.   *)
(* What has no target list is the single party a relay names.              *)
Accept(r) ==
    /\ phase # "relaying"
    /\ request' = r
    /\ scenario' = ScenarioOf(r)
    /\ LET one(party) == {[platform |-> 0, slot |-> 0, party |-> party]}
           targets == CASE ScenarioOf(r) = "refused" -> {}
                        [] ScenarioOf(r) = "direct" -> one(r.to)
                        [] ScenarioOf(r) = "open" ->
                             IF r.owner = NoParty THEN {} ELSE one(r.owner)
                        [] ScenarioOf(r) = "broadcast" -> BroadcastTargets(r.from, r.role)
                        [] ScenarioOf(r) = "getall" -> GetAllSources(r.from)
       IN  legs' = [t \in targets |-> Waiting]
    /\ phase' = "relaying"
    /\ told' = Untold
    /\ held' = {table}
    /\ UNCHANGED <<table, changes>>

(* The stream hands results out in order: a call is yielded when it and all *)
(* before it are done. A call enters when the window has room for it.       *)
Yielded(t) ==
    \A s \in DOMAIN legs : (s = t \/ Before(s, t)) => legs[s].state = "done"

(* mutant: one call more than the window *)
MayEnter_OneMore(t) ==
    /\ legs[t].state = "waiting"
    /\ \A s \in DOMAIN legs : Before(s, t) => legs[s].state # "waiting"
    /\ Cardinality({s \in DOMAIN legs : Before(s, t) /\ ~Yielded(s)}) <= Window

(* mutant: the window never slides *)
MayEnter_FirstOnes(t) ==
    /\ legs[t].state = "waiting"
    /\ \A s \in DOMAIN legs : Before(s, t) => legs[s].state # "waiting"
    /\ Cardinality({s \in DOMAIN legs : Before(s, t)}) < Window

MayEnter(t) ==
    /\ legs[t].state = "waiting"
    /\ \A s \in DOMAIN legs : Before(s, t) => legs[s].state # "waiting"
    /\ Cardinality({s \in DOMAIN legs : Before(s, t) /\ ~Yielded(s)}) < Window

(* relay(), up to the send: look the party up now, find its endpoint, carry *)
(* the body. Any refusal ends the leg here. What the send will use is       *)
(* copied out of the record, and the lock is released.                      *)
LegStarts(t) ==
    /\ phase = "relaying"
    /\ MayEnter(t)
    /\ LET found == Lookup(t.party)
           p == PlatformOf(t.party)
           carried == CarryRequest(request, table[p].version)
           ended(code) == [Waiting EXCEPT !.state = "done", !.code = code]
       IN  legs' = [legs EXCEPT ![t] =
             IF found # 1000 THEN ended(found)
             ELSE IF ~Implements(table[p], request.interface) THEN ended(4001)
             ELSE IF carried.code # 1000 THEN ended(carried.code)
             ELSE [Waiting EXCEPT !.state = "found", !.platform = p,
                       !.theirs = table[p].version, !.sent = carried.doc]]
    /\ UNCHANGED <<table, changes, request, phase, scenario, told, held>>

(* mutant: the version is read once more when the request is sent *)
LegSends_LooksAgain(t) ==
    /\ phase = "relaying"
    /\ legs[t].state = "found"
    /\ legs' = [legs EXCEPT ![t].state = "sent", ![t].attempt = 1,
                  ![t].theirs = IF legs[t].platform \in DOMAIN table
                                THEN table[legs[t].platform].version ELSE @]
    /\ UNCHANGED <<table, changes, request, phase, scenario, told, held>>

(* send_with_headers(): the first attempt leaves, wherever the platform is  *)
(* by now.                                                                 *)
LegSends(t) ==
    /\ phase = "relaying"
    /\ legs[t].state = "found"
    /\ legs' = [legs EXCEPT ![t].state = "sent", ![t].attempt = 1]
    /\ UNCHANGED <<table, changes, request, phase, scenario, told, held>>

(* ... unless the transport's UrlPolicy refuses the platform's URL. *)
LegRefused(t) ==
    /\ phase = "relaying"
    /\ legs[t].state = "found"
    /\ legs' = [legs EXCEPT ![t].state = "done", ![t].code = 3000]
    /\ UNCHANGED <<table, changes, request, phase, scenario, told, held>>

(* The attempt failed in transport or in time, and there is one left: after *)
(* a delay the same request leaves again, with no new lookup.              *)
LegRetries(t) ==
    /\ phase = "relaying"
    /\ legs[t].state = "sent"
    /\ legs[t].attempt < Retries(request)
    /\ legs' = [legs EXCEPT ![t].attempt = @ + 1]
    /\ UNCHANGED <<table, changes, request, phase, scenario, told, held>>

(* The peer refused, could not be reached, or never answered in time: the   *)
(* last two are transient, and final only at the last attempt.              *)
LegFails(t, code) ==
    /\ phase = "relaying"
    /\ legs[t].state = "sent"
    /\ code \in {4002, 4003} => legs[t].attempt >= Retries(request)
    /\ legs' = [legs EXCEPT ![t].state = "done", ![t].code = code]
    /\ UNCHANGED <<table, changes, request, phase, scenario, told, held>>

(* The peer answered: its status travels back, and so does its data, in the *)
(* version of the leg that was captured when the party was looked up.      *)
LegAnswers(t, status, data) ==
    /\ phase = "relaying"
    /\ legs[t].state = "sent"
    /\ LET carried == CarryResponse(request, legs[t].theirs, data)
       IN  legs' = [legs EXCEPT
             ![t].state = "done",
             ![t].code = IF carried.code # 1000 THEN carried.code ELSE status,
             ![t].back = carried.doc]
    /\ UNCHANGED <<table, changes, request, phase, scenario, told, held>>

(* mutant: told as soon as one leg is in *)
Tell_Early ==
    /\ phase = "relaying"
    /\ DOMAIN legs # {} => \E t \in DOMAIN legs : legs[t].state = "done"
    /\ told' = [policy \in Policies |->
                 CASE FanOut -> Aggregate(policy)
                   [] scenario = "refused" -> 2001
                   [] OTHER -> IF DOMAIN legs = {} THEN 4001
                               ELSE LET t == CHOOSE t \in DOMAIN legs : TRUE
                                    IN  legs[t].code]
    /\ phase' = "told"
    /\ UNCHANGED <<table, changes, request, scenario, legs, held>>

(* Every leg is in: the sender is told. *)
Tell ==
    /\ phase = "relaying"
    /\ \A t \in DOMAIN legs : legs[t].state = "done"
    /\ told' = [policy \in Policies |->
                 CASE FanOut -> Aggregate(policy)
                   [] scenario = "refused" -> 2001
                   [] OTHER -> IF DOMAIN legs = {} THEN 4001
                               ELSE LET t == CHOOSE t \in DOMAIN legs : TRUE
                                    IN  legs[t].code]
    /\ phase' = "told"
    /\ UNCHANGED <<table, changes, request, scenario, legs, held>>

(* 4002 a timeout, 4003 a refused connection or an HTTP 5xx, 2000 another    *)
(* HTTP-level refusal, 2001 an envelope that does not decode               *)
Relays ==
    \E t \in DOMAIN legs :
        \/ LegStarts(t) \/ LegSends(t) \/ LegRefused(t) \/ LegRetries(t)
        \/ \E code \in {2000, 2001, 4002, 4003} : LegFails(t, code)
        \/ \E data \in {"none", "object", "garbled"} : LegAnswers(t, 1000, data)
        \/ LegAnswers(t, 3000, "none")

Next == TableChanges \/ (\E r \in Requests : Accept(r)) \/ Relays \/ Tell

Spec == Init /\ [][Next]_hvars

(* Every attempt at a peer ends, by ClientConfig.timeout if nothing else,   *)
(* and a hub that polls the fan-out makes progress on it.                  *)
FairSpec == Spec /\ WF_hvars(Relays) /\ WF_hvars(Tell)

-----------------------------------------------------------------------------

Out == {t \in DOMAIN legs : legs[t].state \in {"found", "sent"}}

TypeOK ==
    /\ DOMAIN table \subseteq Platforms
    /\ \A p \in DOMAIN table : table[p].status \in Statuses
    /\ changes \in 0..MaxChanges
    /\ request \in Requests
    /\ phase \in {"idle", "relaying", "told"}
    /\ scenario \in {"none", "open", "direct", "getall", "broadcast", "refused"}
    /\ told \in [Policies -> IF phase = "told" THEN Codes ELSE {0}]
    /\ \A t \in DOMAIN legs :
        /\ legs[t].state \in {"waiting", "found", "sent", "done"}
        /\ legs[t].platform \in Platforms \cup {0}
        /\ legs[t].theirs \in Versions \cup {"none"}
        /\ legs[t].code \in Codes \cup {0}
        /\ legs[t].attempt \in Nat
        /\ legs[t].sent \in Versions \cup {"none"}
        /\ legs[t].back \in Versions \cup {"none"}

(* Does a party that speaks `reader' read what was written in `written'?     *)
Reads(payload, written, reader) ==
    \/ written \in {"none", reader}
    \/ payload = "same"
    \/ payload = "agreed" /\ Bridgeable(written, reader)

(* Unbridgeable::Refuse: an object that differs between versions is never   *)
(* handed to a platform, nor back to the sender, in a version it does not   *)
(* speak -- however late the platform's record changed. That holds for what *)
(* for_endpoint() has a kind for, and for what never changed: the answer to *)
(* a command is relayed as it is, though a 2.1.1 one has no timeout.        *)
NoMisreadDocument ==
    ~Verbatim =>
        \A t \in DOMAIN legs :
            /\ request.body # "foreign" => Reads(request.body, legs[t].sent, legs[t].theirs)
            /\ request.answer # "foreign" => Reads(request.answer, legs[t].back, request.version)

(* A fan-out never has more calls running than the window, and a target is   *)
(* done before the one `Window' places after it is asked.                  *)
FanOutBounded ==
    /\ Cardinality(Out) <= Window
    /\ \A s, t \in DOMAIN legs :
        (/\ Before(s, t)
         /\ Cardinality({u \in DOMAIN legs : ~Before(u, s) /\ Before(u, t)}) >= Window
         /\ legs[t].state # "waiting") => legs[s].state = "done"

(* The sender is told success only for what the policy means by it: under   *)
(* FirstErrorWins every party targeted accepted, under AnySuccess one did;  *)
(* and a failure it is told is the one of the earliest target that failed.  *)
ToldTheTruth ==
    (phase = "told" /\ FanOut /\ DOMAIN legs # {}) =>
        LET accepted == {t \in DOMAIN legs : legs[t].platform # 0 /\ legs[t].code = 1000}
        IN  /\ told["FirstErrorWins"] = 1000 <=> accepted = DOMAIN legs
            /\ told["AnySuccess"] = 1000 <=> accepted # {}
            /\ \A policy \in Policies : told[policy] # 1000 =>
                \E t \in DOMAIN legs :
                    /\ legs[t].code = told[policy]
                    /\ \A s \in DOMAIN legs : Before(s, t) => s \in accepted

(* A target list, a lookup, a send and a retry happen under as many tables. *)
(* Yet whoever is asked, at whatever attempt, was since the message came a  *)
(* connected platform that hosted the party, served the interface and spoke *)
(* the version the body was carried to -- all in one table, never a mix of  *)
(* two; and who is told to be unknown or not connected was, in one of them, *)
(* hosted nowhere, or somewhere that was disconnected or does not serve it. *)
Asked(T, p, t) ==
    /\ p \in DOMAIN T
    /\ Hosts(T[p], t.party) /\ Reachable(T[p]) /\ Implements(T[p], request.interface)

AskedByOneTable ==
    \A t \in DOMAIN legs :
        /\ legs[t].platform # 0 =>
            \E T \in held : Asked(T, legs[t].platform, t) /\ T[legs[t].platform].version = legs[t].theirs
        /\ (legs[t].platform = 0 /\ legs[t].code \in {4001, 4003}) =>
            \E T \in held : \/ \A p \in DOMAIN T : ~Hosts(T[p], t.party)
                            \/ \E p \in DOMAIN T : Hosts(T[p], t.party) /\ ~Asked(T, p, t)

(* docs/concepts/versions.md:104: a merge patch touching none of the        *)
(* divergent fields crosses a bridgeable pair unchanged, so the hub does    *)
(* not refuse it.                                                          *)
AgreedPatchCrosses ==
    [][\A t \in DOMAIN legs \cap DOMAIN legs' :
        (legs[t].state = "waiting" /\ legs'[t].code = 2001) =>
            ~(/\ request.method = "PATCH" /\ request.body = "agreed"
              /\ Bridgeable(request.version, table[PlatformOf(t.party)].version))]_hvars

(* Every message is answered, slow and dead parties notwithstanding. *)
EveryMessageTold == phase = "relaying" ~> phase = "told"
=============================================================================
