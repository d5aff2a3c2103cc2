------------------------------- MODULE Routes -------------------------------
(***************************************************************************)
(* server/router.rs: what each interface puts on the router when it is     *)
(* mounted. A row says: method, path below the module's segment, handler,  *)
(* query extractor, body extractor, the object the body is decoded as.     *)
(*                                                                         *)
(* Queries: page, type (of a token), profile (of a charging session).      *)
(* Bodies: json and patch are extractors, decoded before the handler's own *)
(* code runs; optional, partial and command are bytes it decodes itself.   *)
(***************************************************************************)
EXTENDS Naturals, Sequences
LOCAL INSTANCE SequencesExt

Id == "{}"          \* a capture: any one segment that is not empty
None == "none"

Owner == <<Id, Id>> \* {country_code}/{party_id}

(* The rows of one interface at a base path. `addressed` says how the two   *)
(* owner segments are read: owned by the caller, naming a party, or absent. *)
On(module, role, base, addressed, rows) ==
    {[module |-> module, role |-> role, addressed |-> addressed,
      method |-> row[1], path |-> base \o row[2], handler |-> row[3], query |-> row[4],
      body |-> row[5], takes |-> row[6]] : row \in rows}

(* receiver_path: the prefix goes before every Receiver route, its slashes  *)
(* trimmed. Prefixes are: none, bare ("receiver") and slashed ("/receiver").*)
ReceiverPath(prefix, path) == (IF prefix = None THEN <<>> ELSE <<"receiver">>) \o path

Versions ==
    On("versions", "Sender", <<>>, None,
       {<<"GET", <<>>, "details", None, None, None>>,
        <<"GET", <<"versions">>, "list", None, None, None>>})

Credentials ==
    On("credentials", "Sender", <<"credentials">>, None,
       {<<"GET", <<>>, "get", None, None, None>>,
        <<"POST", <<>>, "post", None, "json", "Credentials">>,
        <<"PUT", <<>>, "put", None, "json", "Credentials">>,
        <<"DELETE", <<>>, "delete", None, None, None>>})

LocationsSender ==
    On("locations", "Sender", <<"locations">>, None,
       {<<"GET", <<>>, "list", "page", None, None>>,
        <<"GET", <<Id>>, "location", None, None, None>>,
        <<"GET", <<Id, Id>>, "evse", None, None, None>>,
        <<"GET", <<Id, Id, Id>>, "connector", None, None, None>>})

LocationsReceiver(prefix) ==
    On("locations", "Receiver", ReceiverPath(prefix, <<"locations">>), "owned",
       {<<"GET", Owner \o <<Id>>, "location", None, None, None>>,
        <<"PUT", Owner \o <<Id>>, "put_location", None, "json", "Location">>,
        <<"PATCH", Owner \o <<Id>>, "patch", None, "patch", "Location">>,
        <<"PUT", Owner \o <<Id, Id>>, "put_evse", None, "json", "Evse">>})

TokensSender ==
    On("tokens", "Sender", <<"tokens">>, None,
       {<<"GET", <<>>, "list", "page", None, None>>,
        <<"POST", <<Id, "authorize">>, "authorize", "type", "optional",
          "LocationReferences">>})

TokensReceiver(prefix) ==
    On("tokens", "Receiver", ReceiverPath(prefix, <<"tokens">>), "owned",
       {<<"GET", Owner \o <<Id>>, "token", "type", None, None>>,
        <<"PUT", Owner \o <<Id>>, "put_token", None, "json", "Token">>,
        <<"PATCH", Owner \o <<Id>>, "patch_token", "type", "patch", "Token">>})

CdrsSender ==
    On("cdrs", "Sender", <<"cdrs">>, None, {<<"GET", <<>>, "list", "page", None, None>>})

CdrsReceiver(prefix) ==
    On("cdrs", "Receiver", ReceiverPath(prefix, <<"cdrs">>), None,
       {<<"POST", <<>>, "post_cdr", None, "json", "Cdr">>,
        <<"GET", <<Id>>, "cdr", None, None, None>>})

SessionsSender ==
    On("sessions", "Sender", <<"sessions">>, None,
       {<<"GET", <<>>, "list", "page", None, None>>,
        <<"PUT", <<Id, "charging_preferences">>, "set_charging_preferences", None, "json",
          "ChargingPreferences">>})

SessionsReceiver(prefix) ==
    On("sessions", "Receiver", ReceiverPath(prefix, <<"sessions">>), "owned",
       {<<"GET", Owner \o <<Id>>, "session", None, None, None>>,
        <<"PUT", Owner \o <<Id>>, "put_session", None, "json", "Session">>,
        <<"PATCH", Owner \o <<Id>>, "patch_session", None, "patch", "Session">>})

TariffsSender ==
    On("tariffs", "Sender", <<"tariffs">>, None,
       {<<"GET", <<>>, "list", "page", None, None>>})

(* The DELETE has a path of its own: the same, with a slash at the end.     *)
TariffsReceiver(prefix) ==
    On("tariffs", "Receiver", ReceiverPath(prefix, <<"tariffs">>), "owned",
       {<<"GET", Owner \o <<Id>>, "tariff", None, None, None>>,
        <<"PUT", Owner \o <<Id>>, "put_tariff", None, "json", "Tariff">>,
        <<"DELETE", Owner \o <<Id, "">>, "delete_tariff", None, None, None>>})

(* Mounted at its bare path whatever the prefix.                            *)
CommandsReceiver ==
    On("commands", "Receiver", <<"commands">>, None,
       {<<"POST", <<Id>>, "command", None, "command", "Command">>})

CommandsSender ==
    On("commands", "Sender", <<"commands">>, None,
       {<<"POST", <<Id, Id>>, "command_result", None, "json", "CommandResult">>})

HubClientInfoSender ==
    On("hubclientinfo", "Sender", <<"hubclientinfo">>, None,
       {<<"GET", <<>>, "list", "page", None, None>>})

HubClientInfoReceiver(prefix) ==
    On("hubclientinfo", "Receiver", ReceiverPath(prefix, <<"hubclientinfo">>), "named",
       {<<"GET", Owner, "client_info", None, None, None>>,
        <<"PUT", Owner, "put_client_info", None, "json", "ClientInfo">>})

ChargingProfilesReceiver(prefix) ==
    On("chargingprofiles", "Receiver", ReceiverPath(prefix, <<"chargingprofiles">>), None,
       {<<"GET", <<Id>>, "active_charging_profile", "profile", None, None>>,
        <<"PUT", <<Id>>, "set_charging_profile", None, "json", "SetChargingProfile">>,
        <<"DELETE", <<Id>>, "clear_charging_profile", "profile", None, None>>})

ChargingProfilesSender ==
    On("chargingprofiles", "Sender", <<"chargingprofiles">>, None,
       {<<"POST", <<"result", "active", Id>>, "active_charging_profile_result", None, "json",
          "ActiveChargingProfileResult">>,
        <<"POST", <<"result", "set", Id>>, "charging_profile_result", None, "json",
          "ChargingProfileResult">>,
        <<"POST", <<"result", "clear", Id>>, "clear_profile_result", None, "json",
          "ClearProfileResult">>,
        <<"PUT", <<Id>>, "put_active_charging_profile", None, "json",
          "ActiveChargingProfile">>})

Terminals == <<"terminals">>
Confirmations == <<"financial-advice-confirmations">>

PaymentsSender ==
    On("payments", "Sender", <<"payments">>, None,
       {<<"GET", Terminals, "terminals", "page", None, None>>,
        <<"POST", Terminals \o <<"activate">>, "activate_terminal", None, "partial",
          "Terminal">>,
        <<"GET", Terminals \o <<Id>>, "terminal", None, None, None>>,
        <<"PUT", Terminals \o <<Id>>, "put_terminal", None, "json", "Terminal">>,
        <<"PATCH", Terminals \o <<Id>>, "patch_terminal", None, "patch", "Terminal">>,
        <<"POST", Terminals \o <<Id, "deactivate">>, "deactivate_terminal", None, None, None>>,
        <<"GET", Confirmations, "financial_advice_confirmations", "page", None, None>>,
        <<"GET", Confirmations \o <<Id>>, "financial_advice_confirmation", None, None, None>>})

PaymentsReceiver(prefix) ==
    On("payments", "Receiver", ReceiverPath(prefix, <<"payments">>), None,
       {<<"POST", Terminals, "post_terminal", None, "json", "Terminal">>,
        <<"GET", Terminals \o <<Id>>, "terminal", None, None, None>>,
        <<"POST", Confirmations, "post_financial_advice_confirmation", None, "json",
          "FinancialAdviceConfirmation">>,
        <<"GET", Confirmations \o <<Id>>, "financial_advice_confirmation", None, None, None>>})

(* Everything there is to mount, with the receiver prefix of the server.    *)
Mountable(prefix) ==
    UNION {Credentials, LocationsSender, LocationsReceiver(prefix), TokensSender,
           TokensReceiver(prefix), CdrsSender, CdrsReceiver(prefix), SessionsSender,
           SessionsReceiver(prefix), TariffsSender, TariffsReceiver(prefix), CommandsSender,
           CommandsReceiver, HubClientInfoSender, HubClientInfoReceiver(prefix),
           ChargingProfilesSender, ChargingProfilesReceiver(prefix), PaymentsSender,
           PaymentsReceiver(prefix)}

(* build() adds the two version endpoints to what was mounted.              *)
RoutesServed(mounted, prefix) ==
    Versions \cup {r \in Mountable(prefix) : <<r.module, r.role>> \in mounted}

(* A segment fits a capture or itself.                                      *)
Fits(pattern, path) ==
    /\ Len(pattern) = Len(path)
    /\ \A i \in DOMAIN path : pattern[i] = path[i] \/ (pattern[i] = Id /\ path[i] # "")

(* Where two patterns first part, the one with the static segment wins.     *)
Beats(p, q) ==
    \E i \in DOMAIN p :
        /\ SubSeq(p, 1, i - 1) = SubSeq(q, 1, i - 1)
        /\ p[i] # q[i] /\ p[i] # Id

(* The routes of the one pattern a path is matched to.                      *)
AtPath(routes, path) ==
    LET fitting == {r \in routes : Fits(r.path, path)}
    IN  {r \in fitting : \A q \in fitting : q.path = r.path \/ Beats(r.path, q.path)}
=============================================================================
