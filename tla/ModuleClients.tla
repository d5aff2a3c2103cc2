--------------------------- MODULE ModuleClients ---------------------------
(***************************************************************************)
(* client/modules.rs and client/registration.rs: what each typed client    *)
(* asks of a peer. A row says: method, path below the endpoint's URL (and  *)
(* below the two owner segments where the call names a party), the handler *)
(* the call is meant for, the object it sends, the kind it translates that *)
(* object as, the object it wants back, and the kind it translates that as.*)
(* A peer on the canonical version is sent and read untranslated.          *)
(***************************************************************************)
EXTENDS Naturals, Sequences
E == INSTANCE Endpoints

None == "none"
Plain(object) == <<object, None>>   \* the same object in every version
Bridged(kind) == <<kind, kind>>     \* ..._bridged(.., ObjectKind::kind)
Nothing == Plain(None)

Calls(module, role, names, rows) ==
    {[module |-> module, role |-> role, names |-> names, under |-> None, method |-> row[1],
      sub |-> row[2],
      means |-> row[3], sends |-> row[4][1], out |-> row[4][2], wants |-> row[5][1],
      back |-> row[5][2]] : row \in rows}

(* Below a URL of its own that the module's is the base of.                 *)
Under(segment, calls) == {[call EXCEPT !.under = segment] : call \in calls}

(* Registration: register and update exchange Credentials, unregister does  *)
(* not; both directions are bridged.                                        *)
RegistrationCalls ==
    Calls("credentials", "Sender", FALSE,
       {<<"POST", E!Base, "post", Bridged("Credentials"), Bridged("Credentials")>>,
        <<"PUT", E!Base, "put", Bridged("Credentials"), Bridged("Credentials")>>,
        <<"DELETE", E!Base, "delete", Nothing, Nothing>>})

LocationsSenderCalls ==
    Calls("locations", "Sender", FALSE,
       {<<"GET", E!Base, "list", Nothing, Bridged("Location")>>,
        <<"GET", E!Location("LOC1", None, None), "location", Nothing, Bridged("Location")>>,
        <<"GET", E!Location("LOC1", "3256", None), "evse", Nothing, Bridged("Evse")>>,
        <<"GET", E!Location("LOC1", "3256", "1"), "connector", Nothing, Bridged("Connector")>>})

LocationsReceiverCalls ==
    Calls("locations", "Receiver", TRUE,
       {<<"PUT", E!Location("LOC1", None, None), "put_location", Bridged("Location"), Nothing>>,
        <<"PUT", E!Location("LOC1", "3256", None), "put_evse", Bridged("Evse"), Nothing>>,
        <<"PATCH", E!Location("LOC1", None, None), "patch", Bridged("Location"), Nothing>>,
        <<"PATCH", E!Location("LOC1", "3256", None), "patch", Bridged("Evse"), Nothing>>,
        <<"PATCH", E!Location("LOC1", "3256", "1"), "patch", Bridged("Connector"), Nothing>>})

TokensSenderCalls ==
    Calls("tokens", "Sender", FALSE,
       {<<"GET", E!Base, "list", Nothing, Bridged("Token")>>,
        <<"POST", E!TokenAuthorize("UID1"), "authorize", Plain("LocationReferences"),
          Bridged("AuthorizationInfo")>>})

TokensReceiverCalls ==
    Calls("tokens", "Receiver", TRUE,
       {<<"GET", E!Object("UID1"), "token", Nothing, Bridged("Token")>>,
        <<"PUT", E!Object("UID1"), "put_token", Bridged("Token"), Nothing>>,
        <<"PATCH", E!Object("UID1"), "patch_token", Bridged("Token"), Nothing>>})

CdrsCalls ==
    Calls("cdrs", "Sender", FALSE, {<<"GET", E!Base, "list", Nothing, Bridged("Cdr")>>})
    \cup Calls("cdrs", "Receiver", FALSE,
               {<<"POST", E!Base, "post_cdr", Bridged("Cdr"), Nothing>>})

(* The five commands; the two that embed a Token are translated.            *)
CommandsCalls ==
    Calls("commands", "Receiver", FALSE,
       {<<"POST", E!Command("START_SESSION"), "command", Bridged("StartSession"), Plain("CommandResponse")>>,
        <<"POST", E!Command("RESERVE_NOW"), "command", Bridged("ReserveNow"), Plain("CommandResponse")>>,
        <<"POST", E!Command("STOP_SESSION"), "command", Plain("StopSession"), Plain("CommandResponse")>>,
        <<"POST", E!Command("CANCEL_RESERVATION"), "command", Plain("CancelReservation"),
          Plain("CommandResponse")>>,
        <<"POST", E!Command("UNLOCK_CONNECTOR"), "command", Plain("UnlockConnector"),
          Plain("CommandResponse")>>})

SessionsSenderCalls ==
    Calls("sessions", "Sender", FALSE,
       {<<"GET", E!Base, "list", Nothing, Bridged("Session")>>,
        <<"PUT", E!ChargingPreferences("S1"), "set_charging_preferences",
          Plain("ChargingPreferences"), Plain("ChargingPreferencesResponse")>>})

SessionsReceiverCalls ==
    Calls("sessions", "Receiver", TRUE,
       {<<"GET", E!Object("S1"), "session", Nothing, Bridged("Session")>>,
        <<"PUT", E!Object("S1"), "put_session", Bridged("Session"), Nothing>>,
        <<"PATCH", E!Object("S1"), "patch_session", Bridged("Session"), Nothing>>})

TariffsCalls ==
    Calls("tariffs", "Sender", FALSE, {<<"GET", E!Base, "list", Nothing, Bridged("Tariff")>>})
    \cup Calls("tariffs", "Receiver", TRUE,
       {<<"GET", E!Object("T1"), "tariff", Nothing, Bridged("Tariff")>>,
        <<"PUT", E!Object("T1"), "put_tariff", Bridged("Tariff"), Nothing>>,
        <<"DELETE", E!Object("T1"), "delete_tariff", Nothing, Nothing>>})

ChargingProfilesCalls ==
    Calls("chargingprofiles", "Receiver", FALSE,
       {<<"GET", E!ChargingProfile("S1"), "active_charging_profile", Nothing, Plain("ChargingProfileResponse")>>,
        <<"PUT", E!ChargingProfile("S1"), "set_charging_profile", Plain("SetChargingProfile"),
          Plain("ChargingProfileResponse")>>,
        <<"DELETE", E!ChargingProfile("S1"), "clear_charging_profile", Nothing,
          Plain("ChargingProfileResponse")>>})
    \cup Calls("chargingprofiles", "Sender", FALSE,
       {<<"PUT", E!ChargingProfile("S1"), "put_active_charging_profile", Plain("ActiveChargingProfile"), Nothing>>})

HubClientInfoCalls ==
    Calls("hubclientinfo", "Sender", FALSE, {<<"GET", E!Base, "list", Nothing, Bridged("ClientInfo")>>})
    \cup Calls("hubclientinfo", "Receiver", TRUE,
       {<<"GET", E!Base, "client_info", Nothing, Bridged("ClientInfo")>>,
        <<"PUT", E!Base, "put_client_info", Bridged("ClientInfo"), Nothing>>})

TerminalCalls ==
    Calls("payments", "Sender", FALSE,
       {<<"GET", E!Base, "terminals", Nothing, Plain("Terminal")>>,
        <<"GET", E!Object("P1"), "terminal", Nothing, Plain("Terminal")>>,
        <<"PUT", E!Object("P1"), "put_terminal", Plain("Terminal"), Plain("Terminal")>>,
        <<"PATCH", E!Object("P1"), "patch_terminal", Plain("Terminal"), Plain("Terminal")>>,
        <<"POST", E!TerminalActivate, "activate_terminal", Plain("Terminal"), Plain("Terminal")>>,
        <<"POST", E!TerminalDeactivate("P1"), "deactivate_terminal", Plain("Empty"),
          Plain("Terminal")>>})
    \cup Calls("payments", "Receiver", FALSE,
       {<<"POST", E!Base, "post_terminal", Plain("Terminal"), Plain("Terminal")>>})

ConfirmationCalls ==
    Calls("payments", "Sender", FALSE,
       {<<"GET", E!Base, "financial_advice_confirmations", Nothing,
          Plain("FinancialAdviceConfirmation")>>,
        <<"GET", E!Object("F1"), "financial_advice_confirmation", Nothing,
          Plain("FinancialAdviceConfirmation")>>})
    \cup Calls("payments", "Receiver", FALSE,
       {<<"POST", E!Base, "post_financial_advice_confirmation",
          Plain("FinancialAdviceConfirmation"), Plain("FinancialAdviceConfirmation")>>})

PaymentsCalls ==
    Under("terminals", TerminalCalls)
    \cup Under("financial-advice-confirmations", ConfirmationCalls)

(* What a peer posts to a response_url built by CallbackUrls, which starts   *)
(* from the router's base like a Sender endpoint does.                       *)
CallbackCalls ==
    Calls("commands", "Sender", FALSE,
       {<<"POST", <<c, "1234">>, "command_result", Plain("CommandResult"), Nothing>> :
            c \in {"START_SESSION", "RESERVE_NOW", "STOP_SESSION"}})
    \cup Calls("chargingprofiles", "Sender", FALSE,
       {<<"POST", <<"result", "active", "1234">>, "active_charging_profile_result",
          Plain("ActiveChargingProfileResult"), Nothing>>,
        <<"POST", <<"result", "set", "1234">>, "charging_profile_result",
          Plain("ChargingProfileResult"), Nothing>>,
        <<"POST", <<"result", "clear", "1234">>, "clear_profile_result",
          Plain("ClearProfileResult"), Nothing>>})

AllCalls ==
    UNION {RegistrationCalls, LocationsSenderCalls, LocationsReceiverCalls, TokensSenderCalls,
           TokensReceiverCalls, CdrsCalls, CommandsCalls, SessionsSenderCalls,
           SessionsReceiverCalls, TariffsCalls, ChargingProfilesCalls, HubClientInfoCalls,
           PaymentsCalls, CallbackCalls}
=============================================================================
