---------------------------- MODULE HandlerTraits ----------------------------
(***************************************************************************)
(* server/traits.rs: what an application implements to serve an interface, *)
(* a method for each thing it may be asked. An entry is what a method that *)
(* does not fail returns: the object the answer carries and the HTTP       *)
(* statuses it is answered with.                                           *)
(***************************************************************************)
None == "none"

Gives(object) == [object |-> object, http |-> {200}]
Done == Gives(None)                               \* ()
Created == [object |-> None, http |-> {200, 201}] \* whether it was new
Stored(object) == [object |-> object, http |-> {201}]

CredentialsHandler ==
    [get |-> Gives("Credentials"), post |-> Gives("Credentials"), put |-> Gives("Credentials"),
     delete |-> Done]

LocationsSender ==
    [list |-> Gives("Location"), location |-> Gives("Location"), evse |-> Gives("Evse"),
     connector |-> Gives("Connector")]

(* Nothing is routed to put_connector.                                      *)
LocationsReceiver ==
    [location |-> Gives("Location"), put_location |-> Created, put_evse |-> Created,
     put_connector |-> Created, patch |-> Done]

TokensSender == [list |-> Gives("Token"), authorize |-> Gives("AuthorizationInfo")]
TokensReceiver == [token |-> Gives("Token"), put_token |-> Created, patch_token |-> Done]

CdrsSender == [list |-> Gives("Cdr")]
CdrsReceiver == [cdr |-> Gives("Cdr"), post_cdr |-> Stored(None)]   \* and its Location

SessionsSender ==
    [list |-> Gives("Session"), set_charging_preferences |-> Gives("ChargingPreferencesResponse")]
SessionsReceiver == [session |-> Gives("Session"), put_session |-> Created, patch_session |-> Done]

TariffsSender == [list |-> Gives("Tariff")]
TariffsReceiver == [tariff |-> Gives("Tariff"), put_tariff |-> Created, delete_tariff |-> Done]

CommandsReceiver == [command |-> Gives("CommandResponse")]
CommandsSender == [command_result |-> Done]

HubClientInfoSender == [list |-> Gives("ClientInfo")]
HubClientInfoReceiver == [client_info |-> Gives("ClientInfo"), put_client_info |-> Created]

ChargingProfilesReceiver ==
    [active_charging_profile |-> Gives("ChargingProfileResponse"),
     set_charging_profile |-> Gives("ChargingProfileResponse"),
     clear_charging_profile |-> Gives("ChargingProfileResponse")]
ChargingProfilesSender ==
    [active_charging_profile_result |-> Done, charging_profile_result |-> Done,
     clear_profile_result |-> Done, put_active_charging_profile |-> Done]

PaymentsSender ==
    [terminals |-> Gives("Terminal"), terminal |-> Gives("Terminal"),
     put_terminal |-> Gives("Terminal"), patch_terminal |-> Gives("Terminal"),
     activate_terminal |-> Gives("Terminal"), deactivate_terminal |-> Gives("Terminal"),
     financial_advice_confirmations |-> Gives("FinancialAdviceConfirmation"),
     financial_advice_confirmation |-> Gives("FinancialAdviceConfirmation")]
PaymentsReceiver ==
    [terminal |-> Gives("Terminal"), post_terminal |-> Stored("Terminal"),
     financial_advice_confirmation |-> Gives("FinancialAdviceConfirmation"),
     post_financial_advice_confirmation |-> Stored("FinancialAdviceConfirmation")]

(* The version endpoints are the router's own.                              *)
Discovery == [details |-> Gives("VersionDetails"), list |-> Gives("Version")]

(* Who implements an interface.                                             *)
Implementation(module) ==
    CASE module = "versions"         -> [Sender |-> Discovery]
      [] module = "credentials"      -> [Sender |-> CredentialsHandler]
      [] module = "locations"        -> [Sender |-> LocationsSender, Receiver |-> LocationsReceiver]
      [] module = "tokens"           -> [Sender |-> TokensSender, Receiver |-> TokensReceiver]
      [] module = "cdrs"             -> [Sender |-> CdrsSender, Receiver |-> CdrsReceiver]
      [] module = "sessions"         -> [Sender |-> SessionsSender, Receiver |-> SessionsReceiver]
      [] module = "tariffs"          -> [Sender |-> TariffsSender, Receiver |-> TariffsReceiver]
      [] module = "commands"         -> [Sender |-> CommandsSender, Receiver |-> CommandsReceiver]
      [] module = "hubclientinfo"    -> [Sender |-> HubClientInfoSender,
                                         Receiver |-> HubClientInfoReceiver]
      [] module = "chargingprofiles" -> [Sender |-> ChargingProfilesSender,
                                         Receiver |-> ChargingProfilesReceiver]
      [] module = "payments"         -> [Sender |-> PaymentsSender, Receiver |-> PaymentsReceiver]

Returned(module, role, handler) == Implementation(module)[role][handler]
=============================================================================
