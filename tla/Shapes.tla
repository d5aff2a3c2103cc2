------------------------------- MODULE Shapes -------------------------------
(***************************************************************************)
(* The members of the objects of v2_2_1 and v2_3_0, as serde reads them:    *)
(* those that must be there, those that may be null or absent, and the      *)
(* lists that may be absent. A member no version knows is an extension,     *)
(* which every object keeps. Where the versions have a struct each, the one *)
(* of 2.3.0 is said as what it adds.                                        *)
(***************************************************************************)
EXTENDS Wire

Shape(required, options, lists) ==
    [required |-> required, options |-> options, lists |-> lists]

Adding(shape, required, options, lists) ==
    Shape(shape.required \cup required, shape.options \cup options, shape.lists \cup lists)

OwnerFields == {"country_code", "party_id"}

-----------------------------------------------------------------------------
(* Parts of a Location.                                                     *)

DisplayText == Shape({"language", "text"}, {}, {})
GeoLocation == Shape({"latitude", "longitude"}, {}, {})
AdditionalGeoLocation == Shape({"latitude", "longitude"}, {"name"}, {})
BusinessDetails == Shape({"name"}, {"website", "logo"}, {})
Image == Shape({"url", "category", "type"}, {"thumbnail", "width", "height"}, {})
RegularHours == Shape({"weekday", "period_begin", "period_end"}, {}, {})
ExceptionalPeriod == Shape({"period_begin", "period_end"}, {}, {})
Hours ==
    Shape({"twentyfourseven"}, {}, {"regular_hours", "exceptional_openings", "exceptional_closings"})
EnergySource == Shape({"source", "percentage"}, {}, {})
EnvironmentalImpact == Shape({"category", "amount"}, {}, {})
EnergyMix ==
    Shape({"is_green_energy"}, {"supplier_name", "energy_product_name"},
          {"energy_sources", "environ_impact"})
StatusSchedule == Shape({"period_begin", "status"}, {"period_end"}, {})
EvseParking == Shape({"parking_id"}, {"evse_position"}, {})
Parking ==
    Shape({"id", "vehicle_types", "restricted_to_type", "reservation_required"},
          {"physical_reference", "max_vehicle_weight", "max_vehicle_height",
           "max_vehicle_length", "max_vehicle_width", "parking_space_length",
           "parking_space_width", "dangerous_goods_allowed", "direction", "drive_through",
           "time_limit", "roofed", "lighting", "refrigeration_outlet", "apds_reference"},
          {"images", "standards"})

OldPublishTokenType ==
    Shape({}, {"uid", "type", "visual_number", "issuer", "group_id"}, {})
NewPublishTokenType == OldPublishTokenType

OldConnector ==
    Shape({"id", "standard", "format", "power_type", "max_voltage", "max_amperage",
           "last_updated"},
          {"max_electric_power", "terms_and_conditions"}, {"tariff_ids"})
NewConnector == Adding(OldConnector, {}, {}, {"capabilities"})

OldEvse ==
    Shape({"uid", "status", "connectors", "last_updated"},
          {"evse_id", "floor_level", "coordinates", "physical_reference"},
          {"status_schedule", "capabilities", "directions", "parking_restrictions", "images"})
NewEvse == Adding(OldEvse, {}, {}, {"parking", "accepted_service_providers"})

OldLocation ==
    Shape(OwnerFields \cup {"id", "publish", "address", "city", "country", "coordinates", "time_zone",
                      "last_updated"},
          {"name", "postal_code", "state", "parking_type", "operator", "suboperator", "owner",
           "opening_times", "charging_when_closed", "energy_mix"},
          {"publish_allowed_to", "related_locations", "evses", "directions", "facilities",
           "images"})
NewLocation == Adding(OldLocation, {}, {"help_phone"}, {"parking_places"})

-----------------------------------------------------------------------------
(* Tokens.                                                                  *)

EnergyContract == Shape({"supplier_name"}, {"contract_id"}, {})
LocationReferences == Shape({"location_id"}, {}, {"evse_uids"})
OldToken ==
    Shape(OwnerFields \cup {"uid", "type", "contract_id", "issuer", "valid", "whitelist",
                      "last_updated"},
          {"visual_number", "group_id", "language", "default_profile_type", "energy_contract"},
          {})
NewToken == OldToken
OldAuthorizationInfo ==
    Shape({"allowed", "token"}, {"location", "authorization_reference", "info"}, {})
NewAuthorizationInfo == OldAuthorizationInfo
OldCdrToken == Shape(OwnerFields \cup {"uid", "type", "contract_id"}, {}, {})
NewCdrToken == OldCdrToken

-----------------------------------------------------------------------------
(* Prices and Tariffs.                                                      *)

OldPrice == Shape({"excl_vat"}, {"incl_vat"}, {})
NewPrice == Shape({"before_taxes"}, {}, {"taxes"})
TaxAmount == Shape({"name", "amount"}, {"account_number", "percentage"}, {})
PriceLimit == Shape({"before_taxes"}, {"after_taxes"}, {})
PriceComponent == Shape({"type", "price", "step_size"}, {"vat"}, {})
TariffRestrictions ==
    Shape({},
          {"start_time", "end_time", "start_date", "end_date", "min_kwh", "max_kwh",
           "min_current", "max_current", "min_power", "max_power", "min_duration",
           "max_duration", "reservation", "booking"},
          {"day_of_week"})
TariffElement == Shape({"price_components"}, {"restrictions"}, {})
OldTariff ==
    Shape(OwnerFields \cup {"id", "currency", "elements", "last_updated"},
          {"type", "tariff_alt_url", "min_price", "max_price", "start_date_time",
           "end_date_time", "energy_mix"},
          {"tariff_alt_text"})
NewTariff == Adding(OldTariff, {"tax_included"}, {"preauthorize_amount"}, {})

-----------------------------------------------------------------------------
(* Sessions and CDRs.                                                       *)

CdrDimension == Shape({"type", "volume"}, {}, {})
ChargingPeriod == Shape({"start_date_time", "dimensions"}, {"tariff_id"}, {})
SignedValue == Shape({"nature", "plain_data", "signed_data"}, {}, {})
SignedData ==
    Shape({"encoding_method", "signed_values"},
          {"encoding_method_version", "public_key", "url"}, {})
OldCdrLocation ==
    Shape({"id", "address", "city", "country", "coordinates", "evse_uid", "evse_id",
           "connector_id", "connector_standard", "connector_format", "connector_power_type"},
          {"name", "postal_code", "state"}, {})
NewCdrLocation == OldCdrLocation

(* The prices of a CDR that may be left out.                                *)
TotalCosts == {"total_fixed_cost", "total_energy_cost", "total_time_cost",
               "total_parking_cost", "total_reservation_cost"}
OldCdr ==
    Shape(OwnerFields \cup {"id", "start_date_time", "end_date_time", "cdr_token", "auth_method",
                      "cdr_location", "currency", "charging_periods", "total_cost",
                      "total_energy", "total_time", "last_updated"},
          {"session_id", "authorization_reference", "meter_id", "signed_data",
           "total_parking_time", "remark", "invoice_reference_id", "credit",
           "credit_reference_id", "home_charging_compensation"} \cup TotalCosts,
          {"tariffs"})
NewCdr == Adding(OldCdr, {}, {"booking_id"}, {})

ChargingPreferences ==
    Shape({"profile_type"}, {"departure_time", "energy_need", "discharge_allowed"}, {})
OldSession ==
    Shape(OwnerFields \cup {"id", "start_date_time", "kwh", "cdr_token", "auth_method",
                      "location_id", "evse_uid", "connector_id", "currency", "status",
                      "last_updated"},
          {"end_date_time", "authorization_reference", "meter_id", "total_cost"},
          {"charging_periods"})
NewSession == OldSession

-----------------------------------------------------------------------------
(* Commands, charging profiles and payments.                                *)

OldStartSession ==
    Shape({"response_url", "token", "location_id"},
          {"evse_uid", "connector_id", "authorization_reference"}, {})
NewStartSession == OldStartSession
OldReserveNow ==
    Shape({"response_url", "token", "expiry_date", "reservation_id", "location_id"},
          {"evse_uid", "authorization_reference"}, {})
NewReserveNow == OldReserveNow
StopSession == Shape({"response_url", "session_id"}, {}, {})
CancelReservation == Shape({"response_url", "reservation_id"}, {}, {})
UnlockConnector == Shape({"response_url", "location_id", "evse_uid", "connector_id"}, {}, {})
CommandResponse == Shape({"result", "timeout"}, {}, {"message"})
CommandResult == Shape({"result"}, {}, {"message"})

ChargingProfile ==
    Shape({"charging_rate_unit"}, {"start_date_time", "duration", "min_charging_rate"},
          {"charging_profile_period"})
SetChargingProfile == Shape({"charging_profile", "response_url"}, {}, {})
ChargingProfileResponse == Shape({"result", "timeout"}, {}, {})
ActiveChargingProfile == Shape({"start_date_time", "charging_profile"}, {}, {})
ActiveChargingProfileResult == Shape({"result"}, {"profile"}, {})
ChargingProfileResult == Shape({"result"}, {}, {})
ClearProfileResult == Shape({"result"}, {}, {})

Terminal ==
    Shape({"terminal_id", "last_updated"},
          OwnerFields \cup {"customer_reference", "address", "city", "postal_code", "state",
                      "country", "coordinates", "invoice_base_url", "invoice_creator",
                      "reference"},
          {"location_ids", "evse_uids"})
FinancialAdviceConfirmation ==
    Shape({"id", "authorization_reference", "total_costs", "currency", "eft_data",
           "capture_status_code", "last_updated"},
          {"capture_status_message"}, {})

-----------------------------------------------------------------------------
(* Credentials.                                                             *)

OldRole == Shape(OwnerFields \cup {"role", "business_details"}, {}, {})
NewRole == OldRole
OldCredentials == Shape({"token", "url", "roles"}, {}, {})
NewCredentials == Adding(OldCredentials, {}, {"hub_party_id"}, {})
OldClientInfo == Shape(OwnerFields \cup {"role", "status", "last_updated"}, {}, {})
NewClientInfo == OldClientInfo

-----------------------------------------------------------------------------
(* The types both versions have once.                                       *)
Shared ==
    [DisplayText |-> DisplayText, GeoLocation |-> GeoLocation,
     AdditionalGeoLocation |-> AdditionalGeoLocation, BusinessDetails |-> BusinessDetails,
     Image |-> Image, RegularHours |-> RegularHours, ExceptionalPeriod |-> ExceptionalPeriod,
     Hours |-> Hours, EnergySource |-> EnergySource, EnvironmentalImpact |-> EnvironmentalImpact,
     EnergyMix |-> EnergyMix, StatusSchedule |-> StatusSchedule, EvseParking |-> EvseParking,
     Parking |-> Parking, EnergyContract |-> EnergyContract,
     LocationReferences |-> LocationReferences, TaxAmount |-> TaxAmount, PriceLimit |-> PriceLimit,
     PriceComponent |-> PriceComponent, TariffRestrictions |-> TariffRestrictions,
     TariffElement |-> TariffElement, CdrDimension |-> CdrDimension,
     ChargingPeriod |-> ChargingPeriod, SignedValue |-> SignedValue, SignedData |-> SignedData,
     ChargingPreferences |-> ChargingPreferences, StopSession |-> StopSession,
     CancelReservation |-> CancelReservation, UnlockConnector |-> UnlockConnector,
     CommandResponse |-> CommandResponse, CommandResult |-> CommandResult,
     ChargingProfile |-> ChargingProfile, SetChargingProfile |-> SetChargingProfile,
     ChargingProfileResponse |-> ChargingProfileResponse,
     ActiveChargingProfile |-> ActiveChargingProfile,
     ActiveChargingProfileResult |-> ActiveChargingProfileResult,
     ChargingProfileResult |-> ChargingProfileResult, ClearProfileResult |-> ClearProfileResult,
     Terminal |-> Terminal, FinancialAdviceConfirmation |-> FinancialAdviceConfirmation]

(* The types each version has of its own.                                   *)
Versioned ==
    [PublishTokenType |-> <<OldPublishTokenType, NewPublishTokenType>>,
     Connector |-> <<OldConnector, NewConnector>>, Evse |-> <<OldEvse, NewEvse>>,
     Location |-> <<OldLocation, NewLocation>>, Token |-> <<OldToken, NewToken>>,
     AuthorizationInfo |-> <<OldAuthorizationInfo, NewAuthorizationInfo>>,
     CdrToken |-> <<OldCdrToken, NewCdrToken>>, CdrLocation |-> <<OldCdrLocation, NewCdrLocation>>,
     Price |-> <<OldPrice, NewPrice>>, Tariff |-> <<OldTariff, NewTariff>>,
     Cdr |-> <<OldCdr, NewCdr>>, Session |-> <<OldSession, NewSession>>,
     StartSession |-> <<OldStartSession, NewStartSession>>,
     ReserveNow |-> <<OldReserveNow, NewReserveNow>>, Role |-> <<OldRole, NewRole>>,
     Credentials |-> <<OldCredentials, NewCredentials>>,
     ClientInfo |-> <<OldClientInfo, NewClientInfo>>]

Types == DOMAIN Shared \cup DOMAIN Versioned

ShapeOf(version, object) ==
    IF object \in DOMAIN Shared THEN Shared[object]
    ELSE Versioned[object][IF version = Canonical THEN 2 ELSE 1]

Known(version, object) ==
    LET shape == ShapeOf(version, object) IN shape.required \cup shape.options \cup shape.lists
=============================================================================
