---------------------------- MODULE Conformance ----------------------------
(***************************************************************************)
(* Validate of v2_2_1 and v2_3_0: the JSON pointers a document is reported  *)
(* at. Both versions share the types below the objects, and most rules.     *)
(* Times and quantities are whole numbers; a date is a time.                *)
(***************************************************************************)
EXTENDS Objects, Integers
LOCAL INSTANCE SequencesExt

Given(doc, field) == field \in DOMAIN doc
Flag(holds, pointer) == IF holds THEN {pointer} ELSE {}
Beneath(prefix, pointers) == {prefix \o pointer : pointer \in pointers}

InEach(list, Problems(_)) ==
    UNION {Beneath(<<ToString(i - 1)>>, Problems(list[i])) : i \in DOMAIN list}
InPart(doc, field, Problems(_)) ==
    IF Given(doc, field) THEN Beneath(<<field>>, Problems(doc[field])) ELSE {}
InParts(doc, field, Problems(_)) ==
    InPart(doc, field, LAMBDA list : InEach(list, Problems))

(* A text is checked wherever it stands.                                    *)
Texts(doc, fields) == {<<f>> : f \in {f \in DOMAIN doc \cap fields : doc[f] = Unfit}}

(* Both are there, and the later is not after the earlier.                  *)
NotAfter(doc, earlier, later) ==
    Given(doc, earlier) /\ Given(doc, later) /\ doc[later] <= doc[earlier]
Before(doc, later, earlier) ==
    Given(doc, earlier) /\ Given(doc, later) /\ doc[later] < doc[earlier]

(* An enum 2.2.1 closed keeps a value it does not define, and reports it.   *)
Closed(version, doc, field) ==
    Flag(version = "2.2.1" /\ Given(doc, field) /\ doc[field] = Coined, <<field>>)

-----------------------------------------------------------------------------
(* Parts of a Location.                                                     *)

RegularHoursProblems(hours) ==
    Flag(hours.weekday \notin 1..7, <<"weekday">>)
    \cup Flag(NotAfter(hours, "period_begin", "period_end"), <<"period_end">>)

ExceptionalPeriodProblems(period) ==
    Flag(Before(period, "period_end", "period_begin"), <<"period_end">>)

HoursProblems(hours) ==
    Flag(~hours.twentyfourseven /\ ~Given(hours, "regular_hours"), <<"regular_hours">>)
    \cup InParts(hours, "regular_hours", RegularHoursProblems)
    \cup InParts(hours, "exceptional_openings", ExceptionalPeriodProblems)
    \cup InParts(hours, "exceptional_closings", ExceptionalPeriodProblems)

EnergySourceProblems(source) == Flag(source.percentage \notin 0..100, <<"percentage">>)

EnergyMixProblems(mix) ==
    LET total == FoldSeq(LAMBDA source, sum : sum + source.percentage, 0, mix.energy_sources)
    IN  Flag(Given(mix, "energy_sources") /\ total # 100, <<"energy_sources">>)
        \cup InParts(mix, "energy_sources", EnergySourceProblems)

ImageProblems(image) ==
    {<<f>> : f \in {f \in {"width", "height"} : Given(image, f) /\ image[f] > 99999}}

BusinessDetailsProblems(details) ==
    Texts(details, {"name", "website"}) \cup InPart(details, "logo", ImageProblems)

PublishTokenTypeProblems(version, token) ==
    Flag({"uid", "visual_number", "group_id"} \cap DOMAIN token = {}, <<>>)
    \cup Flag(Given(token, "uid") /\ ~Given(token, "type"), <<"type">>)
    \cup Flag(Given(token, "visual_number") /\ ~Given(token, "issuer"), <<"issuer">>)
    \cup Closed(version, token, "type")

StatusScheduleProblems(schedule) ==
    Flag(Before(schedule, "period_end", "period_begin"), <<"period_end">>)

ParkingProblems(parking) ==
    Flag(parking.vehicle_types = {}, <<"vehicle_types">>)
    \cup Flag("DISABLED" \in parking.vehicle_types /\ ~Given(parking, "images"), <<"images">>)
    \cup InParts(parking, "images", ImageProblems)

ConnectorProblems(version, connector) ==
    Texts(connector, Known(version, "Connector"))
    \cup Closed(version, connector, "standard")
    \cup Flag(connector.max_voltage <= 0, <<"max_voltage">>)
    \cup Flag(connector.max_amperage <= 0, <<"max_amperage">>)
    \cup Flag(/\ version = Canonical /\ Given(connector, "max_electric_power")
              /\ connector.max_electric_power <= 0, <<"max_electric_power">>)

EvseProblems(version, evse) ==
    Texts(evse, Known(version, "Evse"))
    \cup Flag(evse.connectors = <<>>, <<"connectors">>)
    \cup InParts(evse, "connectors", LAMBDA c : ConnectorProblems(version, c))
    \cup InParts(evse, "status_schedule", StatusScheduleProblems)
    \cup InParts(evse, "images", ImageProblems)
    \cup InParts(evse, "parking_restrictions",
                 LAMBDA r : Flag(version = "2.2.1" /\ r = Coined, <<>>))

(* An EVSE stands on a Parking of its Location. Both are 2.3.0's.           *)
ParkingReferences(location) ==
    LET places == IF Given(location, "parking_places") THEN ToSet(location.parking_places) ELSE {}
        unknown(at) == at.parking_id \notin {place.id : place \in places}
    IN  InParts(location, "evses", LAMBDA evse :
            InParts(evse, "parking", LAMBDA at : Flag(unknown(at), <<"parking_id">>)))

LocationProblems(version, location) ==
    Texts(location, Known(version, "Location"))
    \cup Flag(location.publish /\ Given(location, "publish_allowed_to"), <<"publish_allowed_to">>)
    \cup InParts(location, "publish_allowed_to", LAMBDA t : PublishTokenTypeProblems(version, t))
    \cup InParts(location, "evses", LAMBDA evse : EvseProblems(version, evse))
    \cup InPart(location, "opening_times", HoursProblems)
    \cup InPart(location, "energy_mix", EnergyMixProblems)
    \cup InParts(location, "images", ImageProblems)
    \cup UNION {InPart(location, by, BusinessDetailsProblems) :
                     by \in {"operator", "suboperator", "owner"}}
    \cup IF version = Canonical
         THEN InParts(location, "parking_places", ParkingProblems) \cup ParkingReferences(location)
         ELSE {}

-----------------------------------------------------------------------------
(* Prices and Tariffs.                                                      *)

TaxProblems(tax) == Flag(Given(tax, "percentage") /\ tax.percentage < 0, <<"percentage">>)

PriceProblems(version, price) ==
    IF version = Canonical THEN InParts(price, "taxes", TaxProblems)
    ELSE Flag(Before(price, "incl_vat", "excl_vat"), <<"incl_vat">>)

(* In 2.2.1 a limit is a Price.                                             *)
LimitProblems(version, limit) ==
    IF version = Canonical THEN Flag(Before(limit, "after_taxes", "before_taxes"), <<"after_taxes">>)
    ELSE PriceProblems(version, limit)

PriceComponentProblems(component) ==
    Flag(component.step_size = 0 /\ component.type # "FLAT", <<"step_size">>)
    \cup Flag(Given(component, "vat") /\ component.vat < 0, <<"vat">>)

RestrictionProblems(r) ==
    UNION {Flag(NotAfter(r, range[1], range[2]), <<range[2]>>) :
               range \in {<<"min_kwh", "max_kwh">>, <<"min_current", "max_current">>,
                          <<"min_power", "max_power">>, <<"min_duration", "max_duration">>,
                          <<"start_date", "end_date">>}}
    \cup Flag(Given(r, "day_of_week") /\ ~IsInjective(r.day_of_week), <<"day_of_week">>)

(* One dimension is priced once; a reservation has only two of them.        *)
ElementProblems(element) ==
    LET dimensions == [i \in DOMAIN element.price_components |-> element.price_components[i].type]
        reserves == Given(element, "restrictions") /\ Given(element.restrictions, "reservation")
    IN  Flag(dimensions = <<>> \/ ~IsInjective(dimensions), <<"price_components">>)
        \cup InParts(element, "price_components", PriceComponentProblems)
        \cup InPart(element, "restrictions", RestrictionProblems)
        \cup InParts(element, "price_components", LAMBDA c :
                Flag(reserves /\ c.type \notin {"FLAT", "TIME"}, <<"type">>))

Bound(version) == IF version = Canonical THEN "before_taxes" ELSE "excl_vat"

TariffProblems(version, tariff) ==
    Texts(tariff, Known(version, "Tariff"))
    \cup Flag(tariff.elements = <<>>, <<"elements">>)
    \cup InParts(tariff, "elements", ElementProblems)
    \cup InPart(tariff, "min_price", LAMBDA p : LimitProblems(version, p))
    \cup InPart(tariff, "max_price", LAMBDA p : LimitProblems(version, p))
    \cup Flag(NotAfter(tariff, "start_date_time", "end_date_time"), <<"end_date_time">>)
    \cup Flag(/\ Given(tariff, "min_price") /\ Given(tariff, "max_price")
              /\ tariff.max_price[Bound(version)] < tariff.min_price[Bound(version)],
              <<"max_price">>)
    \cup InPart(tariff, "energy_mix", EnergyMixProblems)

-----------------------------------------------------------------------------
(* Tokens.                                                                  *)

(* A group id can be a conforming text, and still longer than OCPP allows.  *)
TokenProblems(version, token) ==
    Texts(token, Known(version, "Token"))
    \cup Closed(version, token, "type")
    \cup Flag(Given(token, "group_id") /\ token.group_id = "longer than 20", <<"group_id">>)

CdrTokenProblems(version, token) == Closed(version, token, "type")

WithTokenProblems(version, kind, doc) ==
    Texts(doc, Known(version, kind))
    \cup InPart(doc, "token", LAMBDA token : TokenProblems(version, token))

AuthorizationInfoProblems(version, info) ==
    WithTokenProblems(version, "AuthorizationInfo", info)
    \cup Flag(info.allowed # "ALLOWED" /\ Given(info, "location"), <<"location">>)

StartSessionProblems(version, command) ==
    WithTokenProblems(version, "StartSession", command)
    \cup Flag(Given(command, "connector_id") /\ ~Given(command, "evse_uid"), <<"evse_uid">>)

-----------------------------------------------------------------------------
(* Sessions and CDRs.                                                       *)

SessionOnly == {"CURRENT", "ENERGY_EXPORT", "ENERGY_IMPORT", "POWER", "STATE_OF_CHARGE"}
MayBeNegative == {"CURRENT", "ENERGY", "MIN_CURRENT", "MIN_POWER", "POWER"}

DimensionProblems(d) ==
    Flag(\/ d.type = "STATE_OF_CHARGE" /\ d.volume \notin 0..100
         \/ d.type \notin MayBeNegative /\ d.volume < 0, <<"volume">>)

PeriodProblems(period) ==
    LET types == [i \in DOMAIN period.dimensions |-> period.dimensions[i].type]
    IN  Flag(types = <<>> \/ ~IsInjective(types), <<"dimensions">>)
        \cup InParts(period, "dimensions", DimensionProblems)

(* validate_period_sequence(): in order, and within the session.            *)
SequenceProblems(doc) ==
    LET starts == [i \in DOMAIN doc.charging_periods |-> doc.charging_periods[i].start_date_time]
        misplaced(i) == \/ i > 1 /\ starts[i] <= starts[i - 1]
                        \/ starts[i] < doc.start_date_time
                        \/ Given(doc, "end_date_time") /\ starts[i] >= doc.end_date_time
    IN  {<<"charging_periods", ToString(i - 1), "start_date_time">> :
            i \in {i \in DOMAIN starts : misplaced(i)}}

ChargingProblems(doc) ==
    InParts(doc, "charging_periods", PeriodProblems)
    \cup IF Given(doc, "charging_periods") THEN SequenceProblems(doc) ELSE {}

SessionProblems(version, session) ==
    Texts(session, Known(version, "Session"))
    \cup InPart(session, "cdr_token", LAMBDA token : CdrTokenProblems(version, token))
    \cup InPart(session, "total_cost", LAMBDA p : PriceProblems(version, p))
    \cup ChargingProblems(session)
    \cup Flag(\/ Before(session, "end_date_time", "start_date_time")
              \/ session.status = "COMPLETED" /\ ~Given(session, "end_date_time"),
              <<"end_date_time">>)
    \cup Flag(session.kwh < 0, <<"kwh">>)

Metered(cdr) ==
    LET energy(period) == SelectSeq(period.dimensions, LAMBDA d : d.type = "ENERGY")
    IN  FlattenSeq([i \in DOMAIN cdr.charging_periods |-> energy(cdr.charging_periods[i])])

(* 1970, a placeholder the specification permits: 2.2.1 looks at the start. *)
HasPlaceholder(version, cdr) ==
    cdr.start_date_time = 0 \/ (version = Canonical /\ cdr.end_date_time = 0)

IsCredit(cdr) == Given(cdr, "credit") /\ cdr.credit

SignedDataProblems(data) == Flag(data.signed_values = <<>>, <<"signed_values">>)

(* The rules of 2.3.0 alone.                                                *)
NewCdrProblems(cdr) ==
    LET sum == FoldSeq(LAMBDA d, total : total + d.volume, 0, Metered(cdr))
    IN  Flag(~IsCredit(cdr) /\ Given(cdr, "credit_reference_id"), <<"credit">>)
        \cup Flag(Metered(cdr) # <<>> /\ sum # cdr.total_energy, <<"total_energy">>)
        \cup Flag(Given(cdr, "total_parking_time") /\ cdr.total_parking_time > cdr.total_time,
                  <<"total_parking_time">>)

CdrProblems(version, cdr) ==
    Texts(cdr, Known(version, "Cdr"))
    \cup InPart(cdr, "cdr_token", LAMBDA token : CdrTokenProblems(version, token))
    \cup InPart(cdr, "cdr_location", LAMBDA at : Closed(version, at, "connector_standard"))
    \cup InParts(cdr, "tariffs", LAMBDA tariff : TariffProblems(version, tariff))
    \cup InPart(cdr, "signed_data", SignedDataProblems)
    \cup UNION {InPart(cdr, f, LAMBDA p : PriceProblems(version, p)) :
                    f \in {"total_cost"} \cup TotalCosts}
    \cup Flag(cdr.charging_periods = <<>>, <<"charging_periods">>)
    \cup ChargingProblems(cdr)
    \cup InParts(cdr, "charging_periods", LAMBDA period :
            InParts(period, "dimensions", LAMBDA d : Flag(d.type \in SessionOnly, <<"type">>)))
    \cup Flag(IsCredit(cdr) /\ ~Given(cdr, "credit_reference_id"), <<"credit_reference_id">>)
    \cup Flag(~IsCredit(cdr) /\ cdr.id = "longer than 36", <<"id">>)
    \cup Flag(~HasPlaceholder(version, cdr) /\ Before(cdr, "end_date_time", "start_date_time"),
              <<"end_date_time">>)
    \cup IF version = Canonical THEN NewCdrProblems(cdr) ELSE {}

-----------------------------------------------------------------------------
(* Credentials. Every role is its own combination of role and party.        *)

RoleProblems(role) ==
    Texts(role, OwnerFields) \cup InPart(role, "business_details", BusinessDetailsProblems)

CredentialsProblems(version, credentials) ==
    LET key(i) == LET r == credentials.roles[i] IN <<r.role, r.country_code, r.party_id>>
        repeated == {j \in DOMAIN credentials.roles : \E i \in 1..(j - 1) : key(i) = key(j)}
    IN  Texts(credentials, Known(version, "Credentials"))
        \cup Flag(credentials.roles = <<>>, <<"roles">>)
        \cup InParts(credentials, "roles", RoleProblems)
        \cup {<<"roles", ToString(j - 1)>> : j \in repeated}
        \cup Flag(version = Canonical /\ credentials.token = "", <<"token">>)

-----------------------------------------------------------------------------
Problems(version, kind, doc) ==
    CASE kind = "Location"          -> LocationProblems(version, doc)
      [] kind = "Evse"              -> EvseProblems(version, doc)
      [] kind = "Connector"         -> ConnectorProblems(version, doc)
      [] kind = "Session"           -> SessionProblems(version, doc)
      [] kind = "Cdr"               -> CdrProblems(version, doc)
      [] kind = "Tariff"            -> TariffProblems(version, doc)
      [] kind = "Token"             -> TokenProblems(version, doc)
      [] kind = "AuthorizationInfo" -> AuthorizationInfoProblems(version, doc)
      [] kind = "Credentials"       -> CredentialsProblems(version, doc)
      [] kind = "StartSession"      -> StartSessionProblems(version, doc)
      [] kind = "ReserveNow"        -> WithTokenProblems(version, kind, doc)
      [] OTHER                      -> Texts(doc, Known(version, kind))
=============================================================================
