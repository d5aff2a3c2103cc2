------------------------------ MODULE MCCrossing ------------------------------
(***************************************************************************)
(* Objects with whatever changed between the versions in them, once right  *)
(* and once wrong, and the edits that touch what changed and what did not. *)
(***************************************************************************)
EXTENDS Crossing

At == [last_updated |-> 5]
Owned == [country_code |-> "NL", party_id |-> "TNM"]

(* ---- Locations ---------------------------------------------------------- *)
Plug == At @@ [id |-> "1", standard |-> "IEC_62196_T2", format |-> "CABLE",
               power_type |-> "AC_3_PHASE", max_voltage |-> 220, max_amperage |-> 16]
MegaPlug == [Plug EXCEPT !.standard = Coined]
RichPlug == Plug @@ [capabilities |-> <<"ISO_15118_2_PNC">>, vendor |-> "x", tariff_ids |-> <<"T1">>]
DeadPlug == Plug @@ [max_electric_power |-> 0]

Point == At @@ [uid |-> "3256", status |-> "AVAILABLE", connectors |-> <<Plug>>]
RichPoint == [Point EXCEPT !.connectors = <<Plug, RichPlug>>]
             @@ [parking |-> <<[parking_id |-> "P1"]>>, accepted_service_providers |-> <<"TNM">>,
                 evse_id |-> "NL*TNM*E1"]
OddPoint == Point @@ [parking_restrictions |-> <<"CUSTOMERS", Coined>>]

Opening == [twentyfourseven |-> FALSE, regular_hours |-> <<[weekday |-> 1, period_begin |-> 8,
                                                          period_end |-> 20]>>]
Site == At @@ Owned
        @@ [id |-> "LOC1", publish |-> TRUE, address |-> "a", city |-> "c", country |-> "NLD",
            coordinates |-> [latitude |-> 1, longitude |-> 2], time_zone |-> "z",
            evses |-> <<Point>>, opening_times |-> Opening]
Places == <<[id |-> "P1", vehicle_types |-> {"PERSONAL_VEHICLE"}, restricted_to_type |-> TRUE,
              reservation_required |-> FALSE]>>
RichSite == [Site EXCEPT !.evses = <<Point, RichPoint>>]
            @@ [operator |-> [name |-> "n", logo |-> [url |-> "u", category |-> "OPERATOR",
                                                      type |-> "png", width |-> 100000]],
                energy_mix |-> [is_green_energy |-> FALSE, environ_impact |-> <<>>,
                                energy_sources |-> <<[source |-> "COAL", percentage |-> 60]>>],
                parking_places |-> Places, help_phone |-> "112", vendor |-> "x",
                publish_allowed_to |-> <<[uid |-> "UID1", type |-> Coined]>>]
LostSite == [RichSite EXCEPT !.parking_places[1].id = "P2"]
WrongSite == [Site EXCEPT !.evses = <<[Point EXCEPT !.connectors = <<>>]>>]

(* ---- Prices and Tariffs ------------------------------------------------- *)
Vat == [name |-> "VAT", amount |-> 1]
Gst == [name |-> "GST", amount |-> 1]
Refund == [name |-> "VAT", amount |-> -1]
Taxed(taxes) == [before_taxes |-> 5, taxes |-> taxes]
WithVat == [excl_vat |-> 5, incl_vat |-> 6]

Rate == <<[price_components |-> <<[type |-> "ENERGY", price |-> 1, step_size |-> 1]>>]>>
PlainTariff == At @@ Owned @@ [id |-> "T1", currency |-> "EUR", elements |-> Rate]
PlainBounded == PlainTariff @@ [min_price |-> WithVat, max_price |-> [excl_vat |-> 7]]
TaxedTariff == PlainTariff @@ [tax_included |-> "NO"]
TaxedBounded == PlainTariff @@ [tax_included |-> "YES", min_price |-> [before_taxes |-> 5, after_taxes |-> 6],
                            max_price |-> [before_taxes |-> 5], preauthorize_amount |-> 1]
Crossed == [PlainBounded EXCEPT !.max_price.excl_vat = 4]

(* ---- Sessions and CDRs -------------------------------------------------- *)
Tag == Owned @@ [uid |-> "UID1", type |-> "RFID", contract_id |-> "C1"]
Period == <<[start_date_time |-> 2, dimensions |-> <<[type |-> "ENERGY", volume |-> 3]>>]>>
Charge == At @@ Owned
          @@ [id |-> "S1", start_date_time |-> 1, kwh |-> 3, cdr_token |-> Tag,
              auth_method |-> "WHITELIST", location_id |-> "LOC1", evse_uid |-> "3256",
              connector_id |-> "1", currency |-> "EUR", status |-> "ACTIVE"]
Costed(price) == Charge @@ [total_cost |-> price, charging_periods |-> Period]

Where == [id |-> "LOC1", address |-> "a", city |-> "c", country |-> "NLD",
          coordinates |-> [latitude |-> 1, longitude |-> 2], evse_uid |-> "3256",
          evse_id |-> "NL*TNM*E1", connector_id |-> "1", connector_standard |-> "IEC_62196_T2",
          connector_format |-> "CABLE", connector_power_type |-> "AC_3_PHASE"]
Bill(price) == At @@ Owned
        @@ [id |-> "CDR1", start_date_time |-> 1, end_date_time |-> 4, cdr_token |-> Tag,
            auth_method |-> "WHITELIST", currency |-> "EUR", charging_periods |-> Period,
            cdr_location |-> Where,
            total_cost |-> price, total_energy |-> 3, total_time |-> 3]
NewBill == Bill(Taxed(<<Vat>>)) @@ [total_energy_cost |-> Taxed(<<Vat, Gst>>),
                                     booking_id |-> "B1", tariffs |-> <<TaxedTariff, TaxedBounded>>]
OldBill == Bill(WithVat) @@ [total_time_cost |-> [excl_vat |-> 5], tariffs |-> <<PlainBounded>>]
EndlessBill == [Bill(WithVat) EXCEPT !.end_date_time = 0]
UnevenBill == [Bill(WithVat) EXCEPT !.total_energy = 4, !.charging_periods[1].start_date_time = 0]

(* ---- Tokens and commands ------------------------------------------------ *)
Card == At @@ Owned @@ [uid |-> "UID1", type |-> "RFID", contract_id |-> "C1", issuer |-> "i",
                        valid |-> TRUE, whitelist |-> "ALWAYS"]
PhoneCard == [Card EXCEPT !.type = Coined] @@ [group_id |-> "G1"]
Start(card) == [response_url |-> "u", token |-> card, location_id |-> "LOC1"]
Reserve(card) == Start(card) @@ [expiry_date |-> 9, reservation_id |-> "R1"]
Granted(card) == [allowed |-> "ALLOWED", token |-> card]

(* ---- Credentials -------------------------------------------------------- *)
Role(role, party) == [role |-> role, country_code |-> "NL", party_id |-> party,
                      business_details |-> [name |-> "b"]]
OtherHub == [Role("HUB", "HUB") EXCEPT !.business_details.name = "h"] @@ [vendor |-> "x"]
Welcome(roles) == [token |-> "t", url |-> "u", roles |-> roles]
Platform(role) == [party_id |-> "TNM", country_code |-> "NL", role |-> role, status |-> "CONNECTED",
                   last_updated |-> 5]

Kept(version, of, docs) == {[kind |-> of, home |-> version, doc |-> d] : d \in docs}
InBoth(of, docs) == Kept("2.2.1", of, docs) \cup Kept(Canonical, of, docs)

MCDocuments ==
    UNION {InBoth("Connector", {Plug, MegaPlug, DeadPlug}), Kept(Canonical, "Connector", {RichPlug}),
           Kept("2.2.1", "Connector", {Plug @@ [vendor |-> "x"], Plug @@ [capabilities |-> Junk],
                                       [Plug EXCEPT !.max_voltage = 0]}),
           InBoth("Evse", {Point, OddPoint}), Kept(Canonical, "Evse", {RichPoint}),
           InBoth("Location", {Site}), Kept(Canonical, "Location", {RichSite, LostSite}),
           Kept("2.2.1", "Location", {WrongSite, Site @@ [help_phone |-> "113"]}),
           Kept("2.2.1", "Tariff", {PlainTariff, PlainBounded, Crossed}),
           Kept(Canonical, "Tariff", {TaxedTariff, TaxedBounded}),
           InBoth("Session", {Charge, [Charge EXCEPT !.cdr_token.type = Coined]}),
           Kept("2.2.1", "Session", {Costed(WithVat), Costed([excl_vat |-> 5]),
                                     [Charge EXCEPT !.kwh = -1]}),
           Kept(Canonical, "Session", {Costed(Taxed(t)) : t \in {<<Vat>>, <<Vat, Gst>>, <<Refund>>,
                                            <<Vat @@ [percentage |-> 20]>>, <<Vat @@ [code |-> "S"]>>}}),
           Kept("2.2.1", "Cdr", {OldBill, UnevenBill, EndlessBill}), Kept(Canonical, "Cdr", {NewBill}),
           InBoth("Token", {Card, PhoneCard, [Card EXCEPT !.issuer = Unfit]}),
           InBoth("AuthorizationInfo", {Granted(Card), Granted(PhoneCard)}),
           InBoth("StartSession", {Start(Card), Start(Card) @@ [connector_id |-> "1"]}),
           InBoth("ReserveNow", {Reserve(Card)}),
           InBoth("Credentials", {Welcome(<<Role("CPO", "TNM")>>),
                                  Welcome(<<Role("CPO", "TNM"), Role("EMSP", "TNM")>>)}),
           Kept("2.2.1", "Credentials",
                {Welcome(<<Role("CPO", "TNM"), Role("HUB", "HUB")>>), Welcome(<<Role("HUB", "HUB")>>),
                 Welcome(<<Role("CPO", "TNM"), Role("HUB", Unfit)>>),
                 Welcome(<<Role("HUB", "HUB"), Role("CPO", "TNM"), Role("HUB", "HU2")>>),
                 Welcome(<<OtherHub, Role("CPO", "TNM"), Role("EMSP", "TNM")>>),
                 Welcome(<<Role("CPO", "TNM"), Role("CPO", "TNM")>>)}),
           Kept(Canonical, "Credentials",
                {Welcome(<<Role("CPO", "TNM")>>) @@ [hub_party_id |-> hub] :
                    hub \in {<<"NL", "HUB">>, Unfit}}),
           InBoth("ClientInfo", {Platform("CPO")}), Kept("2.2.1", "ClientInfo", {Platform("HUB")})}

Closing == [opening_times |-> [twentyfourseven |-> TRUE, regular_hours |-> Null]]
MCEdits ==
    [k \in Kinds |->
        CASE k = "Location"  -> {Closing, [help_phone |-> "114"], [evses |-> <<Point>>],
                                 [publish |-> FALSE], [name |-> "n"],
                                 [opening_times |-> [regular_hours |-> <<>>]],
                                 [opening_times |-> [twentyfourseven |-> Null]]}
          [] k = "Evse"      -> {[status |-> "BLOCKED"], [connectors |-> <<RichPlug>>],
                                 [evse_id |-> Null], [coordinates |-> [latitude |-> 1, longitude |-> 2]]}
          [] k = "Connector" -> {[max_amperage |-> 32], [max_amperage |-> 0], [standard |-> Coined],
                                 [capabilities |-> <<"ISO_15118_2_PNC">>], [vendor |-> Null]}
          [] k = "Session"   -> {[status |-> "COMPLETED", end_date_time |-> 9], [kwh |-> 4],
                                 [cdr_token |-> [type |-> "APP_USER"]], [total_cost |-> Null],
                                 [charging_periods |-> Period]}
          [] k = "Token"     -> {[valid |-> FALSE], [type |-> Coined], [issuer |-> Unfit],
                                 [group_id |-> Null]}
          [] k = "Tariff"    -> {[min_price |-> Null], [type |-> "REGULAR"]}
          [] OTHER           -> {}]   \* a CDR is posted once, like an exchange and its answer
=============================================================================
