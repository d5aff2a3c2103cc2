------------------------------ MODULE Convert ------------------------------
(***************************************************************************)
(* convert/: documents of OCPI 2.2.1 as documents of 2.3.0 and back, each   *)
(* with a report of what could not be carried. A conversion works on typed  *)
(* objects, and an extension is written out after the fields, so that one   *)
(* whose name the other version gives a meaning takes that field's place.   *)
(***************************************************************************)
EXTENDS Objects, Integers
LOCAL INSTANCE SequencesExt
LOCAL INSTANCE Functions

Empty == <<>>
Without(doc, fields) == Restrict(doc, DOMAIN doc \ fields)
Has(doc, field) == field \in DOMAIN doc

(* Converted, its losses a set of JSON pointers.                            *)
Converted(value, lossy) == [value |-> value, lossy |-> lossy]
Lossless(value) == Converted(value, {})
Absorb(prefix, lossy) == {prefix \o pointer : pointer \in lossy}

Index(i) == ToString(i - 1)

InList(list, Convert(_)) ==
    Converted([i \in DOMAIN list |-> Convert(list[i]).value],
              UNION {Absorb(<<Index(i)>>, Convert(list[i]).lossy) : i \in DOMAIN list})

InFields(doc, fields, Convert(_)) ==
    Converted([f \in DOMAIN doc |-> IF f \in fields THEN Convert(doc[f]).value ELSE doc[f]],
              UNION {Absorb(<<f>>, Convert(doc[f]).lossy) : f \in fields \cap DOMAIN doc})

InLists(doc, field, Convert(_)) ==
    InFields(doc, {field}, LAMBDA list : InList(list, Convert))

Drop(doc, fields) == Converted(Without(doc, fields), {<<f>> : f \in fields \cap DOMAIN doc})

Then(converted, Convert(_)) ==
    LET next == Convert(converted.value)
    IN  Converted(next.value, converted.lossy \cup next.lossy)

(* A part of which only the value is taken, not the report.                 *)
Taking(doc, field, Convert(_)) == Lossless(InFields(doc, {field}, Convert).value)

-----------------------------------------------------------------------------
(* Price. IMPLIED_VAT_NAME is "VAT".                                        *)

AfterTaxes(price) == FoldSeq(LAMBDA tax, sum : sum + tax.amount, price.before_taxes, price.taxes)

(* Plausible slip: the tax is what is paid with it.                         *)
ImpliedVat_Whole(price) == price.incl_vat
ImpliedVat(price) == price.incl_vat - price.excl_vat

UpPrice(price) ==
    Lossless(Without(price, {"excl_vat", "incl_vat"})
             @@ [before_taxes |-> price.excl_vat]
             @@ IF Has(price, "incl_vat")
                THEN [taxes |-> <<[name |-> "VAT", amount |-> ImpliedVat(price)]>>] ELSE Empty)

(* A tax that says more than that it is VAT.                                *)
Itemised(price, tax) ==
    Len(price.taxes) > 1 \/ tax.name # "VAT" \/ Has(tax, "percentage") \/ Has(tax, "account_number")

DownPrice(price) ==
    LET taxed == Has(price, "taxes") /\ price.taxes # <<>>
    IN  Converted(Without(price, {"before_taxes", "taxes"})
                  @@ [excl_vat |-> price.before_taxes]
                  @@ IF taxed THEN [incl_vat |-> AfterTaxes(price)] ELSE Empty,
                  IF taxed THEN {<<"taxes", Index(i)>> :
                                    i \in {i \in DOMAIN price.taxes : Itemised(price, price.taxes[i])}}
                  ELSE {})

-----------------------------------------------------------------------------
(* Locations. Values of the enums 2.3.0 opened keep their text.             *)

UpConnector(connector) == Lossless(connector)
DownConnector(connector) == Drop(connector, {"capabilities"})

UpEvse(evse) == InLists(evse, "connectors", UpConnector)

(* Plausible slip: what is dropped is not reported.                         *)
DownEvse_Silent(evse) ==
    InLists(Without(evse, {"parking", "accepted_service_providers"}), "connectors", DownConnector)
DownEvse(evse) ==
    Then(Drop(evse, {"parking", "accepted_service_providers"}),
         LAMBDA kept : InLists(kept, "connectors", DownConnector))

UpPublishTokenType(token) == Lossless(token)
DownPublishTokenType(token) == Lossless(token)

UpLocation(location) ==
    Then(Taking(location, "publish_allowed_to", LAMBDA list : InList(list, UpPublishTokenType)),
         LAMBDA published : InLists(published, "evses", UpEvse))

DownLocation(location) ==
    LET kept == Drop(location, {"parking_places", "help_phone"})
        published(doc) == Taking(doc, "publish_allowed_to",
                                 LAMBDA list : InList(list, DownPublishTokenType))
    IN  Then(Then(kept, published), LAMBDA rest : InLists(rest, "evses", DownEvse))

-----------------------------------------------------------------------------
(* Tariffs. A limit is a price of another name, in both directions.         *)

Limits == {"min_price", "max_price"}

UpLimit(price) ==
    Lossless(Without(price, {"excl_vat", "incl_vat"})
             @@ [before_taxes |-> price.excl_vat]
             @@ IF Has(price, "incl_vat") THEN [after_taxes |-> price.incl_vat] ELSE Empty)

(* Plausible slip: the limit is what is paid, taxes and all.                *)
DownLimit_Gross(limit) ==
    Lossless(Without(limit, {"before_taxes", "after_taxes"})
             @@ [excl_vat |-> IF Has(limit, "after_taxes") THEN limit.after_taxes
                              ELSE limit.before_taxes])

DownLimit(limit) ==
    Lossless(Without(limit, {"before_taxes", "after_taxes"})
             @@ [excl_vat |-> limit.before_taxes]
             @@ IF Has(limit, "after_taxes") THEN [incl_vat |-> limit.after_taxes] ELSE Empty)

(* Plausible slip: the field 2.3.0 added is not filled in.                  *)
UpTariff_AsIs(tariff) == InFields(tariff, Limits, UpLimit)

(* Prices of 2.2.1 exclude tax by definition.                               *)
UpTariff(tariff) ==
    LET converted == InFields(tariff, Limits, UpLimit)
    IN  Converted(converted.value @@ [tax_included |-> "NO"], converted.lossy)

DownTariff(tariff) ==
    LET taxes == IF tariff.tax_included = "NO" THEN {} ELSE {<<"tax_included">>}
        kept == Drop(Without(tariff, {"tax_included"}), {"preauthorize_amount"})
        converted == InFields(kept.value, Limits, DownLimit)
    IN  Converted(converted.value, taxes \cup kept.lossy \cup converted.lossy)

-----------------------------------------------------------------------------
(* Tokens, and what embeds them: field by field the same.                   *)

UpToken(token) == Lossless(token)
DownToken(token) == Lossless(token)

UpAuthorizationInfo(info) == Taking(info, "token", UpToken)
DownAuthorizationInfo(info) == Taking(info, "token", DownToken)

UpStartSession(start) == Taking(start, "token", UpToken)
DownStartSession(start) == Taking(start, "token", DownToken)

UpReserveNow(reserve) == Taking(reserve, "token", UpToken)
DownReserveNow(reserve) == Taking(reserve, "token", DownToken)

UpCdrToken(token) == Lossless(token)
DownCdrToken(token) == Lossless(token)
UpCdrLocation(location) == Lossless(location)
DownCdrLocation(location) == Lossless(location)

-----------------------------------------------------------------------------
(* CDRs and Sessions.                                                       *)

UpCosts(doc) == InFields(doc, {"total_cost"} \cup TotalCosts, UpPrice)
DownCosts(doc) == InFields(doc, {"total_cost"} \cup TotalCosts, DownPrice)

UpCdrParts(cdr) ==
    Then(Taking(cdr, "cdr_token", UpCdrToken),
         LAMBDA tagged : Taking(tagged, "cdr_location", UpCdrLocation))
DownCdrParts(cdr) ==
    Then(Taking(cdr, "cdr_token", DownCdrToken),
         LAMBDA tagged : Taking(tagged, "cdr_location", DownCdrLocation))

UpCdr(cdr) ==
    Then(UpCdrParts(cdr),
         LAMBDA parts : Then(UpCosts(parts), LAMBDA costed : InLists(costed, "tariffs", UpTariff)))

DownCdr(cdr) ==
    LET kept == Drop(cdr, {"booking_id"})
        costed == Then(Then(kept, DownCdrParts), DownCosts)
    IN  Then(costed, LAMBDA rest : InLists(rest, "tariffs", DownTariff))

UpSession(session) ==
    Then(Taking(session, "cdr_token", UpCdrToken),
         LAMBDA tagged : InFields(tagged, {"total_cost"}, UpPrice))
DownSession(session) ==
    Then(Taking(session, "cdr_token", DownCdrToken),
         LAMBDA tagged : InFields(tagged, {"total_cost"}, DownPrice))

-----------------------------------------------------------------------------
(* Roles and Credentials. A hub is a role in 2.2.1 and a party id in 2.3.0, *)
(* which names a party only if it is five characters long.                  *)

UpRole(role) == IF role = "HUB" THEN Converted("OTHER", {<<>>}) ELSE Lossless(role)
DownRole(role) == Lossless(role)

ToHubPartyId(role) ==
    IF Unfit \in {role.country_code, role.party_id} THEN Unfit
    ELSE <<role.country_code, role.party_id>>

HubParty(credentials) ==
    IF Has(credentials, "hub_party_id") THEN credentials.hub_party_id ELSE Unfit

IsHub(role) == role.role = "HUB"

(* Plausible slip: the HUB role stays among the roles, as OTHER.            *)
OtherRoles_All(roles) == [i \in DOMAIN roles |-> [roles[i] EXCEPT !.role = UpRole(@).value]]
OtherRoles(roles) == SelectSeq(roles, LAMBDA role : ~IsHub(role))

UpCredentials(credentials) ==
    LET hubs == SelectSeq(credentials.roles, IsHub)
    IN  Lossless([credentials EXCEPT !.roles = OtherRoles(@)]
                 @@ IF hubs # <<>> THEN [hub_party_id |-> ToHubPartyId(Head(hubs))] ELSE Empty)

HubRole(hub, like) ==
    [role |-> "HUB", country_code |-> hub[1], party_id |-> hub[2],
     business_details |-> like.business_details]

DownCredentials(credentials) ==
    LET hub == HubParty(credentials)
        roles == credentials.roles
        added == IF hub = Unfit \/ roles = <<>> THEN <<>> ELSE <<HubRole(hub, Head(roles))>>
    IN  Converted([Without(credentials, {"hub_party_id"}) EXCEPT !.roles = roles \o added],
                  IF hub = Unfit THEN {} ELSE {<<"hub_party_id">>})

UpClientInfo(info) == InFields(info, {"role"}, UpRole)
DownClientInfo(info) == InFields(info, {"role"}, DownRole)

-----------------------------------------------------------------------------
(* ObjectKind::bridge(): one object. What does not decode is refused.       *)

Upgrade(kind, doc) ==
    CASE kind = "Location"    -> UpLocation(doc)
      [] kind = "Evse"        -> UpEvse(doc)
      [] kind = "Connector"   -> UpConnector(doc)
      [] kind = "Tariff"      -> UpTariff(doc)
      [] kind = "Cdr"         -> UpCdr(doc)
      [] kind = "Session"     -> UpSession(doc)
      [] kind = "Credentials" -> UpCredentials(doc)
      [] kind = "Token"       -> UpToken(doc)
      [] kind = "AuthorizationInfo" -> UpAuthorizationInfo(doc)
      [] kind = "StartSession"      -> UpStartSession(doc)
      [] kind = "ReserveNow"        -> UpReserveNow(doc)
      [] kind = "ClientInfo"  -> UpClientInfo(doc)

Downgrade(kind, doc) ==
    CASE kind = "Location"    -> DownLocation(doc)
      [] kind = "Evse"        -> DownEvse(doc)
      [] kind = "Connector"   -> DownConnector(doc)
      [] kind = "Tariff"      -> DownTariff(doc)
      [] kind = "Cdr"         -> DownCdr(doc)
      [] kind = "Session"     -> DownSession(doc)
      [] kind = "Credentials" -> DownCredentials(doc)
      [] kind = "Token"       -> DownToken(doc)
      [] kind = "AuthorizationInfo" -> DownAuthorizationInfo(doc)
      [] kind = "StartSession"      -> DownStartSession(doc)
      [] kind = "ReserveNow"        -> DownReserveNow(doc)
      [] kind = "ClientInfo"  -> DownClientInfo(doc)

Refused == "refused"

Bridge(kind, from, to, doc) ==
    IF from = to THEN Lossless(doc)
    ELSE IF ~Decodes(from, kind, doc) THEN Converted(Refused, {})
    ELSE IF from = "2.2.1" THEN Upgrade(kind, Written(from, kind, doc))
    ELSE Downgrade(kind, Written(from, kind, doc))
=============================================================================
