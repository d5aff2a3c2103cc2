------------------------------ MODULE Objects ------------------------------
(***************************************************************************)
(* JSON documents of v2_2_1 and v2_3_0: functions from the names of the     *)
(* members present to what they hold. What a member holds is a document of  *)
(* its own where Parts says so; otherwise a scalar, a model value or a      *)
(* string standing for one, since both versions bound every text alike.     *)
(***************************************************************************)
EXTENDS Shapes, TLC
LOCAL INSTANCE SequencesExt

CONSTANTS
    Null,     \* JSON's
    Junk,     \* a value of a type no OCPI field has
    Unfit,    \* a text that is too long or holds what it must not
    Coined    \* a value of an enum that 2.2.1 closed and 2.3.0 opened, new or a vendor's

LocationParts ==
    [publish_allowed_to |-> "PublishTokenType", coordinates |-> "GeoLocation",
     related_locations |-> "AdditionalGeoLocation", evses |-> "Evse",
     parking_places |-> "Parking", directions |-> "DisplayText",
     operator |-> "BusinessDetails", suboperator |-> "BusinessDetails",
     owner |-> "BusinessDetails", opening_times |-> "Hours", images |-> "Image",
     energy_mix |-> "EnergyMix"]

EvseParts ==
    [status_schedule |-> "StatusSchedule", connectors |-> "Connector",
     coordinates |-> "GeoLocation", directions |-> "DisplayText", parking |-> "EvseParking",
     images |-> "Image"]

CdrParts ==
    [cdr_token |-> "CdrToken", cdr_location |-> "CdrLocation", tariffs |-> "Tariff",
     charging_periods |-> "ChargingPeriod", signed_data |-> "SignedData",
     total_cost |-> "Price"] @@ [cost \in TotalCosts |-> "Price"]

(* A price limit of 2.2.1 is a Price.                                       *)
TariffParts(version) ==
    LET limit == IF version = Canonical THEN "PriceLimit" ELSE "Price"
    IN  [tariff_alt_text |-> "DisplayText", min_price |-> limit, max_price |-> limit,
         elements |-> "TariffElement", energy_mix |-> "EnergyMix"]

(* The members that hold documents, one or a list of them.                  *)
Parts(version, object) ==
    CASE object = "Location"  -> LocationParts
      [] object = "Evse"      -> EvseParts
      [] object = "Cdr"       -> CdrParts
      [] object = "Tariff"    -> TariffParts(version)
      [] object = "Session"   -> [cdr_token |-> "CdrToken", charging_periods |-> "ChargingPeriod",
                                  total_cost |-> "Price"]
      [] object \in {"StartSession", "ReserveNow"} -> [token |-> "Token"]
      [] object = "AuthorizationInfo" ->
            [token |-> "Token", location |-> "LocationReferences", info |-> "DisplayText"]
      [] object = "Token"           -> [energy_contract |-> "EnergyContract"]
      [] object = "Credentials"     -> [roles |-> "Role"]
      [] object = "Role"            -> [business_details |-> "BusinessDetails"]
      [] object = "AdditionalGeoLocation" -> [name |-> "DisplayText"]
      [] object = "BusinessDetails" -> [logo |-> "Image"]
      [] object = "Parking"         -> [images |-> "Image"]
      [] object = "Hours" -> [regular_hours |-> "RegularHours",
                              exceptional_openings |-> "ExceptionalPeriod",
                              exceptional_closings |-> "ExceptionalPeriod"]
      [] object = "EnergyMix" -> [energy_sources |-> "EnergySource",
                                  environ_impact |-> "EnvironmentalImpact"]
      [] object = "Price"          -> [taxes |-> "TaxAmount"]
      [] object = "TariffElement"  -> [price_components |-> "PriceComponent",
                                       restrictions |-> "TariffRestrictions"]
      [] object = "ChargingPeriod" -> [dimensions |-> "CdrDimension"]
      [] object = "CdrLocation"    -> [coordinates |-> "GeoLocation"]
      [] object = "SignedData"     -> [signed_values |-> "SignedValue"]
      [] OTHER                     -> <<>>

(* The lists that must be there.                                            *)
RequiredLists == {"connectors", "elements", "price_components", "charging_periods",
                  "dimensions", "signed_values", "roles"}

IsList(version, object, field) ==
    field \in ShapeOf(version, object).lists \cup RequiredLists

(* What a version reads out of a document as parts, by member.              *)
PartsIn(version, object, doc) ==
    {f \in DOMAIN Parts(version, object) \cap Known(version, object) \cap DOMAIN doc :
        doc[f] # Null}

PartsOf(version, object, doc, field) ==
    IF IsList(version, object, field) THEN ToSet(doc[field]) ELSE {doc[field]}

(* Deserialize: what is required is there, and what is known has its type.  *)
(* A field that is optional may be null, a list may not.                    *)
RECURSIVE Decodes(_, _, _)
Decodes(version, object, doc) ==
    /\ ShapeOf(version, object).required \subseteq DOMAIN doc
    /\ \A f \in DOMAIN doc \cap Known(version, object) :
          doc[f] # Junk /\ (doc[f] = Null => f \in ShapeOf(version, object).options)
    /\ \A f \in PartsIn(version, object, doc) :
          \A part \in PartsOf(version, object, doc, f) :
             Decodes(version, Parts(version, object)[f], part)

(* Serialize: an absent option and an empty list are left out.              *)
RECURSIVE Written(_, _, _)
Written(version, object, doc) ==
    LET shape == ShapeOf(version, object)
        kept == {f \in DOMAIN doc : /\ doc[f] = Null => f \notin shape.options
                                    /\ f \in shape.lists => doc[f] # <<>>}
        written(f, part) == Written(version, Parts(version, object)[f], part)
    IN  [f \in kept |->
            IF f \notin PartsIn(version, object, doc) THEN doc[f]
            ELSE IF IsList(version, object, f)
            THEN [i \in DOMAIN doc[f] |-> written(f, doc[f][i])]
            ELSE written(f, doc[f])]
=============================================================================
