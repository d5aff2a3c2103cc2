-------------------------------- MODULE Wire --------------------------------
(***************************************************************************)
(* convert/wire.rs: the objects whose wire format changed between OCPI     *)
(* 2.2.1 and 2.3.0, which of them an endpoint carries, and which fields of *)
(* each differ. A server's edge, a client and a hub hold bytes and a path, *)
(* and this table is all they know about what the bytes are.               *)
(***************************************************************************)
EXTENDS Naturals, Sequences

Canonical == "2.3.0"
Versions == {"2.2.1", Canonical}   \* those this build can serve

(* The parts of a message an endpoint may carry an object in.              *)
Payload == {"Request", "Response"}

(* ObjectKind. An object that is the same in both versions has no kind.    *)
Kinds == {"Location", "Evse", "Connector", "Session", "Cdr", "Tariff", "Token",
          "AuthorizationInfo", "Credentials", "ClientInfo", "StartSession", "ReserveNow"}
NoKind == "none"

Bridgeable(from, to) == from = to \/ {from, to} = {"2.2.1", Canonical}

DivergentFields(kind) ==
    CASE kind = "Location"    -> {"evses", "parking_places", "help_phone"}
      [] kind = "Evse"        -> {"connectors", "parking", "accepted_service_providers"}
      [] kind = "Connector"   -> {"capabilities"}
      [] kind = "Session"     -> {"total_cost"}
      [] kind = "Cdr"         -> {"tariffs", "booking_id", "total_cost", "total_fixed_cost",
                                  "total_energy_cost", "total_time_cost",
                                  "total_parking_cost", "total_reservation_cost"}
      [] kind = "Tariff"      -> {"min_price", "max_price", "tax_included", "preauthorize_amount"}
      [] kind = "Credentials" -> {"roles", "hub_party_id"}
      [] kind = "ClientInfo"  -> {"role"}
      [] OTHER                -> {}

(* Plausible slip: `all` for `any`.                                         *)
PatchCrossesUnchanged_All(kind, fields) == ~(fields \subseteq DivergentFields(kind))

PatchCrossesUnchanged(kind, fields) == fields \cap DivergentFields(kind) = {}

(* A path's segments: without the empty one a slash at either end adds.     *)
Segments(path) ==
    IF \A i \in DOMAIN path : path[i] # "" THEN path ELSE SelectSeq(path, LAMBDA s : s # "")

(* A Receiver interface addresses a client-owned object, so two owner       *)
(* segments come before what the Sender interface takes.                    *)
AtDepth(interface, n) == n + (IF interface = "Receiver" THEN 2 ELSE 0)

LocationKind(interface, n) ==
    CASE n = AtDepth(interface, 1) \/ (interface = "Sender" /\ n = 0) -> "Location"
      [] n = AtDepth(interface, 2) -> "Evse"
      [] n = AtDepth(interface, 3) -> "Connector"
      [] OTHER -> NoKind

(* The list of a Sender, or one object of a Receiver.                       *)
ListedOrOwned(interface, n) == n = (IF interface = "Receiver" THEN 3 ELSE 0)

TokenKind(interface, segments, payload) ==
    IF interface = "Sender" /\ segments # <<>> /\ segments[Len(segments)] = "authorize"
    THEN IF payload = "Response" THEN "AuthorizationInfo" ELSE NoKind
    ELSE IF ListedOrOwned(interface, Len(segments)) THEN "Token" ELSE NoKind

(* Only the first segment counts: the interface and the rest do not.        *)
CommandKind(segments, payload) ==
    IF payload = "Response" \/ segments = <<>> THEN NoKind
    ELSE CASE Head(segments) = "START_SESSION" -> "StartSession"
           [] Head(segments) = "RESERVE_NOW" -> "ReserveNow"
           [] OTHER -> NoKind

(* The object an endpoint carries, `below` being the path after the module. *)
ForEndpoint(module, interface, below, payload) ==
    LET segments == Segments(below)
        n == Len(segments)
        only(holds, kind) == IF holds THEN kind ELSE NoKind
    IN  CASE module = "locations"     -> LocationKind(interface, n)
          [] module = "sessions"      -> only(ListedOrOwned(interface, n), "Session")
          [] module = "cdrs"          -> only(n <= 1, "Cdr")
          [] module = "tariffs"       -> only(ListedOrOwned(interface, n), "Tariff")
          [] module = "tokens"        -> TokenKind(interface, segments, payload)
          [] module = "commands"      -> CommandKind(segments, payload)
          [] module = "credentials"   -> only(n = 0, "Credentials")
          [] module = "hubclientinfo" -> only(n = AtDepth(interface, 0), "ClientInfo")
          [] OTHER                    -> NoKind
=============================================================================
